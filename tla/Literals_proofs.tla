--------------------------- MODULE Literals_proofs ---------------------------
(* Proofs about the literal pools for any number of values, slots and        *)
(* segments.                                                                 *)
EXTENDS Literals, SequenceTheorems, WellFoundedInduction, TLAPS

-----------------------------------------------------------------------------
(* Sequences of instructions. *)

LEMMA InsertAtType ==
    ASSUME NEW S, NEW s \in Seq(S), NEW i \in DOMAIN s, NEW e \in S
    PROVE  InsertAt(s, i, e) \in Seq(S)
<1>1. Len(s) \in Nat /\ i \in 1 .. Len(s)
  BY LenProperties
<1>2. \A j \in 1 .. Len(s) : s[j] \in S
  BY ElementOfSeq
<1>3. SubSeq(s, 1, i - 1) \in Seq(S) /\ SubSeq(s, i, Len(s)) \in Seq(S)
  BY <1>1, <1>2, SubSeqProperties
<1>4. <<e>> \in Seq(S)
  OBVIOUS
<1>5. SubSeq(s, 1, i - 1) \o <<e>> \in Seq(S)
  BY <1>3, <1>4, ConcatProperties
<1> QED
  BY <1>3, <1>5, ConcatProperties DEF InsertAt

\* A sequence whose elements are in another set as well.
LEMMA SeqIn ==
    ASSUME NEW S, NEW T, NEW s \in Seq(S), \A i \in DOMAIN s : s[i] \in T
    PROVE  s \in Seq(T)
<1>1. s = [i \in 1 .. Len(s) |-> s[i]] /\ Len(s) \in Nat /\ DOMAIN s = 1 .. Len(s)
  BY LenProperties, SeqDef
<1> QED
  BY <1>1

\* Replacing every element.
LEMMA SeqMapped ==
    ASSUME NEW S, NEW T, NEW s \in Seq(S), NEW t,
           t = [i \in DOMAIN s |-> t[i]], \A i \in DOMAIN s : t[i] \in T
    PROVE  t \in Seq(T)
<1>1. Len(s) \in Nat /\ DOMAIN s = 1 .. Len(s)
  BY LenProperties
<1> QED
  BY <1>1

-----------------------------------------------------------------------------
(* What addLiteral finds. *)

LEMMA FirstOf ==
    ASSUME NEW S, S \subseteq Nat, S # {}
    PROVE  \E x \in S : \A y \in S : x <= y
<1> DEFINE R == OpToRel(<, Nat)
<1>1. IsWellFoundedOn(R, Nat)
  BY NatLessThanWellFounded
<1> HIDE DEF R
<1>2. PICK x \in S : \A y \in S : ~(<<y, x>> \in R)
  BY <1>1, WFMin
<1>3. ASSUME NEW y \in S PROVE x <= y
  <2>1. x \in Nat /\ y \in Nat
    OBVIOUS
  <2>2. R = {ss \in Nat \X Nat : ss[1] < ss[2]}
    BY DEF OpToRel, R
  <2>3. ~(y < x)
    BY <1>2, <2>1, <2>2
  <2> QED
    BY <2>1, <2>3
<1> QED
  BY <1>3

LEMMA FirstGlobalFound ==
    ASSUME NEW v, IsGlobal(v)
    PROVE  FirstGlobal(v) \in ScannedSlots /\ glob[FirstGlobal(v)] = v
<1> DEFINE S == {x \in ScannedSlots : glob[x] = v}
<1>1. S \subseteq Nat /\ S # {}
  BY ConstantsAssumption DEF ScannedSlots, IsGlobal
<1>2. PICK x \in S : \A y \in S : x <= y
  BY <1>1, FirstOf
<1> QED
  BY <1>2 DEF FirstGlobal

LEMMA WalkedToType ==
    ASSUME NEW lits \in Seq(Values), NEW v
    PROVE  WalkedTo(lits, v) \in Int
<1> DEFINE S == {i \in DOMAIN lits : lits[i] = v}
<1>1. Len(lits) \in Nat /\ DOMAIN lits = 1 .. Len(lits)
  BY LenProperties
<1>2. CASE S # {}
  <2>0. S \subseteq Nat /\ S # {}
    BY <1>1, <1>2
  <2>1. PICK i \in S : \A j \in S : i <= j
    BY <2>0, FirstOf
  <2>2. \A j \in 1 .. i - 1 : lits[j] # v
    BY <1>1, <2>1
  <2>3. WalkedTo(lits, v) \in DOMAIN lits
    BY <2>1, <2>2 DEF WalkedTo
  <2> QED
    BY <1>1, <2>3
<1>3. CASE S = {}
  BY <1>1, <1>3 DEF WalkedTo
<1> QED
  BY <1>2, <1>3

-----------------------------------------------------------------------------
(* Types. *)

LEMMA OpType == Op \in Ins /\ \A v \in Values : Literal(v) \in Ins
<1>1. 0 \in 0 .. Field - 1
  BY ConstantsAssumption
<1>2. Op \in Ins
  BY <1>1 DEF Op, Ins, Word
<1>3. ASSUME NEW v \in Values PROVE Literal(v) \in Ins
  BY <1>2 DEF Literal, Ins, Word
<1> QED
  BY <1>2, <1>3

LEMMA LoadType ==
    ASSUME NEW base \in {"PC", "FP"}, NEW off \in Int, NEW v \in Values,
           NEW how \in {"global", "new", "reused"}
    PROVE  Load(base, off, v, how) \in Ins
<1>1. 0 \in 0 .. Field - 1
  BY ConstantsAssumption
<1> QED
  BY <1>1 DEF Load, Ins, Word

LEMMA EncodeType == ASSUME NEW i \in Ins PROVE Encode(i) \in Ins
<1>1. i.off % Field \in 0 .. Field - 1
  BY ConstantsAssumption DEF Ins
<1> QED
  BY <1>1 DEF Encode, Ins

LEMMA CorrectedType ==
    ASSUME NEW i \in Ins, NEW x \in Int, Len(seg.lits) \in Int, Len(seg.code) \in Int
    PROVE  Corrected(i, x) \in Ins
<1> DEFINE back == i.off - (x - 1) - Len(seg.lits) - 2
           behind == Len(seg.code) - (x - 1) + i.off - 2
<1>1. back \in Int /\ -back \in Int /\ behind \in Int
  BY SMTT(30) DEF Ins
<1>2. /\ [i EXCEPT !.up = FALSE] \in Ins
      /\ [i EXCEPT !.up = FALSE, !.off = -back] \in Ins
      /\ [i EXCEPT !.off = back] \in Ins
      /\ [i EXCEPT !.off = behind] \in Ins
  <2> HIDE DEF back, behind
  <2> QED
    BY <1>1 DEF Ins
<1>3. Corrected(i, x) \in {i, [i EXCEPT !.up = FALSE], [i EXCEPT !.up = FALSE, !.off = -back],
                           [i EXCEPT !.off = back], [i EXCEPT !.off = behind]}
  BY Zenon DEF Corrected
<1> QED
  BY <1>2, <1>3

LEMMA NoSegmentType ==
    NoSegment \in [pass : {"none", "build", "emit"}, type : SegTypes,
                   lits : Seq(Values), code : Seq(Ins)]
<1>1. <<>> \in Seq(Values) /\ <<>> \in Seq(Ins)
  OBVIOUS
<1> QED
  BY <1>1 DEF NoSegment, SegTypes

LEMMA TypeCorrectStep == TypeOK /\ [Next]_vars => TypeOK'
<1> SUFFICES ASSUME TypeOK, [Next]_vars PROVE TypeOK'
  OBVIOUS
<1> DEFINE SegRec == [pass : {"none", "build", "emit"}, type : SegTypes,
                      lits : Seq(Values), code : Seq(Ins)]
<1>1. /\ glob \in [Slots -> Word] /\ count \in 0 .. Field /\ seg \in SegRec
      /\ out \in Seq(Ins) /\ halted \in BOOLEAN
      /\ seg.code \in Seq(Ins) /\ seg.lits \in Seq(Values)
      /\ Len(seg.code) \in Nat /\ Len(seg.lits) \in Nat /\ Field \in Nat
  BY LenProperties, ConstantsAssumption DEF TypeOK
<1>2. ASSUME NEW p \in Positions, NEW i \in Ins
      PROVE  [seg EXCEPT !.code = InsertAt(@, p, i)] \in SegRec
  <2>1. InsertAt(seg.code, p, i) \in Seq(Ins)
    BY <1>1, <1>2, InsertAtType DEF Positions
  <2> QED
    BY <1>1, <2>1
<1>3. CASE LoadKnownGlobal
  <2>1. PICK v \in Values, p \in Positions :
           /\ IsGlobal(v)
           /\ seg' = [seg EXCEPT !.code = InsertAt(@, p, Load("FP", FirstGlobal(v), v, "global"))]
    BY <1>3 DEF LoadKnownGlobal
  <2>2. FirstGlobal(v) \in Int
    BY <2>1, <1>1, FirstGlobalFound, ConstantsAssumption DEF ScannedSlots
  <2>3. Load("FP", FirstGlobal(v), v, "global") \in Ins
    BY <2>2, LoadType
  <2> QED
    BY <1>1, <1>2, <1>3, <2>1, <2>3 DEF TypeOK, LoadKnownGlobal
<1>4. CASE LoadNewGlobal
  <2>1. PICK v \in Values, p \in Positions :
           IF count >= Field
           THEN halted' = TRUE /\ UNCHANGED <<glob, count, seg>>
           ELSE /\ count' = count + 1
                /\ glob'  = [glob EXCEPT ![count + 1] = v]
                /\ seg'   = [seg EXCEPT !.code =
                                InsertAt(@, p, Load("FP", -(count + 1), v, "global"))]
                /\ UNCHANGED halted
    BY <1>4 DEF LoadNewGlobal
  <2>2. CASE count >= Field
    BY <1>1, <1>4, <2>1, <2>2 DEF TypeOK, LoadNewGlobal
  <2>3. CASE ~(count >= Field)
    <3>1. count + 1 \in 0 .. Field /\ -(count + 1) \in Int
      BY <1>1, <2>3
    <3>2. Load("FP", -(count + 1), v, "global") \in Ins
      BY <3>1, LoadType
    <3>3. glob' \in [Slots -> Word]
      BY <1>1, <2>1, <2>3 DEF Word
    <3> QED
      BY <1>1, <1>2, <1>4, <2>1, <2>3, <3>1, <3>2, <3>3 DEF TypeOK, LoadNewGlobal
  <2> QED
    BY <2>2, <2>3
<1>5. CASE LoadLocal
  <2>1. PICK v \in Values, p \in Positions :
           seg' = [seg EXCEPT
                    !.lits = IF v \in ToSet(seg.lits) THEN @ ELSE Append(@, v),
                    !.code = InsertAt(@, p, Load("PC", WalkedTo(seg.lits, v), v,
                                       IF v \in ToSet(seg.lits) THEN "reused" ELSE "new"))]
    BY <1>5 DEF LoadLocal
  <2>2. WalkedTo(seg.lits, v) \in Int
    BY <1>1, WalkedToType
  <2> DEFINE how == IF v \in ToSet(seg.lits) THEN "reused" ELSE "new"
             i   == Load("PC", WalkedTo(seg.lits, v), v, how)
             l   == IF v \in ToSet(seg.lits) THEN seg.lits ELSE Append(seg.lits, v)
  <2>3. i \in Ins
    BY <2>2, LoadType
  <2>4. l \in Seq(Values)
    BY <1>1, AppendProperties
  <2>5. InsertAt(seg.code, p, i) \in Seq(Ins)
    BY <1>1, <2>3, InsertAtType DEF Positions
  <2>6. seg' = [seg EXCEPT !.lits = l, !.code = InsertAt(seg.code, p, i)]
    BY <2>1
  <2> HIDE DEF i, l, how
  <2>7. seg' \in SegRec
    BY <1>1, <2>4, <2>5, <2>6
  <2> QED
    BY <1>1, <1>5, <2>7 DEF TypeOK, LoadLocal
<1>6. CASE AddOther
  BY <1>1, <1>2, <1>6, OpType DEF TypeOK, AddOther
<1>7. CASE Begin
  <2>1. PICK t \in SegTypes :
           seg' = [pass |-> "build", type |-> t, lits |-> <<>>, code |-> <<Op>>]
    BY <1>7 DEF Begin
  <2>2. <<>> \in Seq(Values) /\ <<Op>> \in Seq(Ins)
    BY OpType
  <2>3. seg' \in SegRec
    BY <2>1, <2>2
  <2> QED
    BY <1>1, <1>7, <2>3 DEF TypeOK, Begin
<1>8. CASE TranslateLiterals
  <2> DEFINE t == [x \in DOMAIN seg.code |-> Corrected(seg.code[x], x)]
  <2>1. \A x \in DOMAIN seg.code : t[x] \in Ins
    BY <1>1, CorrectedType, ElementOfSeq
  <2>2. t \in Seq(Ins)
    BY <1>1, <2>1, SeqMapped
  <2>3. seg' = [seg EXCEPT !.pass = "emit", !.code = t]
    BY <1>8 DEF TranslateLiterals
  <2> HIDE DEF t
  <2>4. seg' \in SegRec
    BY <1>1, <2>2, <2>3
  <2> QED
    BY <1>1, <1>8, <2>4 DEF TypeOK, TranslateLiterals
<1>9. CASE Emit
  <2> DEFINE lits == [i \in DOMAIN seg.lits |-> Literal(seg.lits[i])]
             code == [i \in DOMAIN seg.code |-> Encode(seg.code[i])]
  <2>1. \A i \in DOMAIN seg.lits : lits[i] \in Ins
    BY <1>1, OpType, ElementOfSeq
  <2>2. \A i \in DOMAIN seg.code : code[i] \in Ins
    BY <1>1, EncodeType, ElementOfSeq
  <2>3. /\ lits = [i \in DOMAIN seg.lits |-> lits[i]]
        /\ code = [i \in DOMAIN seg.code |-> code[i]]
    OBVIOUS
  <2>4. out' = out \o lits \o code \/ out' = out \o code \o lits
    BY <1>9 DEF Emit
  <2> HIDE DEF lits, code
  <2>5. out' \in Seq(Ins)
    <3>1. lits \in Seq(Ins)
      BY <1>1, <2>1, <2>3, SeqMapped
    <3>2. code \in Seq(Ins)
      BY <1>1, <2>2, <2>3, SeqMapped
    <3>3. out \o lits \in Seq(Ins) /\ out \o code \in Seq(Ins)
      BY <1>1, <3>1, <3>2, ConcatProperties
    <3>4. out \o lits \o code \in Seq(Ins) /\ out \o code \o lits \in Seq(Ins)
      BY <3>1, <3>2, <3>3, ConcatProperties
    <3> QED
      BY <2>4, <3>4
  <2>6. NoSegment \in SegRec
    BY NoSegmentType
  <2> QED
    BY <1>1, <1>9, <2>5, <2>6 DEF TypeOK, Emit
<1>10. CASE UNCHANGED vars
  BY <1>1, <1>10 DEF TypeOK, vars
<1> QED
  BY <1>3, <1>4, <1>5, <1>6, <1>7, <1>8, <1>9, <1>10 DEF Next, AddLiteral

LEMMA InitType == Init => TypeOK
<1>1. <<>> \in Seq(Ins) /\ 0 \in 0 .. Field
  BY ConstantsAssumption
<1>2. [x \in Slots |-> Unused] \in [Slots -> Word]
  BY DEF Word
<1> QED
  BY <1>1, <1>2, NoSegmentType DEF Init, TypeOK

\* Every variable keeps its type: in particular an encoded offset fits its field.
THEOREM LiteralsTypeCorrect == Spec => []TypeOK
BY InitType, TypeCorrectStep, PTL DEF Spec

-----------------------------------------------------------------------------
(* The global slots. *)

LEMMA GlobalsDistinctStep ==
    ASSUME TypeOK, GlobalsDistinct, [Next]_vars
    PROVE  GlobalsDistinct' /\ \A x \in Slots : glob[x] # Unused => glob'[x] = glob[x]
<1>1. CASE UNCHANGED <<glob, count>>
  BY <1>1 DEF GlobalsDistinct
<1>2. CASE LoadNewGlobal /\ ~(count >= Field)
  <2>1. PICK v \in Values : /\ ~IsGlobal(v) /\ count' = count + 1
                            /\ glob' = [glob EXCEPT ![count + 1] = v]
    BY <1>2 DEF LoadNewGlobal
  <2>2. /\ count \in Nat /\ count < Field /\ Field \in Nat /\ v # Unused
        /\ glob \in [Slots -> Word]
    BY <1>2, ConstantsAssumption DEF TypeOK
  <2>3. \A x \in Slots : (glob[x] = Unused <=> x > count)
    BY DEF GlobalsDistinct
  <2>4. count + 1 \in Slots /\ \A x \in Slots : x <= count => x \in ScannedSlots
    BY <2>2 DEF Slots, ScannedSlots
  <2>5. \A x \in Slots : glob'[x] = IF x = count + 1 THEN v ELSE glob[x]
    BY <2>1, <2>2, <2>4
  <2>6. \A x \in Slots : glob[x] # Unused => glob'[x] = glob[x]
    BY <2>2, <2>3, <2>5 DEF Slots
  <2>7. \A x \in Slots : (glob'[x] = Unused <=> x > count')
    BY <2>1, <2>2, <2>3, <2>5 DEF Slots
  <2>8. ASSUME NEW x \in 1 .. count', NEW y \in 1 .. count', glob'[x] = glob'[y], x # y
        PROVE  FALSE
    <3>1. x \in Slots /\ y \in Slots /\ x <= count + 1 /\ y <= count + 1
      BY <2>1, <2>2 DEF Slots
    <3>2. \A z \in Slots : z <= count => glob[z] # v
      BY <2>1, <2>4 DEF IsGlobal
    <3>3. CASE x = count + 1 \/ y = count + 1
      BY <2>2, <2>5, <2>8, <3>1, <3>2, <3>3 DEF Slots
    <3>4. CASE x # count + 1 /\ y # count + 1
      <4>1. x \in 1 .. count /\ y \in 1 .. count
        BY <2>1, <2>2, <3>4
      <4> QED
        BY <2>5, <2>8, <3>1, <3>4, <4>1 DEF GlobalsDistinct
    <3> QED
      BY <3>3, <3>4
  <2> QED
    BY <2>6, <2>7, <2>8 DEF GlobalsDistinct
<1>3. CASE LoadNewGlobal /\ count >= Field
  BY <1>1, <1>3 DEF LoadNewGlobal
<1> QED
  BY <1>1, <1>2, <1>3 DEF Next, AddLiteral, LoadKnownGlobal, LoadLocal, AddOther, Begin,
     TranslateLiterals, Emit, vars

LEMMA InitDistinct == Init => GlobalsDistinct
BY ConstantsAssumption DEF Init, GlobalsDistinct, Slots

\* The pool runs out only when Field different constants are in use.
THEOREM GlobalsAreDistinct == Spec => []GlobalsDistinct
<1>1. Init => TypeOK /\ GlobalsDistinct
  BY InitType, InitDistinct
<1>2. TypeOK /\ GlobalsDistinct /\ [Next]_vars => (TypeOK /\ GlobalsDistinct)'
  BY TypeCorrectStep, GlobalsDistinctStep
<1> QED
  BY <1>1, <1>2, PTL DEF Spec

\* A slot that code was emitted for keeps its literal for ever.
THEOREM GlobalsAreKept == Spec => GlobalsKept
<1>1. TypeOK /\ GlobalsDistinct /\ [Next]_vars
      => [\A x \in Slots : glob[x] # Unused => glob'[x] = glob[x]]_vars
  BY GlobalsDistinctStep
<1> QED
  BY <1>1, LiteralsTypeCorrect, GlobalsAreDistinct, PTL DEF Spec, GlobalsKept

-----------------------------------------------------------------------------
(* Loads from the global slots.  An instruction of a segment, or one emitted, *)
(* is sound when a global load names the slot g keeps its value in; the       *)
(* direction is right once Translate_Literals has run.                        *)

InSlot(i, g) == i.off \in Slots /\ i.value # Unused /\ g[i.off] = i.value

Sound(g, pass) == {i \in Ins : i.k = "load" /\ i.how = "global" =>
                      /\ i.base = "FP" /\ InSlot(i, g)
                      /\ (pass = "emit" => ~i.up)}

Emitted(g) == {i \in Ins : i.k = "load" /\ i.how = "global" =>
                      ~i.up /\ InSlot(i, g) /\ i.imm = i.off % Field}

LoadsSound == seg.code \in Seq(Sound(glob, seg.pass)) /\ out \in Seq(Emitted(glob))

Keeps(g, h) == \A x \in Slots : g[x] # Unused => h[x] = g[x]

LEMMA SoundKept ==
    ASSUME NEW g, NEW h, Keeps(g, h)
    PROVE  /\ \A s, pass : s \in Seq(Sound(g, pass)) => s \in Seq(Sound(h, pass))
           /\ \A s : s \in Seq(Emitted(g)) => s \in Seq(Emitted(h))
<1>1. \A i \in Ins : InSlot(i, g) => InSlot(i, h)
  BY DEF Keeps, InSlot
<1>2. ASSUME NEW s, NEW pass, s \in Seq(Sound(g, pass)) PROVE s \in Seq(Sound(h, pass))
  <2>1. \A i \in DOMAIN s : s[i] \in Sound(g, pass)
    BY <1>2, LenProperties, ElementOfSeq
  <2>2. \A i \in DOMAIN s : s[i] \in Sound(h, pass)
    BY <1>1, <2>1 DEF Sound
  <2> QED
    BY <1>2, <2>2, SeqIn
<1>3. ASSUME NEW s, s \in Seq(Emitted(g)) PROVE s \in Seq(Emitted(h))
  <2>1. \A i \in DOMAIN s : s[i] \in Emitted(g)
    BY <1>3, LenProperties, ElementOfSeq
  <2>2. \A i \in DOMAIN s : s[i] \in Emitted(h)
    BY <1>1, <2>1 DEF Emitted
  <2> QED
    BY <1>3, <2>2, SeqIn
<1> QED
  BY <1>2, <1>3

LEMMA InsertedSound ==
    ASSUME NEW g, NEW p \in Positions, seg.code \in Seq(Sound(g, "build")),
           NEW i \in Sound(g, "build"), NEW lits, NEW s,
           s = [seg EXCEPT !.lits = lits, !.code = InsertAt(@, p, i)],
           seg \in [pass : {"none", "build", "emit"}, type : SegTypes,
                    lits : Seq(Values), code : Seq(Ins)]
    PROVE  s.code \in Seq(Sound(g, "build")) /\ s.pass = seg.pass
<1>1. s.code = InsertAt(seg.code, p, i) /\ s.pass = seg.pass
  OBVIOUS
<1> QED
  BY <1>1, InsertAtType DEF Positions

LEMMA GlobalLoadSound ==
    ASSUME NEW g, NEW off \in Int, NEW v \in Values,
           (IF off < 0 THEN -off ELSE off) \in Slots,
           g[IF off < 0 THEN -off ELSE off] = v
    PROVE  Load("FP", off, v, "global") \in Sound(g, "build")
<1>1. Load("FP", off, v, "global") \in Ins
  BY LoadType
<1> DEFINE x == IF off < 0 THEN -off ELSE off
<1>2. x \in Slots /\ g[x] = v /\ v # Unused
  BY ConstantsAssumption
<1>3. /\ Load("FP", off, v, "global").off = x
      /\ Load("FP", off, v, "global").value = v
      /\ Load("FP", off, v, "global").base = "FP"
  BY DEF Load
<1> HIDE DEF x
<1> QED
  BY <1>1, <1>2, <1>3 DEF Sound, InSlot

LEMMA OtherSound ==
    ASSUME NEW g, NEW pass
    PROVE  /\ Op \in Sound(g, pass)
           /\ \A v \in Values : Literal(v) \in Emitted(g)
           /\ \A off \in Int, v \in Values, how \in {"new", "reused"} :
                  Load("PC", off, v, how) \in Sound(g, pass)
<1>1. Op \in Sound(g, pass)
  BY OpType DEF Sound, Op
<1>2. ASSUME NEW v \in Values PROVE Literal(v) \in Emitted(g)
  <2>1. Literal(v).k = "literal"
    BY DEF Literal, Op
  <2> QED
    BY <2>1, OpType DEF Emitted
<1>3. ASSUME NEW off \in Int, NEW v \in Values, NEW how \in {"new", "reused"}
      PROVE  Load("PC", off, v, how) \in Sound(g, pass)
  <2>1. Load("PC", off, v, how).how = how
    BY DEF Load
  <2> QED
    BY <2>1, LoadType DEF Sound
<1> QED
  BY <1>1, <1>2, <1>3

\* Translate_Literals turns the direction of every load from a global slot.
LEMMA CorrectedSound ==
    ASSUME NEW g, NEW i \in Sound(g, "build"), NEW x \in Int,
           Len(seg.lits) \in Int, Len(seg.code) \in Int
    PROVE  Corrected(i, x) \in Sound(g, "emit")
<1>1. i \in Ins /\ Corrected(i, x) \in Ins
  BY CorrectedType DEF Sound
<1>2. CASE i.k = "load" /\ i.how = "global"
  <2>1. i.base = "FP" /\ InSlot(i, g)
    BY <1>2 DEF Sound
  <2>2. Corrected(i, x) = [i EXCEPT !.up = FALSE]
    BY <1>2, <2>1, Zenon DEF Corrected
  <2>3. /\ Corrected(i, x).off = i.off /\ Corrected(i, x).value = i.value
        /\ Corrected(i, x).base = "FP" /\ Corrected(i, x).up = FALSE
    BY <1>1, <2>1, <2>2 DEF Ins
  <2> QED
    BY <1>1, <2>1, <2>3 DEF Sound, InSlot
<1>3. CASE ~(i.k = "load" /\ i.how = "global")
  <2> DEFINE back == i.off - (x - 1) - Len(seg.lits) - 2
             behind == Len(seg.code) - (x - 1) + i.off - 2
  <2>1. Corrected(i, x) \in {i, [i EXCEPT !.up = FALSE], [i EXCEPT !.up = FALSE, !.off = -back],
                             [i EXCEPT !.off = back], [i EXCEPT !.off = behind]}
    BY Zenon DEF Corrected
  <2> HIDE DEF back, behind
  <2>2. Corrected(i, x).k = i.k /\ Corrected(i, x).how = i.how
    BY <1>1, <2>1 DEF Ins
  <2> QED
    BY <1>1, <1>3, <2>2 DEF Sound
<1> QED
  BY <1>2, <1>3

LEMMA EncodedSound ==
    ASSUME NEW g, NEW i \in Sound(g, "emit")
    PROVE  Encode(i) \in Emitted(g)
<1>1. i \in Ins /\ Encode(i) \in Ins
  BY EncodeType DEF Sound
<1> DEFINE low == i.off % Field
<1>2. Encode(i) = [i EXCEPT !.imm = low]
  BY DEF Encode
<1> HIDE DEF low
<1>3. /\ Encode(i).k = i.k /\ Encode(i).how = i.how /\ Encode(i).up = i.up
      /\ Encode(i).off = i.off /\ Encode(i).value = i.value /\ Encode(i).imm = low
  BY <1>1, <1>2 DEF Ins
<1>4. CASE i.k = "load" /\ i.how = "global"
  <2>1. ~i.up /\ InSlot(i, g)
    BY <1>4 DEF Sound
  <2> QED
    BY <1>1, <1>3, <2>1 DEF Emitted, InSlot, low
<1>5. CASE ~(i.k = "load" /\ i.how = "global")
  BY <1>1, <1>3, <1>5 DEF Emitted
<1> QED
  BY <1>4, <1>5

LEMMA LoadsSoundStep ==
    ASSUME TypeOK, GlobalsDistinct, LoadsSound, [Next]_vars
    PROVE  LoadsSound'
<1> DEFINE SegRec == [pass : {"none", "build", "emit"}, type : SegTypes,
                      lits : Seq(Values), code : Seq(Ins)]
<1>1. /\ glob \in [Slots -> Word] /\ count \in 0 .. Field /\ seg \in SegRec
      /\ Field \in Nat /\ Len(seg.code) \in Nat /\ Len(seg.lits) \in Nat
      /\ seg.lits \in Seq(Values)
  BY LenProperties, ConstantsAssumption DEF TypeOK
<1>2. seg.code \in Seq(Sound(glob, seg.pass)) /\ out \in Seq(Emitted(glob))
  BY DEF LoadsSound
<1>3. Keeps(glob, glob')
  BY GlobalsDistinctStep DEF Keeps
<1>4. /\ \A s, pass : s \in Seq(Sound(glob, pass)) => s \in Seq(Sound(glob', pass))
      /\ \A s : s \in Seq(Emitted(glob)) => s \in Seq(Emitted(glob'))
  BY <1>3, SoundKept
<1>5. out \in Seq(Emitted(glob')) /\ seg.code \in Seq(Sound(glob', seg.pass))
  BY <1>2, <1>4
\* What the four actions that insert an instruction have in common.
<1>6. ASSUME NEW p \in Positions, NEW i \in Sound(glob', "build"), NEW lits,
             seg.pass = "build", out' = out,
             seg' = [seg EXCEPT !.lits = lits, !.code = InsertAt(@, p, i)]
      PROVE  LoadsSound'
  <2>1. seg'.code \in Seq(Sound(glob', "build")) /\ seg'.pass = "build"
    BY <1>1, <1>5, <1>6, InsertedSound
  <2> QED
    BY <1>5, <1>6, <2>1 DEF LoadsSound
<1>7. ASSUME NEW p \in Positions, NEW i \in Sound(glob', "build"),
             seg.pass = "build", out' = out,
             seg' = [seg EXCEPT !.code = InsertAt(@, p, i)]
      PROVE  LoadsSound'
  <2>1. seg' = [seg EXCEPT !.lits = seg.lits, !.code = InsertAt(@, p, i)]
    BY <1>1, <1>7
  <2> QED
    BY <1>6, <1>7, <2>1
<1>8. CASE UNCHANGED <<seg, out>>
  BY <1>5, <1>8 DEF LoadsSound
<1>9. CASE LoadKnownGlobal
  <2>1. PICK v \in Values, p \in Positions :
           /\ IsGlobal(v)
           /\ seg' = [seg EXCEPT !.code = InsertAt(@, p, Load("FP", FirstGlobal(v), v, "global"))]
    BY <1>9 DEF LoadKnownGlobal
  <2>2. seg.pass = "build" /\ out' = out /\ glob' = glob
    BY <1>9 DEF LoadKnownGlobal, Building
  <2>3. FirstGlobal(v) \in 1 .. Field - 1 /\ glob[FirstGlobal(v)] = v
    BY <2>1, FirstGlobalFound DEF ScannedSlots
  <2> DEFINE x == FirstGlobal(v)
  <2> HIDE DEF x
  <2>4. x \in Int /\ ~(x < 0) /\ x \in Slots /\ glob'[x] = v
    BY <1>1, <2>2, <2>3 DEF Slots, x
  <2>5. Load("FP", x, v, "global") \in Sound(glob', "build")
    BY <2>4, GlobalLoadSound
  <2> QED
    BY <1>7, <2>1, <2>2, <2>5 DEF x
<1>10. CASE LoadNewGlobal
  <2>1. PICK v \in Values, p \in Positions :
           \/ UNCHANGED seg
           \/ /\ count < Field
              /\ glob' = [glob EXCEPT ![count + 1] = v]
              /\ seg'  = [seg EXCEPT !.code =
                             InsertAt(@, p, Load("FP", -(count + 1), v, "global"))]
    BY <1>1, <1>10 DEF LoadNewGlobal
  <2>2. seg.pass = "build" /\ out' = out
    BY <1>10 DEF LoadNewGlobal, Building
  <2>3. CASE UNCHANGED seg
    BY <1>8, <2>2, <2>3
  <2>4. CASE ~UNCHANGED seg
    <3> DEFINE x == -(count + 1)
    <3>1. x \in Int /\ x < 0 /\ -x = count + 1 /\ count + 1 \in Slots
      BY <1>1, <2>1, <2>4 DEF Slots
    <3>2. glob'[count + 1] = v
      BY <1>1, <2>1, <2>4, <3>1
    <3>3. seg' = [seg EXCEPT !.code = InsertAt(@, p, Load("FP", x, v, "global"))]
      BY <2>1, <2>4
    <3> HIDE DEF x
    <3>4. Load("FP", x, v, "global") \in Sound(glob', "build")
      BY <3>1, <3>2, GlobalLoadSound
    <3> QED
      BY <1>7, <2>2, <3>3, <3>4
  <2> QED
    BY <2>3, <2>4
<1>11. CASE LoadLocal
  <2>1. PICK v \in Values, p \in Positions :
           seg' = [seg EXCEPT
                    !.lits = IF v \in ToSet(seg.lits) THEN @ ELSE Append(@, v),
                    !.code = InsertAt(@, p, Load("PC", WalkedTo(seg.lits, v), v,
                                       IF v \in ToSet(seg.lits) THEN "reused" ELSE "new"))]
    BY <1>11 DEF LoadLocal
  <2>2. seg.pass = "build" /\ out' = out
    BY <1>11 DEF LoadLocal, Building
  <2> DEFINE how == IF v \in ToSet(seg.lits) THEN "reused" ELSE "new"
             off == WalkedTo(seg.lits, v)
             l   == IF v \in ToSet(seg.lits) THEN seg.lits ELSE Append(seg.lits, v)
  <2>3. seg' = [seg EXCEPT !.lits = l, !.code = InsertAt(@, p, Load("PC", off, v, how))]
    BY <2>1
  <2>4. off \in Int /\ how \in {"new", "reused"}
    BY <1>1, WalkedToType
  <2> HIDE DEF how, off, l
  <2>5. Load("PC", off, v, how) \in Sound(glob', "build")
    BY <2>4, OtherSound
  <2> QED
    BY <1>6, <2>2, <2>3, <2>5
<1>12. CASE AddOther
  <2>1. PICK p \in Positions : seg' = [seg EXCEPT !.code = InsertAt(@, p, Op)]
    BY <1>12 DEF AddOther
  <2>2. seg.pass = "build" /\ out' = out /\ Op \in Sound(glob', "build")
    BY <1>12, OtherSound DEF AddOther, Building
  <2> QED
    BY <1>7, <2>1, <2>2
<1>13. CASE Begin
  <2>1. seg'.code = <<Op>> /\ out' = out
    BY <1>13 DEF Begin
  <2>2. <<Op>> \in Seq(Sound(glob', seg'.pass))
    BY OtherSound
  <2> QED
    BY <1>5, <2>1, <2>2 DEF LoadsSound
<1>14. CASE TranslateLiterals
  <2> DEFINE t == [x \in DOMAIN seg.code |-> Corrected(seg.code[x], x)]
  <2>1. seg.pass = "build" /\ out' = out /\ seg.code \in Seq(Sound(glob', "build"))
    BY <1>5, <1>14 DEF TranslateLiterals
  <2>2. \A x \in DOMAIN seg.code : seg.code[x] \in Sound(glob', "build") /\ x \in Int
    BY <2>1, ElementOfSeq, LenProperties
  <2>3. \A x \in DOMAIN seg.code : t[x] \in Sound(glob', "emit")
    BY <1>1, <2>2, CorrectedSound
  <2>4. t = [x \in DOMAIN seg.code |-> t[x]]
    OBVIOUS
  <2>5. seg' = [seg EXCEPT !.pass = "emit", !.code = t]
    BY <1>14 DEF TranslateLiterals
  <2> HIDE DEF t
  <2>6. t \in Seq(Sound(glob', "emit"))
    BY <2>1, <2>3, <2>4, SeqMapped
  <2>7. seg'.pass = "emit" /\ seg'.code = t
    BY <1>1, <2>5
  <2> QED
    BY <1>5, <2>1, <2>6, <2>7 DEF LoadsSound
<1>15. CASE Emit
  <2> DEFINE lits == [i \in DOMAIN seg.lits |-> Literal(seg.lits[i])]
             code == [i \in DOMAIN seg.code |-> Encode(seg.code[i])]
  <2>1. seg.code \in Seq(Sound(glob', "emit"))
    BY <1>5, <1>15 DEF Emit
  <2>2. ASSUME NEW i \in DOMAIN seg.lits PROVE lits[i] \in Emitted(glob')
    <3>1. seg.lits[i] \in Values
      BY <1>1, ElementOfSeq, LenProperties
    <3> QED
      BY <3>1, OtherSound
  <2>3. \A i \in DOMAIN seg.code : code[i] \in Emitted(glob')
    BY <2>1, EncodedSound, ElementOfSeq
  <2>4. /\ lits = [i \in DOMAIN seg.lits |-> lits[i]]
        /\ code = [i \in DOMAIN seg.code |-> code[i]]
    OBVIOUS
  <2>5. out' = out \o lits \o code \/ out' = out \o code \o lits
    BY <1>15 DEF Emit
  <2>6. seg'.code = <<>>
    BY <1>15 DEF Emit, NoSegment
  <2> HIDE DEF lits, code
  <2>7. lits \in Seq(Emitted(glob'))
    BY <1>1, <2>2, <2>4, SeqMapped
  <2>8. code \in Seq(Emitted(glob'))
    BY <2>1, <2>3, <2>4, SeqMapped
  <2>9. out \o lits \in Seq(Emitted(glob')) /\ out \o code \in Seq(Emitted(glob'))
    BY <1>5, <2>7, <2>8, ConcatProperties
  <2>10. /\ out \o lits \o code \in Seq(Emitted(glob'))
         /\ out \o code \o lits \in Seq(Emitted(glob'))
    BY <2>7, <2>8, <2>9, ConcatProperties
  <2>11. <<>> \in Seq(Sound(glob', seg'.pass))
    OBVIOUS
  <2> QED
    BY <2>5, <2>6, <2>10, <2>11 DEF LoadsSound
<1> QED
  BY <1>8, <1>9, <1>10, <1>11, <1>12, <1>13, <1>14, <1>15 DEF Next, AddLiteral, vars

LEMMA LoadsSoundFetch == LoadsSound => GlobalsFetch
<1> SUFFICES ASSUME out \in Seq(Emitted(glob)),
                    NEW p \in Loads("global"), out[p].off < Field
             PROVE  FetchesGlobal(p)
  BY DEF GlobalsFetch, LoadsSound
<1>1. p \in DOMAIN out /\ out[p].k = "load" /\ out[p].how = "global"
  BY DEF Loads
<1>2. out[p] \in Emitted(glob)
  BY <1>1, ElementOfSeq, LenProperties
<1> DEFINE i == out[p]
<1>3. /\ ~i.up /\ i.off \in 1 .. Field /\ i.off < Field /\ glob[i.off] = i.value
      /\ i.imm = i.off % Field
  BY <1>1, <1>2 DEF Emitted, InSlot, Slots
<1> HIDE DEF i
<1>4. i.off % Field = i.off
  BY <1>3, ConstantsAssumption
<1> QED
  BY <1>3, <1>4 DEF FetchesGlobal, Slots, i

\* Every emitted load from a global slot reads the value it was made for.
THEOREM GlobalsAreFetched == Spec => []GlobalsFetch
<1>1. Init => LoadsSound
  <2>1. <<>> \in Seq(Sound(glob, "none")) /\ <<>> \in Seq(Emitted(glob))
    OBVIOUS
  <2> QED
    BY <2>1 DEF Init, NoSegment, LoadsSound
<1>2. TypeOK /\ GlobalsDistinct /\ LoadsSound /\ [Next]_vars => LoadsSound'
  BY LoadsSoundStep
<1>3. LoadsSound => GlobalsFetch
  BY LoadsSoundFetch
<1> QED
  BY <1>1, <1>2, <1>3, LiteralsTypeCorrect, GlobalsAreDistinct, PTL DEF Spec

-----------------------------------------------------------------------------
(* Loads of the literals of a segment.  While the segment is built, the load  *)
(* of a new literal holds its index in the list and is not the last           *)
(* instruction; Translate_Literals turns the index into the distance.         *)

NewLoad(i) == i.k = "load" /\ i.how = "new"

Placed(lits, code) ==
    \A x \in DOMAIN code : NewLoad(code[x]) =>
        /\ x < Len(code) /\ code[x].base = "PC" /\ code[x].up
        /\ code[x].off \in 0 .. Len(lits) - 1 /\ lits[code[x].off + 1] = code[x].value

\* The instruction i, number x of n, loads the literal o words into l literals.
AimsAt(i, x, type, n, l, o) ==
    IF type = "START" THEN ~i.up /\ i.off = x + l + 1 - o
    ELSE i.up /\ x < n /\ i.off = n - x - 1 + o

Aimed(type, lits, code) ==
    \A x \in DOMAIN code : NewLoad(code[x]) =>
        \E o \in 0 .. Len(lits) - 1 :
            lits[o + 1] = code[x].value /\ AimsAt(code[x], x, type, Len(code), Len(lits), o)

\* The whole distance leads from the load i at p of q to its literal.
Reaches(i, p, q) ==
    LET a == IF i.up THEN p + 2 + i.off ELSE p + 2 - i.off
    IN  /\ i.off >= 0 /\ i.imm = i.off % Field
        /\ a \in DOMAIN q /\ q[a].k = "literal" /\ q[a].value = i.value

AllReach(q) == \A p \in DOMAIN q : NewLoad(q[p]) => Reaches(q[p], p, q)

LocalsSound ==
    /\ seg.pass = "build" => Placed(seg.lits, seg.code)
    /\ seg.pass = "emit" => Aimed(seg.type, seg.lits, seg.code)
    /\ AllReach(out)

\* InsertAt moves what stands behind the new element.
LEMMA InsertAtElements ==
    ASSUME NEW S, NEW s \in Seq(S), NEW p \in DOMAIN s, NEW e \in S
    PROVE  LET t == InsertAt(s, p, e)
           IN  /\ Len(s) \in Nat /\ DOMAIN s = 1 .. Len(s) /\ Len(t) = Len(s) + 1 /\ DOMAIN t = 1 .. Len(s) + 1
               /\ \A j \in 1 .. p - 1 : t[j] = s[j]
               /\ t[p] = e
               /\ \A j \in p + 1 .. Len(s) + 1 : t[j] = s[j - 1]
<1> DEFINE n == Len(s)
           a == SubSeq(s, 1, p - 1)
           b == SubSeq(s, p, n)
           c == a \o <<e>>
<1>1. n \in Nat /\ DOMAIN s = 1 .. n /\ p \in Int /\ 1 <= p /\ p <= n
  BY LenProperties
<1>2. \A j \in 1 .. n : s[j] \in S
  BY ElementOfSeq
<1>3. a \in Seq(S) /\ Len(a) = p - 1 /\ \A j \in 1 .. p - 1 : a[j] = s[j]
  <2>1. \A j \in 1 .. p - 1 : s[j] \in S
    BY <1>1, <1>2
  <2>2. /\ a \in Seq(S) /\ Len(a) = (IF 1 <= p - 1 THEN p - 1 - 1 + 1 ELSE 0)
        /\ \A j \in 1 .. p - 1 - 1 + 1 : a[j] = s[1 + j - 1]
    BY <1>1, <2>1, SubSeqProperties
  <2>3. (IF 1 <= p - 1 THEN p - 1 - 1 + 1 ELSE 0) = p - 1 /\ p - 1 - 1 + 1 = p - 1
    BY <1>1
  <2>4. \A j \in 1 .. p - 1 : 1 + j - 1 = j
    BY <1>1
  <2> QED
    BY <2>2, <2>3, <2>4
<1>4. b \in Seq(S) /\ Len(b) = n - p + 1 /\ \A j \in 1 .. n - p + 1 : b[j] = s[p + j - 1]
  <2>1. \A j \in p .. n : s[j] \in S
    BY <1>1, <1>2
  <2> QED
    BY <1>1, <2>1, SubSeqProperties
<1>5. /\ c \in Seq(S) /\ Len(c) = p /\ c[p] = e
      /\ \A j \in 1 .. p - 1 : c[j] = s[j]
  <2>1. <<e>> \in Seq(S) /\ Len(<<e>>) = 1 /\ <<e>>[1] = e
    OBVIOUS
  <2> HIDE DEF a
  <2>2. /\ c \in Seq(S) /\ Len(c) = Len(a) + Len(<<e>>)
        /\ \A i \in 1 .. Len(a) + Len(<<e>>) : c[i] = IF i <= Len(a) THEN a[i] ELSE <<e>>[i - Len(a)]
    BY <1>3, <2>1, ConcatProperties
  <2> HIDE DEF c
  <2>3. Len(c) = p /\ \A i \in 1 .. p : c[i] = IF i <= p - 1 THEN a[i] ELSE <<e>>[i - (p - 1)]
    <3>1. Len(a) + Len(<<e>>) = p
      BY <1>1, <1>3, <2>1
    <3> QED
      BY <1>3, <2>2, <3>1
  <2>4. p - (p - 1) = 1 /\ ~(p <= p - 1) /\ p \in 1 .. p
    BY <1>1
  <2>5. \A j \in 1 .. p - 1 : j \in 1 .. p /\ j <= p - 1
    BY <1>1
  <2> QED
    BY <1>3, <2>1, <2>2, <2>3, <2>4, <2>5
<1> HIDE DEF a, b, c
<1>6. /\ Len(c \o b) = n + 1 /\ c \o b \in Seq(S)
      /\ \A i \in 1 .. n + 1 : (c \o b)[i] = IF i <= p THEN c[i] ELSE b[i - p]
  <2>1. /\ Len(c \o b) = Len(c) + Len(b) /\ c \o b \in Seq(S)
        /\ \A i \in 1 .. Len(c) + Len(b) : (c \o b)[i] = IF i <= Len(c) THEN c[i] ELSE b[i - Len(c)]
    BY <1>4, <1>5, ConcatProperties
  <2>2. Len(c) + Len(b) = n + 1
    BY <1>1, <1>4, <1>5
  <2> QED
    BY <1>5, <2>1, <2>2
<1>7. InsertAt(s, p, e) = c \o b
  BY DEF InsertAt, a, b, c
<1> DEFINE t == c \o b
<1>8. DOMAIN t = 1 .. n + 1
  BY <1>6, LenProperties
<1>9. \A j \in 1 .. p - 1 : t[j] = s[j]
  <2>1. \A j \in 1 .. p - 1 : j \in 1 .. n + 1 /\ j <= p
    BY <1>1
  <2> QED
    BY <1>5, <1>6, <2>1
<1>10. t[p] = e
  BY <1>1, <1>5, <1>6
<1>11. ASSUME NEW j \in p + 1 .. n + 1 PROVE t[j] = s[j - 1]
  <2>1. /\ j \in 1 .. n + 1 /\ ~(j <= p) /\ j - p \in 1 .. n - p + 1 /\ p + (j - p) - 1 = j - 1
    BY <1>1
  <2> QED
    BY <1>4, <1>6, <2>1
<1> HIDE DEF t
<1> QED
  BY <1>1, <1>6, <1>7, <1>8, <1>9, <1>10, <1>11 DEF t

\* The list of literals only grows.
Extends(lits, l) == /\ Len(lits) \in Nat /\ Len(l) \in Nat /\ Len(lits) <= Len(l)
                    /\ \A j \in 1 .. Len(lits) : l[j] = lits[j]

InPlace(i, l) ==
    NewLoad(i) => /\ i.base = "PC" /\ i.up /\ i.off \in 0 .. Len(l) - 1 /\ l[i.off + 1] = i.value

LEMMA InsertPlaced ==
    ASSUME NEW code \in Seq(Ins), NEW p \in DOMAIN code, NEW i \in Ins, NEW lits, NEW l,
           Placed(lits, code), Extends(lits, l), InPlace(i, l)
    PROVE  Placed(l, InsertAt(code, p, i))
<1> DEFINE t == InsertAt(code, p, i)
           n == Len(code)
<1>1. /\ n \in Nat /\ DOMAIN code = 1 .. n /\ Len(t) = n + 1 /\ DOMAIN t = 1 .. n + 1
      /\ \A j \in 1 .. p - 1 : t[j] = code[j]
      /\ t[p] = i
      /\ \A j \in p + 1 .. n + 1 : t[j] = code[j - 1]
  BY InsertAtElements
<1>2. \A j \in DOMAIN code : InPlace(code[j], l) /\ (NewLoad(code[j]) => j < n)
  <2> SUFFICES ASSUME NEW j \in DOMAIN code, NewLoad(code[j]) PROVE InPlace(code[j], l) /\ j < n
    BY DEF InPlace
  <2>1. /\ j < n /\ code[j].base = "PC" /\ code[j].up
        /\ code[j].off \in 0 .. Len(lits) - 1 /\ lits[code[j].off + 1] = code[j].value
    BY DEF Placed
  <2> DEFINE o == code[j].off
  <2> HIDE DEF o
  <2>2. o \in 0 .. Len(lits) - 1 /\ lits[o + 1] = code[j].value
    BY <2>1 DEF o
  <2>3. o \in 0 .. Len(l) - 1 /\ o + 1 \in 1 .. Len(lits)
    BY <2>2 DEF Extends
  <2>4. l[o + 1] = lits[o + 1]
    BY <2>3 DEF Extends
  <2> QED
    BY <2>1, <2>2, <2>3, <2>4 DEF InPlace, o
<1> HIDE DEF t, n
<1>3. ASSUME NEW x \in 1 .. n + 1, NewLoad(t[x]) PROVE x < n + 1 /\ InPlace(t[x], l)
  <2>1. p \in 1 .. n
    BY <1>1
  <2>2. CASE x \in 1 .. p - 1
    <3>1. x \in DOMAIN code /\ t[x] = code[x] /\ x < n + 1
      BY <1>1, <2>1, <2>2
    <3> QED
      BY <1>2, <3>1
  <2>3. CASE x = p
    BY <1>1, <2>1, <2>3
  <2>4. CASE x \in p + 1 .. n + 1
    <3>1. x - 1 \in DOMAIN code /\ t[x] = code[x - 1]
      BY <1>1, <2>1, <2>4
    <3>2. x - 1 < n
      BY <1>2, <1>3, <3>1
    <3>3. x < n + 1
      BY <1>1, <3>2
    <3> QED
      BY <1>2, <3>1, <3>3
  <2>5. x \in 1 .. p - 1 \/ x = p \/ x \in p + 1 .. n + 1
    BY <1>1, <2>1
  <2> QED
    BY <2>2, <2>3, <2>4, <2>5
<1> QED
  BY <1>1, <1>3 DEF Placed, InPlace, t

\* Translate_Literals: the PC reads two words ahead, the literals stand in
\* front of the code or behind it.
LEMMA CorrectedAims ==
    ASSUME NEW i \in Ins, NEW x \in 1 .. Len(seg.code), InPlace(i, seg.lits), NewLoad(i), x < Len(seg.code),
           Len(seg.lits) \in Nat, Len(seg.code) \in Nat
    PROVE  LET c == Corrected(i, x)
           IN  /\ c.value = i.value /\ i.off \in 0 .. Len(seg.lits) - 1
               /\ AimsAt(c, x, seg.type, Len(seg.code), Len(seg.lits), i.off)
<1> DEFINE l == Len(seg.lits)
           n == Len(seg.code)
           o == i.off
           back == o - (x - 1) - l - 2
           behind == n - (x - 1) + o - 2
<1>1. /\ i.k = "load" /\ i.base = "PC" /\ i.up /\ o \in 0 .. l - 1 /\ l \in Nat /\ n \in Nat
  BY DEF InPlace, NewLoad
<1>2. CASE seg.type = "START"
  <2>1. back < 0 /\ back \in Int /\ -back \in Int /\ -back = x + l + 1 - o
    <3> HIDE DEF l, o, n
    <3> QED BY <1>1 DEF n
  <2>2. Corrected(i, x) = [i EXCEPT !.up = FALSE, !.off = -back]
    <3>1. i.base # "FP"
      BY <1>1
    <3> QED
      BY <1>1, <1>2, <2>1, <3>1, Zenon DEF Corrected
  <2> HIDE DEF back
  <2>3. /\ Corrected(i, x).value = i.value /\ Corrected(i, x).up = FALSE /\ Corrected(i, x).off = -back
    BY <2>2 DEF Ins
  <2> QED
    BY <1>1, <1>2, <2>1, <2>3 DEF AimsAt
<1>3. CASE seg.type # "START"
  <2>1. Corrected(i, x) = [i EXCEPT !.off = n - (x - 1) + @ - 2]
    <3>1. i.base # "FP"
      BY <1>1
    <3> QED
      BY <1>1, <1>3, <3>1, Zenon DEF Corrected
  <2>2. /\ Corrected(i, x).value = i.value /\ Corrected(i, x).up /\ Corrected(i, x).off = behind
    BY <1>1, <2>1 DEF Ins
  <2>3. behind = n - x - 1 + o
    <3> HIDE DEF l, o, n
    <3> QED BY <1>1 DEF n
  <2> QED
    BY <1>1, <1>3, <2>2, <2>3 DEF AimsAt
<1> QED
  BY <1>2, <1>3

LEMMA SameLength == ASSUME NEW m \in Nat, NEW n \in Nat, 1 .. m = 1 .. n PROVE m = n
<1>1. CASE m < n
  <2>1. n \in 1 .. n /\ n \notin 1 .. m
    BY <1>1
  <2> QED
    BY <2>1
<1>2. CASE n < m
  <2>1. m \in 1 .. m /\ m \notin 1 .. n
    BY <1>2
  <2> QED
    BY <2>1
<1> QED
  BY <1>1, <1>2

LEMMA ThreeParts ==
    ASSUME NEW S, NEW a \in Seq(S), NEW b \in Seq(S), NEW c \in Seq(S)
    PROVE  LET q == a \o b \o c
           IN  /\ Len(a) \in Nat /\ Len(b) \in Nat /\ Len(c) \in Nat
               /\ DOMAIN q = 1 .. Len(a) + Len(b) + Len(c) /\ DOMAIN a = 1 .. Len(a)
               /\ \A j \in 1 .. Len(a) : q[j] = a[j]
               /\ \A j \in 1 .. Len(b) : q[Len(a) + j] = b[j]
               /\ \A j \in 1 .. Len(c) : q[Len(a) + Len(b) + j] = c[j]
<1> DEFINE n == Len(a)
           l == Len(b)
           k == Len(c)
           ab == a \o b
           q == ab \o c
<1>1. n \in Nat /\ l \in Nat /\ k \in Nat /\ DOMAIN a = 1 .. n
  BY LenProperties
<1>2. /\ ab \in Seq(S) /\ Len(ab) = n + l
      /\ \A i \in 1 .. n + l : ab[i] = IF i <= n THEN a[i] ELSE b[i - n]
  BY ConcatProperties
<1> HIDE DEF ab
<1>3. /\ q \in Seq(S) /\ Len(q) = n + l + k
      /\ \A i \in 1 .. n + l + k : q[i] = IF i <= n + l THEN ab[i] ELSE c[i - (n + l)]
  <2>1. ab \in Seq(S)
    BY <1>2
  <2>2. /\ ab \o c \in Seq(S) /\ Len(ab \o c) = Len(ab) + Len(c)
        /\ \A i \in 1 .. Len(ab) + Len(c) : (ab \o c)[i] = IF i <= Len(ab) THEN ab[i] ELSE c[i - Len(ab)]
    BY <2>1, ConcatProperties
  <2> HIDE DEF n, l, q
  <2> QED
    BY <1>2, <2>2 DEF q
<1>4. DOMAIN q = 1 .. n + l + k
  BY <1>2, <1>3, LenProperties
<1> HIDE DEF q, n, l, k
<1>5. ASSUME NEW j \in 1 .. n PROVE q[j] = a[j]
  <2>1. j \in 1 .. n + l /\ j \in 1 .. n + l + k /\ j <= n /\ j <= n + l
    BY <1>1
  <2> QED
    BY <1>2, <1>3, <2>1
<1>6. ASSUME NEW j \in 1 .. l PROVE q[n + j] = b[j]
  <2>1. n + j \in 1 .. n + l /\ n + j \in 1 .. n + l + k /\ ~(n + j <= n) /\ n + j <= n + l /\ n + j - n = j
    BY <1>1
  <2>2. ab[n + j] = b[j]
    <3> DEFINE i == n + j
    <3>1. i \in 1 .. n + l /\ ~(i <= n) /\ i - n = j
      BY <1>1
    <3> HIDE DEF i
    <3>2. ab[i] = b[i - n]
      BY <1>2, <3>1
    <3> QED
      BY <3>1, <3>2 DEF i
  <2>3. q[n + j] = ab[n + j]
    BY <1>3, <2>1
  <2> QED
    BY <2>2, <2>3
<1>7. ASSUME NEW j \in 1 .. k PROVE q[n + l + j] = c[j]
  <2>1. n + l + j \in 1 .. n + l + k /\ ~(n + l + j <= n + l) /\ n + l + j - (n + l) = j
    BY <1>1
  <2> QED
    BY <1>2, <1>3, <2>1
<1> QED
  BY <1>1, <1>4, <1>5, <1>6, <1>7 DEF q, ab, n, l, k

\* What emit_arm_code writes behind it leaves a load where it was.
LEMMA StillReaches ==
    ASSUME NEW q, NEW w, NEW p \in DOMAIN q, AllReach(q), NewLoad(w[p]),
           DOMAIN q \subseteq DOMAIN w, \A j \in DOMAIN q : w[j] = q[j]
    PROVE  Reaches(w[p], p, w)
BY DEF AllReach, Reaches

\* The words of the segment as they are emitted.
EmittedLits == [j \in DOMAIN seg.lits |-> Literal(seg.lits[j])]
EmittedCode == [j \in DOMAIN seg.code |-> Encode(seg.code[j])]

LEMMA EmittedWords ==
    ASSUME seg.lits \in Seq(Values), seg.code \in Seq(Ins)
    PROVE  /\ EmittedLits \in Seq(Ins) /\ Len(EmittedLits) = Len(seg.lits)
           /\ EmittedCode \in Seq(Ins) /\ Len(EmittedCode) = Len(seg.code)
           /\ DOMAIN seg.code = 1 .. Len(seg.code)
           /\ \A j \in 1 .. Len(seg.lits) : EmittedLits[j].k = "literal" /\ EmittedLits[j].value = seg.lits[j]
           /\ \A j \in 1 .. Len(seg.code) :
                 LET e == EmittedCode[j]
                     i == seg.code[j]
                 IN  /\ e.k = i.k /\ e.how = i.how /\ e.up = i.up /\ e.off = i.off /\ e.value = i.value
                     /\ e.imm = i.off % Field /\ i.off \in Int
<1> DEFINE b == EmittedLits
           c == EmittedCode
<1>1. DOMAIN seg.lits = 1 .. Len(seg.lits) /\ DOMAIN seg.code = 1 .. Len(seg.code)
      /\ Len(seg.lits) \in Nat /\ Len(seg.code) \in Nat
  BY LenProperties
<1>2. \A j \in DOMAIN seg.lits : b[j] \in Ins /\ b[j].k = "literal" /\ b[j].value = seg.lits[j]
  <2> SUFFICES ASSUME NEW j \in DOMAIN seg.lits
               PROVE  b[j] \in Ins /\ b[j].k = "literal" /\ b[j].value = seg.lits[j]
    OBVIOUS
  <2>1. seg.lits[j] \in Values /\ b[j] = Literal(seg.lits[j])
    BY <1>1, ElementOfSeq DEF EmittedLits
  <2> QED
    BY <2>1, OpType DEF Literal, Op
<1>3. ASSUME NEW j \in DOMAIN seg.code
      PROVE  LET e == c[j]
                 i == seg.code[j]
             IN  /\ e \in Ins
                 /\ e.k = i.k /\ e.how = i.how /\ e.up = i.up /\ e.off = i.off /\ e.value = i.value
                 /\ e.imm = i.off % Field /\ i.off \in Int
  <2>1. seg.code[j] \in Ins /\ c[j] = Encode(seg.code[j])
    BY <1>1, ElementOfSeq DEF EmittedCode
  <2>2. c[j] \in Ins
    BY <2>1, EncodeType
  <2> QED
    BY <2>1, <2>2 DEF Encode, Ins
<1>4. b \in Seq(Ins) /\ c \in Seq(Ins)
  <2>1. b = [j \in DOMAIN seg.lits |-> b[j]] /\ c = [j \in DOMAIN seg.code |-> c[j]]
    BY DEF EmittedLits, EmittedCode
  <2>2. \A j \in DOMAIN seg.code : c[j] \in Ins
    BY <1>3
  <2> HIDE DEF b, c
  <2> QED
    BY <1>2, <2>1, <2>2, SeqMapped
<1>5. Len(b) = Len(seg.lits) /\ Len(c) = Len(seg.code)
  <2>1. DOMAIN b = 1 .. Len(seg.lits) /\ DOMAIN c = 1 .. Len(seg.code)
    BY <1>1 DEF EmittedLits, EmittedCode
  <2>2. Len(b) \in Nat /\ DOMAIN b = 1 .. Len(b) /\ Len(c) \in Nat /\ DOMAIN c = 1 .. Len(c)
    BY <1>4, LenProperties
  <2> HIDE DEF b, c
  <2> QED
    BY <1>1, <2>1, <2>2, SameLength
<1> QED
  BY <1>1, <1>2, <1>3, <1>4, <1>5

\* A load of a new literal reaches it once the segment is emitted.
LEMMA EmitReaches ==
    ASSUME TypeOK, Emit, Aimed(seg.type, seg.lits, seg.code), AllReach(out)
    PROVE  AllReach(out')
<1> DEFINE b == EmittedLits
           c == EmittedCode
           n == Len(out)
           l == Len(seg.lits)
           k == Len(seg.code)
           w == out'
<1>1. /\ out \in Seq(Ins) /\ seg.lits \in Seq(Values) /\ seg.code \in Seq(Ins)
      /\ n \in Nat /\ DOMAIN out = 1 .. n /\ l \in Nat /\ k \in Nat
  BY LenProperties DEF TypeOK
<1>2. /\ b \in Seq(Ins) /\ Len(b) = l /\ c \in Seq(Ins) /\ Len(c) = k /\ DOMAIN seg.code = 1 .. k
      /\ \A j \in 1 .. l : b[j].k = "literal" /\ b[j].value = seg.lits[j]
      /\ \A j \in 1 .. k :
            LET e == c[j]
                i == seg.code[j]
            IN  /\ e.k = i.k /\ e.how = i.how /\ e.up = i.up /\ e.off = i.off /\ e.value = i.value
                /\ e.imm = i.off % Field /\ i.off \in Int
  BY <1>1, EmittedWords
<1>3. IF seg.type = "START" THEN w = out \o b \o c ELSE w = out \o c \o b
  BY DEF Emit, EmittedLits, EmittedCode
<1> HIDE DEF b, c, n, l, k, w
\* Where the load number x stands, and the literal it was made for.
<1>4. ASSUME NEW x \in 1 .. k, NEW p, NewLoad(seg.code[x]), w[p] = c[x],
             NEW base \in Nat, \A o \in 0 .. l - 1 : base + o + 1 \in DOMAIN w /\ w[base + o + 1] = b[o + 1],
             IF seg.type = "START" THEN p = n + l + x /\ base = n ELSE p = n + x /\ base = n + k
      PROVE  Reaches(w[p], p, w)
  <2> DEFINE i == seg.code[x]
             d == i.off
  <2>1. PICK o \in 0 .. l - 1 : seg.lits[o + 1] = i.value /\ AimsAt(i, x, seg.type, k, l, o)
    BY <1>2, <1>4 DEF Aimed, k, l
  <2>2. /\ w[p].up = i.up /\ w[p].off = d /\ w[p].value = i.value /\ w[p].imm = d % Field /\ d \in Int
    BY <1>2, <1>4
  <2>3. IF seg.type = "START" THEN ~i.up /\ d = x + l + 1 - o ELSE i.up /\ x < k /\ d = k - x - 1 + o
    BY <2>1 DEF AimsAt
  <2>4. b[o + 1].k = "literal" /\ b[o + 1].value = i.value
    BY <1>1, <1>2, <2>1
  <2>5. base + o + 1 \in DOMAIN w /\ w[base + o + 1] = b[o + 1]
    BY <1>4
  <2> HIDE DEF i, d
  <2>6. d >= 0 /\ (IF i.up THEN p + 2 + d ELSE p + 2 - d) = base + o + 1
    <3>1. CASE seg.type = "START"
      BY <1>1, <1>4, <2>2, <2>3, <3>1
    <3>2. CASE seg.type # "START"
      BY <1>1, <1>4, <2>2, <2>3, <3>2
    <3> QED
      BY <3>1, <3>2
  <2> QED
    BY <2>2, <2>4, <2>5, <2>6 DEF Reaches
<1>5. CASE seg.type = "START"
  <2>1. /\ DOMAIN w = 1 .. n + l + k
        /\ \A j \in 1 .. n : w[j] = out[j]
        /\ \A j \in 1 .. l : w[n + j] = b[j]
        /\ \A j \in 1 .. k : w[n + l + j] = c[j]
    <3>1. w = out \o b \o c
      BY <1>3, <1>5
    <3>2. out \in Seq(Ins) /\ b \in Seq(Ins) /\ c \in Seq(Ins)
      BY <1>1, <1>2
    <3>3. LET q == out \o b \o c
          IN  /\ DOMAIN q = 1 .. Len(out) + Len(b) + Len(c)
              /\ \A j \in 1 .. Len(out) : q[j] = out[j]
              /\ \A j \in 1 .. Len(b) : q[Len(out) + j] = b[j]
              /\ \A j \in 1 .. Len(c) : q[Len(out) + Len(b) + j] = c[j]
      BY <3>2, ThreeParts, SMTT(60)
    <3> QED
      BY <1>2, <3>1, <3>3 DEF n
  <2>2. \A o \in 0 .. l - 1 : n + o + 1 \in DOMAIN w /\ w[n + o + 1] = b[o + 1]
    <3> SUFFICES ASSUME NEW o \in 0 .. l - 1 PROVE n + o + 1 \in DOMAIN w /\ w[n + o + 1] = b[o + 1]
      OBVIOUS
    <3>1. o + 1 \in 1 .. l /\ n + (o + 1) = n + o + 1 /\ n + o + 1 \in 1 .. n + l + k
      BY <1>1
    <3> QED
      BY <2>1, <3>1
  <2>3. ASSUME NEW p \in 1 .. n + l + k, NewLoad(w[p]) PROVE Reaches(w[p], p, w)
    <3>1. CASE p \in 1 .. n
      <4>1. DOMAIN out \subseteq DOMAIN w
        BY <1>1, <2>1
      <4> QED
        BY <1>1, <2>1, <2>3, <3>1, <4>1, StillReaches
    <3>2. CASE p \in n + 1 .. n + l
      <4>1. p - n \in 1 .. l /\ n + (p - n) = p
        BY <1>1, <3>2
      <4>2. w[p].k = "literal"
        BY <1>2, <2>1, <4>1
      <4> QED
        BY <2>3, <4>2 DEF NewLoad
    <3>3. CASE p \in n + l + 1 .. n + l + k
      <4> DEFINE x == p - n - l
      <4>1. x \in 1 .. k /\ p = n + l + x
        BY <1>1, <3>3
      <4> HIDE DEF x
      <4>2. w[p] = c[x] /\ NewLoad(seg.code[x])
        BY <1>2, <2>1, <2>3, <4>1 DEF NewLoad
      <4> QED
        BY <1>1, <1>4, <1>5, <2>2, <4>1, <4>2
    <3> QED
      BY <1>1, <3>1, <3>2, <3>3
  <2> QED
    BY <2>1, <2>3 DEF AllReach, w
<1>6. CASE seg.type # "START"
  <2>1. /\ DOMAIN w = 1 .. n + k + l
        /\ \A j \in 1 .. n : w[j] = out[j]
        /\ \A j \in 1 .. k : w[n + j] = c[j]
        /\ \A j \in 1 .. l : w[n + k + j] = b[j]
    <3>1. w = out \o c \o b
      BY <1>3, <1>6
    <3>2. out \in Seq(Ins) /\ c \in Seq(Ins) /\ b \in Seq(Ins)
      BY <1>1, <1>2
    <3>3. LET q == out \o c \o b
          IN  /\ DOMAIN q = 1 .. Len(out) + Len(c) + Len(b)
              /\ \A j \in 1 .. Len(out) : q[j] = out[j]
              /\ \A j \in 1 .. Len(c) : q[Len(out) + j] = c[j]
              /\ \A j \in 1 .. Len(b) : q[Len(out) + Len(c) + j] = b[j]
      BY <3>2, ThreeParts, SMTT(30)
    <3> QED
      BY <1>2, <3>1, <3>3 DEF n
  <2>2. \A o \in 0 .. l - 1 : n + k + o + 1 \in DOMAIN w /\ w[n + k + o + 1] = b[o + 1]
    <3> SUFFICES ASSUME NEW o \in 0 .. l - 1
                 PROVE  n + k + o + 1 \in DOMAIN w /\ w[n + k + o + 1] = b[o + 1]
      OBVIOUS
    <3>1. o + 1 \in 1 .. l /\ n + k + (o + 1) = n + k + o + 1 /\ n + k + o + 1 \in 1 .. n + k + l
      BY <1>1
    <3> QED
      BY <2>1, <3>1
  <2>3. ASSUME NEW p \in 1 .. n + k + l, NewLoad(w[p]) PROVE Reaches(w[p], p, w)
    <3>1. CASE p \in 1 .. n
      <4>1. DOMAIN out \subseteq DOMAIN w
        BY <1>1, <2>1
      <4> QED
        BY <1>1, <2>1, <2>3, <3>1, <4>1, StillReaches
    <3>2. CASE p \in n + k + 1 .. n + k + l
      <4>1. p - n - k \in 1 .. l /\ n + k + (p - n - k) = p
        BY <1>1, <3>2
      <4>2. w[p].k = "literal"
        BY <1>2, <2>1, <4>1, SMTT(30)
      <4> QED
        BY <2>3, <4>2 DEF NewLoad
    <3>3. CASE p \in n + 1 .. n + k
      <4> DEFINE x == p - n
                 base == n + k
      <4>1. x \in 1 .. k /\ p = n + x /\ base \in Nat
        BY <1>1, <3>3
      <4> HIDE DEF x
      <4>2. w[p] = c[x] /\ NewLoad(seg.code[x])
        BY <1>2, <2>1, <2>3, <4>1 DEF NewLoad
      <4>3. base = n + k /\ \A o \in 0 .. l - 1 : base + o + 1 \in DOMAIN w /\ w[base + o + 1] = b[o + 1]
        BY <2>2
      <4> HIDE DEF base
      <4> QED
        BY <1>4, <1>6, <4>1, <4>2, <4>3
    <3> QED
      BY <1>1, <3>1, <3>2, <3>3
  <2> QED
    BY <2>1, <2>3 DEF AllReach, w
<1> QED
  BY <1>5, <1>6

LEMMA LocalsSoundStep ==
    ASSUME TypeOK, LocalsSound, [Next]_vars
    PROVE  LocalsSound'
<1> DEFINE SegRec == [pass : {"none", "build", "emit"}, type : SegTypes,
                      lits : Seq(Values), code : Seq(Ins)]
           lits == seg.lits
           code == seg.code
<1>1. /\ seg \in SegRec /\ code \in Seq(Ins) /\ lits \in Seq(Values) /\ Len(code) \in Nat /\ Len(lits) \in Nat
      /\ DOMAIN code = 1 .. Len(code) /\ DOMAIN lits = 1 .. Len(lits)
  BY LenProperties DEF TypeOK
\* What the actions that insert an instruction have in common.
<1>2. ASSUME NEW p \in Positions, NEW i \in Ins, NEW l, Extends(lits, l), InPlace(i, l), Building, out' = out,
             seg' = [seg EXCEPT !.lits = l, !.code = InsertAt(@, p, i)]
      PROVE  LocalsSound'
  <2>1. seg'.pass = "build" /\ seg'.lits = l /\ seg'.code = InsertAt(code, p, i) /\ seg.pass = "build"
    BY <1>1, <1>2 DEF Building
  <2>2. Placed(lits, code) /\ AllReach(out)
    BY <2>1 DEF LocalsSound
  <2>3. Placed(l, InsertAt(code, p, i))
    BY <1>1, <1>2, <2>2, InsertPlaced DEF Positions
  <2> QED
    BY <1>2, <2>1, <2>2, <2>3 DEF LocalsSound
<1>3. Extends(lits, lits)
  BY <1>1 DEF Extends
<1>4. ASSUME NEW p \in Positions, NEW i \in Ins, ~NewLoad(i), Building, out' = out,
             seg' = [seg EXCEPT !.code = InsertAt(@, p, i)]
      PROVE  LocalsSound'
  <2>1. seg' = [seg EXCEPT !.lits = lits, !.code = InsertAt(@, p, i)]
    BY <1>1, <1>4
  <2>2. InPlace(i, lits)
    BY <1>4 DEF InPlace
  <2> HIDE DEF lits
  <2> QED
    BY <1>2, <1>3, <1>4, <2>1, <2>2
<1>5. CASE UNCHANGED <<seg, out>>
  BY <1>5 DEF LocalsSound
<1>6. CASE LoadKnownGlobal
  <2>1. PICK v \in Values, p \in Positions :
           /\ IsGlobal(v)
           /\ seg' = [seg EXCEPT !.code = InsertAt(@, p, Load("FP", FirstGlobal(v), v, "global"))]
    BY <1>6 DEF LoadKnownGlobal
  <2>2. FirstGlobal(v) \in Int
    BY <2>1, FirstGlobalFound, ConstantsAssumption DEF ScannedSlots
  <2>3. Load("FP", FirstGlobal(v), v, "global") \in Ins /\ ~NewLoad(Load("FP", FirstGlobal(v), v, "global"))
    BY <2>2, LoadType DEF NewLoad, Load
  <2>4. Building /\ out' = out
    BY <1>6 DEF LoadKnownGlobal
  <2> QED
    BY <1>4, <2>1, <2>3, <2>4
<1>7. CASE LoadNewGlobal
  <2>1. PICK v \in Values, p \in Positions :
           \/ UNCHANGED seg
           \/ seg' = [seg EXCEPT !.code = InsertAt(@, p, Load("FP", -(count + 1), v, "global"))]
    BY <1>7 DEF LoadNewGlobal
  <2>2. -(count + 1) \in Int
    BY DEF TypeOK
  <2>3. /\ Load("FP", -(count + 1), v, "global") \in Ins
        /\ ~NewLoad(Load("FP", -(count + 1), v, "global"))
    BY <2>2, LoadType DEF NewLoad, Load
  <2>4. Building /\ out' = out
    BY <1>7 DEF LoadNewGlobal
  <2> QED
    BY <1>4, <1>5, <2>1, <2>3, <2>4
<1>8. CASE LoadLocal
  <2>1. PICK v \in Values, p \in Positions :
           seg' = [seg EXCEPT
                    !.lits = IF v \in ToSet(seg.lits) THEN @ ELSE Append(@, v),
                    !.code = InsertAt(@, p, Load("PC", WalkedTo(seg.lits, v), v,
                                       IF v \in ToSet(seg.lits) THEN "reused" ELSE "new"))]
    BY <1>8 DEF LoadLocal
  <2>2. Building /\ out' = out
    BY <1>8 DEF LoadLocal
  <2> DEFINE how == IF v \in ToSet(lits) THEN "reused" ELSE "new"
             off == WalkedTo(lits, v)
             i   == Load("PC", off, v, how)
             l   == IF v \in ToSet(lits) THEN lits ELSE Append(lits, v)
  <2>3. i \in Ins
    BY <1>1, WalkedToType, LoadType
  <2>4. Extends(lits, l)
    <3>1. CASE v \in ToSet(lits)
      BY <1>3, <3>1
    <3>2. CASE v \notin ToSet(lits)
      <4>1. Len(l) = Len(lits) + 1 /\ \A j \in 1 .. Len(lits) : l[j] = lits[j]
        BY <1>1, <3>2, AppendProperties
      <4> QED
        BY <1>1, <4>1 DEF Extends
    <3> QED
      BY <3>1, <3>2
  <2>5. InPlace(i, l)
    <3> SUFFICES ASSUME NewLoad(i) PROVE InPlace(i, l)
      BY DEF InPlace
    <3>1. v \notin ToSet(lits)
      BY DEF NewLoad, Load
    <3>2. off = Len(lits)
      BY <3>1 DEF WalkedTo, ToSet
    <3>3. l = Append(lits, v) /\ Len(l) = Len(lits) + 1 /\ l[Len(lits) + 1] = v
      BY <1>1, <3>1, AppendProperties
    <3>4. i.base = "PC" /\ i.value = v /\ i.up /\ i.off = Len(lits)
      <4>1. ~(off < 0) /\ off >= 0
        BY <1>1, <3>2
      <4> HIDE DEF off, how, lits
      <4>2. i = [k |-> "load", base |-> "PC", up |-> TRUE, imm |-> 0, off |-> off, value |-> v, how |-> how]
        BY <4>1 DEF Load
      <4> QED
        BY <3>2, <4>2
    <3> HIDE DEF i, l, off
    <3> QED
      BY <1>1, <3>3, <3>4 DEF InPlace
  <2>6. seg' = [seg EXCEPT !.lits = l, !.code = InsertAt(@, p, i)]
    BY <2>1
  <2> HIDE DEF i, l, how, off, lits
  <2> QED
    BY <1>2, <2>2, <2>3, <2>4, <2>5, <2>6
<1>9. CASE AddOther
  <2>1. PICK p \in Positions : seg' = [seg EXCEPT !.code = InsertAt(@, p, Op)]
    BY <1>9 DEF AddOther
  <2>2. Building /\ out' = out /\ Op \in Ins /\ ~NewLoad(Op)
    BY <1>9, OpType DEF AddOther, NewLoad, Op
  <2> QED
    BY <1>4, <2>1, <2>2
<1>10. CASE Begin
  <2>1. seg'.code = <<Op>> /\ out' = out /\ seg'.pass = "build"
    BY <1>10 DEF Begin
  <2>2. \A x \in DOMAIN <<Op>> : ~NewLoad(<<Op>>[x])
    BY DEF NewLoad, Op
  <2>3. Placed(seg'.lits, seg'.code)
    BY <2>1, <2>2 DEF Placed
  <2> QED
    BY <2>1, <2>3 DEF LocalsSound
<1>11. CASE TranslateLiterals
  <2> DEFINE t == [x \in DOMAIN seg.code |-> Corrected(seg.code[x], x)]
  <2>1. seg.pass = "build" /\ out' = out /\ Placed(lits, code) /\ AllReach(out)
    BY <1>11 DEF TranslateLiterals, LocalsSound
  <2>2. seg' = [seg EXCEPT !.pass = "emit", !.code = t]
    BY <1>11 DEF TranslateLiterals
  <2>3. ASSUME NEW x \in DOMAIN code, NewLoad(t[x])
        PROVE  \E o \in 0 .. Len(lits) - 1 :
                  lits[o + 1] = t[x].value /\ AimsAt(t[x], x, seg.type, Len(code), Len(lits), o)
    <3>1. code[x] \in Ins /\ t[x] = Corrected(code[x], x) /\ x \in 1 .. Len(code)
      BY <1>1, ElementOfSeq
    <3> DEFINE i == code[x]
               back == i.off - (x - 1) - Len(seg.lits) - 2
               behind == Len(seg.code) - (x - 1) + i.off - 2
    <3>2. NewLoad(code[x])
      <4>1. t[x] \in {i, [i EXCEPT !.up = FALSE], [i EXCEPT !.up = FALSE, !.off = -back],
                      [i EXCEPT !.off = back], [i EXCEPT !.off = behind]}
        BY <3>1, Zenon DEF Corrected
      <4> HIDE DEF back, behind, t
      <4>2. t[x].k = i.k /\ t[x].how = i.how
        BY <3>1, <4>1 DEF Ins
      <4> QED
        BY <2>3, <4>2 DEF NewLoad
    <3>3. x < Len(code) /\ InPlace(code[x], lits) /\ lits[code[x].off + 1] = code[x].value
      BY <2>1, <3>2 DEF Placed, InPlace
    <3>4. LET c == Corrected(code[x], x)
          IN  /\ c.value = code[x].value /\ code[x].off \in 0 .. Len(lits) - 1
              /\ AimsAt(c, x, seg.type, Len(code), Len(lits), code[x].off)
      BY <1>1, <3>1, <3>2, <3>3, CorrectedAims
    <3> QED
      BY <3>1, <3>3, <3>4
  <2>4. DOMAIN t = DOMAIN code
    OBVIOUS
  <2>5. Len(t) = Len(code)
    <3>1. \A x \in DOMAIN code : t[x] \in Ins
      BY <1>1, CorrectedType, ElementOfSeq
    <3>2. t \in Seq(Ins)
      BY <1>1, <3>1, SeqMapped
    <3> HIDE DEF t
    <3>3. Len(t) \in Nat /\ DOMAIN t = 1 .. Len(t)
      BY <3>2, LenProperties
    <3> QED
      BY <1>1, <2>4, <3>3, SameLength
  <2> HIDE DEF t
  <2>6. seg'.pass = "emit" /\ seg'.type = seg.type /\ seg'.lits = lits /\ seg'.code = t
    BY <1>1, <2>2
  <2>7. Aimed(seg.type, lits, t)
    BY <2>3, <2>4, <2>5 DEF Aimed
  <2> QED
    BY <2>1, <2>6, <2>7 DEF LocalsSound
<1>12. CASE Emit
  <2>1. seg.pass = "emit" /\ seg'.pass = "none"
    BY <1>12 DEF Emit, NoSegment
  <2>2. AllReach(out')
    BY <1>12, <2>1, EmitReaches DEF LocalsSound
  <2> QED
    BY <2>1, <2>2 DEF LocalsSound
<1> QED
  BY <1>5, <1>6, <1>7, <1>8, <1>9, <1>10, <1>11, <1>12 DEF Next, AddLiteral, vars

\* Every emitted load of a new local literal reads it, wherever the passes have
\* inserted instructions around it, as long as its distance fits the field.
THEOREM NewLocalsAreFetched == Spec => []NewLocalsFetch
<1>1. Init => LocalsSound
  BY DEF Init, NoSegment, LocalsSound, AllReach
<1>2. TypeOK /\ LocalsSound /\ [Next]_vars => LocalsSound'
  BY LocalsSoundStep
<1>3. TypeOK /\ LocalsSound => NewLocalsFetch
  <2> SUFFICES ASSUME TypeOK, AllReach(out), NEW p \in Loads("new"), out[p].off < Field PROVE FetchesLocal(p)
    BY DEF NewLocalsFetch, LocalsSound
  <2> DEFINE i == out[p]
             d == i.off
  <2>1. p \in DOMAIN out /\ NewLoad(i)
    BY DEF Loads, NewLoad
  <2>2. Reaches(i, p, out)
    BY <2>1 DEF AllReach
  <2>3. d \in Int /\ d >= 0 /\ d < Field /\ i.imm = d % Field
    <3>1. i \in Ins
      BY <2>1, ElementOfSeq, LenProperties DEF TypeOK
    <3> QED
      BY <2>2, <3>1 DEF Reaches, Ins
  <2>4. d % Field = d
    BY <2>3, ConstantsAssumption
  <2>5. i.imm = d
    BY <2>3, <2>4
  <2> QED
    BY <2>2, <2>5 DEF FetchesLocal, Reaches
<1> QED
  BY <1>1, <1>2, <1>3, LiteralsTypeCorrect, PTL DEF Spec
=============================================================================
