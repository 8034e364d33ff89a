------------------------------- MODULE Literals -------------------------------
(***************************************************************************)
(* The literal pools: 32-bit constants that translated code loads from     *)
(* memory, because no ARM instruction holds them.                          *)
(*                                                                         *)
(* Sources: Recompiler/literals.c (addLiteral, freeLiterals),              *)
(* Translations/Literals.c, the InstrI and arm_encode cases of ARM_LDR_LIT *)
(* and emit_arm_code.                                                      *)
(*                                                                         *)
(* A literal of a START, ALONE or END segment is stored next to its code   *)
(* and loaded relative to the PC; one of a SANDWICH segment goes to a      *)
(* global slot below the frame pointer, unless some slot holds the value   *)
(* already.  Addresses and offsets are counted in 32-bit words, so the     *)
(* 12-bit byte offset of an LDR counts Field = 1024 words, which is also   *)
(* the number of global slots.                                             *)
(***************************************************************************)
EXTENDS Integers, Sequences, SequencesExt

CONSTANTS
    Values,     \* the words passed to addLiteral; 0 never is
    Unused,     \* the content of an unused slot: the word 0
    Field,      \* words an offset field can count, and global slots (1024)
    MaxCode,    \* bound: instructions in a segment
    MaxOut      \* bound: no segment is begun once this many words are emitted

ASSUME ConstantsAssumption ==
    /\ Unused \notin Values
    /\ Field \in Nat /\ Field > 2
    /\ MaxCode \in Nat /\ MaxOut \in Nat

SegTypes == {"START", "END", "SANDWICH"}  \* ALONE is laid out as START
Slots    == 1 .. Field

VARIABLES
    glob,    \* the global literals: the word x words below the frame pointer
    count,   \* GlobalLiteralCount
    seg,     \* the segment being translated: its pass, type, literals and code
    out,     \* the words emitted so far
    halted   \* abort() has been called

vars == <<glob, count, seg, out, halted>>

(***************************************************************************)
(* Instructions and emitted words.  A load has its base register, U bit    *)
(* and offset; imm is the offset as encoded.  value is the literal itself, *)
(* or for a load the one it was made for, and how tells where addLiteral   *)
(* found it: these two say what is expected and steer nothing.             *)
(***************************************************************************)
Op == [k |-> "op", base |-> "none", up |-> TRUE, off |-> 0, imm |-> 0,
       value |-> Unused, how |-> "none"]

Load(base, off, v, how) ==
    [k |-> "load", base |-> base, up |-> off >= 0, imm |-> 0,
     off |-> IF off < 0 THEN -off ELSE off, value |-> v, how |-> how]   \* InstrI

Literal(v) == [Op EXCEPT !.k = "literal", !.value = v]

NoSegment == [pass |-> "none", type |-> "START", lits |-> <<>>, code |-> <<>>]

-----------------------------------------------------------------------------
(* addLiteral. *)

\* Faulty variant: the scan of the slots starts one slot late.
ScannedSlots_Second == 2 .. Field - 1

ScannedSlots == 1 .. Field - 1

IsGlobal(v) == \E x \in ScannedSlots : glob[x] = v

FirstGlobal(v) == CHOOSE x \in ScannedSlots :
                      glob[x] = v /\ \A y \in ScannedSlots : glob[y] = v => x <= y

\* The index of v in the list, or Len(lits) if it is not there before the end.
\* The walk of the list counts from 1: a value found again gets the offset of
\* the literal behind it.
WalkedTo(lits, v) == IF \E i \in DOMAIN lits : lits[i] = v
                     THEN CHOOSE i \in DOMAIN lits :
                              lits[i] = v /\ \A j \in 1 .. i - 1 : lits[j] # v
                     ELSE Len(lits)

\* A new instruction goes in front of any other, but never to the end: the last
\* instruction of a segment is not a literal load.
Positions == DOMAIN seg.code

Building == ~halted /\ seg.pass = "build" /\ Len(seg.code) < MaxCode

\* The value is in a global slot: used by every type of segment.
LoadKnownGlobal ==
    /\ Building
    /\ \E v \in Values, p \in Positions :
          /\ IsGlobal(v)
          /\ seg' = [seg EXCEPT !.code =
                        InsertAt(@, p, Load("FP", FirstGlobal(v), v, "global"))]
    /\ UNCHANGED <<glob, count, out, halted>>

\* Faulty variant: the slot is filled before the count is raised.
LoadNewGlobal_LateCount ==
    /\ Building /\ seg.type = "SANDWICH"
    /\ \E v \in Values, p \in Positions :
          /\ ~IsGlobal(v)
          /\ IF count >= Field
             THEN halted' = TRUE /\ UNCHANGED <<glob, count, seg>>
             ELSE /\ count' = count + 1
                  /\ glob'  = [glob EXCEPT ![IF count = 0 THEN 1 ELSE count] = v]
                  /\ seg'   = [seg EXCEPT !.code =
                                  InsertAt(@, p, Load("FP", -(count + 1), v, "global"))]
                  /\ UNCHANGED halted
    /\ UNCHANGED out

\* A new global literal, or the end when the slots have run out.
LoadNewGlobal ==
    /\ Building /\ seg.type = "SANDWICH"
    /\ \E v \in Values, p \in Positions :
          /\ ~IsGlobal(v)
          /\ IF count >= Field
             THEN halted' = TRUE /\ UNCHANGED <<glob, count, seg>>
             ELSE /\ count' = count + 1
                  /\ glob'  = [glob EXCEPT ![count + 1] = v]
                  /\ seg'   = [seg EXCEPT !.code =
                                  InsertAt(@, p, Load("FP", -(count + 1), v, "global"))]
                  /\ UNCHANGED halted
    /\ UNCHANGED out

\* A literal of the segment itself: appended, or found in the list.
LoadLocal ==
    /\ Building /\ seg.type # "SANDWICH"
    /\ \E v \in Values, p \in Positions :
          /\ ~IsGlobal(v)
          /\ LET known == v \in ToSet(seg.lits)
             IN  seg' = [seg EXCEPT
                    !.lits = IF known THEN @ ELSE Append(@, v),
                    !.code = InsertAt(@, p, Load("PC", WalkedTo(seg.lits, v), v,
                                                 IF known THEN "reused" ELSE "new"))]
    /\ UNCHANGED <<glob, count, out, halted>>

AddOther ==
    /\ Building
    /\ \E p \in Positions : seg' = [seg EXCEPT !.code = InsertAt(@, p, Op)]
    /\ UNCHANGED <<glob, count, out, halted>>

-----------------------------------------------------------------------------
(* The passes. *)

\* Translate_init: the literals of an earlier translation are freed.
Begin ==
    /\ ~halted /\ seg.pass = "none" /\ Len(out) < MaxOut
    /\ \E t \in SegTypes :
          seg' = [pass |-> "build", type |-> t, lits |-> <<>>, code |-> <<Op>>]
    /\ UNCHANGED <<glob, count, out, halted>>

\* Faulty variant: the pipeline offset of the PC is forgotten in front of code.
Corrected_NoPipeline(ins, x) ==
    LET back == ins.off - (x - 1) - Len(seg.lits)
    IN  IF ins.k # "load" THEN ins
        ELSE IF ins.base = "FP" THEN [ins EXCEPT !.up = FALSE]
        ELSE IF seg.type = "START" THEN [ins EXCEPT !.up = back >= 0, !.off = -back]
        ELSE [ins EXCEPT !.off = Len(seg.code) - (x - 1) + @ - 2]

\* Translate_Literals on instruction number x: the PC reads two words ahead,
\* and the literals stand in front of the code (START) or behind it (END).
Corrected(ins, x) ==
    LET back == ins.off - (x - 1) - Len(seg.lits) - 2
    IN  IF ins.k # "load" THEN ins
        ELSE IF ins.base = "FP" THEN [ins EXCEPT !.up = FALSE]
        ELSE IF seg.type = "START"
             THEN IF back < 0 THEN [ins EXCEPT !.up = FALSE, !.off = -back]
                              ELSE [ins EXCEPT !.off = back]
        ELSE [ins EXCEPT !.off = Len(seg.code) - (x - 1) + @ - 2]

TranslateLiterals ==
    /\ ~halted /\ seg.pass = "build"
    /\ seg' = [seg EXCEPT !.pass = "emit",
                          !.code = [x \in DOMAIN @ |-> Corrected(@[x], x)]]
    /\ UNCHANGED <<glob, count, out, halted>>

\* Faulty variant: the offset is not cut to the field.
Encode_Uncut(ins) == [ins EXCEPT !.imm = ins.off]

\* arm_encode keeps the low 12 bits of the byte offset.
Encode(ins) == [ins EXCEPT !.imm = ins.off % Field]

\* emit_arm_code: START literals, the code, END literals.
Emit ==
    /\ ~halted /\ seg.pass = "emit"
    /\ LET lits == [i \in DOMAIN seg.lits |-> Literal(seg.lits[i])]
           code == [i \in DOMAIN seg.code |-> Encode(seg.code[i])]
       IN  out' = IF seg.type = "START" THEN out \o lits \o code ELSE out \o code \o lits
    /\ seg' = NoSegment
    /\ UNCHANGED <<glob, count, halted>>

-----------------------------------------------------------------------------
Init ==
    /\ glob = [x \in Slots |-> Unused] /\ count = 0
    /\ seg = NoSegment /\ out = <<>> /\ halted = FALSE

AddLiteral == LoadKnownGlobal \/ LoadNewGlobal \/ LoadLocal
Next == AddLiteral \/ AddOther \/ Begin \/ TranslateLiterals \/ Emit

Spec == Init /\ [][Next]_vars

-----------------------------------------------------------------------------
(* Properties. *)

Word == Values \cup {Unused}
Ins  == [k : {"op", "load", "literal"}, base : {"none", "PC", "FP"}, up : BOOLEAN,
         off : Int, imm : 0 .. Field - 1, value : Word,
         how : {"none", "global", "new", "reused"}]

\* Every variable has its type.
TypeOK ==
    /\ glob \in [Slots -> Word] /\ count \in 0 .. Field
    /\ seg \in [pass : {"none", "build", "emit"}, type : SegTypes,
                lits : Seq(Values), code : Seq(Ins)]
    /\ out \in Seq(Ins) /\ halted \in BOOLEAN

Loads(how) == {p \in DOMAIN out : out[p].k = "load" /\ out[p].how = how}

\* The emitted load at p, executed, reads the literal it was made for.
FetchesLocal(p) ==
    LET a == IF out[p].up THEN p + 2 + out[p].imm ELSE p + 2 - out[p].imm
    IN  a \in DOMAIN out /\ out[a].k = "literal" /\ out[a].value = out[p].value
FetchesGlobal(p) ==
    ~out[p].up /\ out[p].imm \in Slots /\ glob[out[p].imm] = out[p].value

\* A load of a new local literal reads it, whatever was inserted around it and
\* added after it, as long as its distance fits the field.
NewLocalsFetch ==
    \A p \in Loads("new") : out[p].off < Field => FetchesLocal(p)

\* A load from a global slot reads its value, for all the literals other
\* segments add later; the slot Field words below the FP is not reached.
GlobalsFetch ==
    \A p \in Loads("global") : out[p].off < Field => FetchesGlobal(p)

\* The slots up to the count are filled with different values, the others are
\* unused: the pool runs out only when Field different constants are in use.
GlobalsDistinct ==
    /\ \A x \in Slots : glob[x] = Unused <=> x > count
    /\ \A x, y \in 1 .. count : glob[x] = glob[y] => x = y

\* What emitted code may rely on is never taken back: slots keep their literals.
GlobalsKept == [][\A x \in Slots : glob[x] # Unused => glob'[x] = glob[x]]_vars

-----------------------------------------------------------------------------
(* What comments of the code say and the code does not do. *)

\* "already exists" (addLiteral): a local literal found again is the one loaded.
ReusedLocalsFetch == \A p \in Loads("reused") : out[p].off < Field => FetchesLocal(p)

=============================================================================
