-------------------------- MODULE Execution_proofs --------------------------
(***************************************************************************)
(* Proofs about lists of instructions: how a pass puts the new list        *)
(* together, and what the processor keeps while it runs a list.            *)
(***************************************************************************)
EXTENDS Correctness, WellFoundedInduction, FiniteSetTheorems, TLAPS

-----------------------------------------------------------------------------
\* Every set of natural numbers has a least element: the induction used below.
LEMMA LeastNumber ==
    ASSUME NEW T \in SUBSET Nat, T # {}
    PROVE  \E n \in T : \A m \in T : n <= m
<1>1. PICK n \in T : \A m \in T : ~(<<m, n>> \in OpToRel(<, Nat))
  BY NatLessThanWellFounded, WFMin, T \subseteq Nat
<1>2. \A m \in T : ~(m < n)
  BY <1>1 DEF OpToRel
<1> QED BY <1>2

\* The run of a list, step by step.
Trace(state, s, L, junk) ==
    /\ state[0] = s
    /\ \A k \in 1 .. Len(L) : state[k] = Step(state[k - 1], L[k], junk)

LEMMA ExecuteFunction ==
    ASSUME NEW s, NEW L, NEW junk, Len(L) \in Nat
    PROVE  \E state : /\ state = [k \in 0 .. Len(L) |->
                            IF k = 0 THEN s ELSE Step(state[k - 1], L[k], junk)]
                      /\ Execute(s, L, junk) = state[Len(L)]
<1> DEFINE Traced(f, n) == f = [k \in 0 .. n |-> IF k = 0 THEN s ELSE Step(f[k - 1], L[k], junk)]
           T == {n \in Nat : ~\E f : Traced(f, n)}
<1>1. T = {}
  <2> SUFFICES ASSUME T # {} PROVE FALSE
    OBVIOUS
  <2>1. PICK n \in T : \A m \in T : n <= m
    BY LeastNumber
  <2>2. n # 0
    <3> DEFINE f == [k \in 0 .. 0 |-> s]
    <3>1. f = [k \in 0 .. 0 |-> IF k = 0 THEN s ELSE Step(f[k - 1], L[k], junk)]
      OBVIOUS
    <3> QED BY <3>1
  <2>3. n - 1 \in Nat /\ n - 1 \notin T
    BY <2>1, <2>2, SMTT(30)
  <2>4. PICK f : Traced(f, n - 1)
    BY <2>3
  <2> DEFINE g == [k \in 0 .. n |-> IF k < n THEN f[k] ELSE Step(f[n - 1], L[n], junk)]
  <2>5. ASSUME NEW k \in 0 .. n
        PROVE  g[k] = IF k = 0 THEN s ELSE Step(g[k - 1], L[k], junk)
    <3>1. CASE k = 0
      BY <3>1, <2>2, <2>4
    <3>2. CASE k # 0 /\ k < n
      <4>1. k \in 0 .. n - 1 /\ k - 1 \in 0 .. n - 1 /\ k - 1 < n
        BY <3>2
      <4>2. g[k] = f[k] /\ g[k - 1] = f[k - 1]
        BY <4>1, <3>2
      <4>3. f[k] = Step(f[k - 1], L[k], junk)
        BY <2>4, <4>1, <3>2
      <4> QED BY <4>2, <4>3, <3>2
    <3>3. CASE k # 0 /\ ~(k < n)
      <4>1. k = n /\ n - 1 \in 0 .. n /\ n - 1 < n
        BY <3>3, <2>3
      <4>2. g[k] = Step(f[n - 1], L[n], junk) /\ g[n - 1] = f[n - 1]
        BY <4>1
      <4> QED BY <4>1, <4>2, <3>3
    <3> QED BY <3>1, <3>2, <3>3
  <2>6. Traced(g, n)
    <3> HIDE DEF g
    <3>1. g = [k \in 0 .. n |-> g[k]]
      BY DEF g
    <3>2. [k \in 0 .. n |-> g[k]]
            = [k \in 0 .. n |-> IF k = 0 THEN s ELSE Step(g[k - 1], L[k], junk)]
      BY <2>5
    <3> QED BY <3>1, <3>2
  <2> QED BY <2>1, <2>6
<1>2. \E f : Traced(f, Len(L))
  BY <1>1
<1> HIDE DEF T
<1> DEFINE state == CHOOSE f : Traced(f, Len(L))
<1>3. Traced(state, Len(L))
  <2> HIDE DEF Traced
  <2> QED BY <1>2
<1>4. Execute(s, L, junk) = state[Len(L)]
  BY DEF Execute
<1> QED
  BY <1>3, <1>4

LEMMA ExecuteStates ==
    ASSUME NEW s, NEW L, NEW junk, Len(L) \in Nat
    PROVE  \E state : Trace(state, s, L, junk) /\ Execute(s, L, junk) = state[Len(L)]
<1>1. PICK state : /\ state = [k \in 0 .. Len(L) |->
                                 IF k = 0 THEN s ELSE Step(state[k - 1], L[k], junk)]
                   /\ Execute(s, L, junk) = state[Len(L)]
  BY ExecuteFunction, SMTT(30)
<1>2. state[0] = s
  BY <1>1
<1>3. \A k \in 1 .. Len(L) : state[k] = Step(state[k - 1], L[k], junk)
  BY <1>1
<1> QED BY <1>1, <1>2, <1>3 DEF Trace

-----------------------------------------------------------------------------
\* FlattenSeq puts the lists together one after the other.
LEMMA FlattenStates ==
    ASSUME NEW Q, Len(Q) \in Nat \ {0}
    PROVE  \E f : /\ f[1] = Q[1]
                  /\ \A i \in 2 .. Len(Q) : f[i] = f[i - 1] \o Q[i]
                  /\ FlattenSeq(Q) = f[Len(Q)]
<1> DEFINE Glue(x, y) == x \o y
           Flat(f, n) == f = [i \in 1 .. n |-> IF i = 1 THEN Q[i] ELSE Glue(f[i - 1], Q[i])]
           T == {n \in Nat \ {0} : ~\E f : Flat(f, n)}
<1> HIDE DEF Glue
<1>1. T = {}
  <2> SUFFICES ASSUME T # {} PROVE FALSE
    OBVIOUS
  <2>1. PICK n \in T : \A m \in T : n <= m
    BY LeastNumber
  <2>2. n # 1
    <3> DEFINE f == [i \in 1 .. 1 |-> Q[i]]
    <3>1. f = [i \in 1 .. 1 |-> IF i = 1 THEN Q[i] ELSE Glue(f[i - 1], Q[i])]
      OBVIOUS
    <3> QED BY <3>1
  <2>3. n \in Nat \ {0} /\ n - 1 \in Nat \ {0} /\ n - 1 \notin T
    <3> HIDE DEF Flat
    <3> QED BY <2>1, <2>2
  <2>4. PICK f : Flat(f, n - 1)
    BY <2>3
  <2> DEFINE g == [i \in 1 .. n |-> IF i < n THEN f[i] ELSE Glue(f[n - 1], Q[n])]
  <2>5. ASSUME NEW i \in 1 .. n
        PROVE  g[i] = IF i = 1 THEN Q[i] ELSE Glue(g[i - 1], Q[i])
    <3>1. CASE i = 1
      BY <3>1, <2>2, <2>3, <2>4
    <3>2. CASE i # 1 /\ i < n
      <4>1. i \in 1 .. n - 1 /\ i - 1 \in 1 .. n - 1 /\ i - 1 < n
        BY <3>2
      <4>2. g[i] = f[i] /\ g[i - 1] = f[i - 1]
        BY <4>1, <3>2
      <4>3. f[i] = Glue(f[i - 1], Q[i])
        BY <2>4, <4>1, <3>2
      <4> QED BY <4>2, <4>3, <3>2
    <3>3. CASE i # 1 /\ ~(i < n)
      <4>1. i = n /\ n \in 1 .. n /\ n - 1 \in 1 .. n /\ n - 1 < n /\ ~(n < n)
        BY <3>3, <2>3
      <4>2. g[i] = Glue(f[n - 1], Q[n]) /\ g[n - 1] = f[n - 1]
        BY <4>1
      <4> QED BY <4>1, <4>2, <3>3
    <3> QED BY <3>1, <3>2, <3>3
  <2>6. Flat(g, n)
    <3> HIDE DEF g
    <3>1. g = [i \in 1 .. n |-> g[i]]
      BY DEF g
    <3>2. [i \in 1 .. n |-> g[i]]
            = [i \in 1 .. n |-> IF i = 1 THEN Q[i] ELSE Glue(g[i - 1], Q[i])]
      BY <2>5
    <3> QED BY <3>1, <3>2
  <2> QED BY <2>1, <2>6
<1>2. \E f : Flat(f, Len(Q))
  BY <1>1
<1> HIDE DEF T
<1> DEFINE flat == CHOOSE f : Flat(f, Len(Q))
<1>3. Flat(flat, Len(Q))
  <2> HIDE DEF Flat
  <2> QED BY <1>2
<1>4. FlattenSeq(Q) = flat[Len(Q)]
  BY DEF FlattenSeq, Glue
<1>5. flat[1] = Q[1] /\ \A i \in 2 .. Len(Q) : flat[i] = Glue(flat[i - 1], Q[i])
  <2> HIDE DEF flat
  <2> QED BY <1>3
<1> QED
  BY <1>4, <1>5 DEF Glue

\* Of nothing it makes nothing.
LEMMA FlattenNothing == ASSUME NEW Q, Len(Q) = 0 PROVE FlattenSeq(Q) = Q
BY DEF FlattenSeq

-----------------------------------------------------------------------------
\* A list: a sequence of something.
IsList(L) == \E S : L \in Seq(S)

LEMMA ListsAreFunctions ==
    ASSUME NEW L, IsList(L)
    PROVE  Len(L) \in Nat /\ DOMAIN L = 1 .. Len(L) /\ L = [k \in 1 .. Len(L) |-> L[k]]
BY DEF IsList

LEMMA ListsJoin ==
    ASSUME NEW A, NEW B, IsList(A), IsList(B)
    PROVE  /\ IsList(A \o B) /\ Len(A \o B) = Len(A) + Len(B)
           /\ \A k \in 1 .. Len(A) : (A \o B)[k] = A[k]
           /\ \A k \in 1 .. Len(B) : (A \o B)[Len(A) + k] = B[k]
           /\ \A k \in Len(A) + 1 .. Len(A) + Len(B) : (A \o B)[k] = B[k - Len(A)]
<1>1. PICK S, T : A \in Seq(S) /\ B \in Seq(T)
  BY DEF IsList
<1>2. A \in Seq(S \cup T) /\ B \in Seq(S \cup T)
  BY <1>1
<1> QED BY <1>2 DEF IsList

LEMMA FunctionsAreLists ==
    ASSUME NEW n \in Nat, NEW L, L = [k \in 1 .. n |-> L[k]]
    PROVE  IsList(L) /\ Len(L) = n
<1>1. L \in [1 .. n -> {L[k] : k \in 1 .. n}]
  OBVIOUS
<1>2. L \in Seq({L[k] : k \in 1 .. n}) /\ Len(L) = n
  BY <1>1
<1> QED BY <1>2 DEF IsList

\* Two lists of the same length and the same elements are the same.
LEMMA ListsEqual ==
    ASSUME NEW A, NEW B, IsList(A), IsList(B), Len(A) = Len(B),
           \A k \in 1 .. Len(A) : A[k] = B[k]
    PROVE  A = B
BY ListsAreFunctions

LEMMA FlattenOne == ASSUME NEW L PROVE FlattenSeq(<< L >>) = L
<1> DEFINE Q == << L >>
<1>1. Len(Q) = 1 /\ Q[1] = L
  OBVIOUS
<1> HIDE DEF Q
<1>2. PICK f : f[1] = Q[1] /\ FlattenSeq(Q) = f[Len(Q)]
  <2>1. Len(Q) \in Nat \ {0}
    BY <1>1
  <2> QED BY <2>1, FlattenStates, Zenon
<1>3. FlattenSeq(Q) = L
  BY <1>1, <1>2
<1> QED BY <1>3 DEF Q

-----------------------------------------------------------------------------
\* What the records may do that take the place of the decoded record d.  m are
\* the registers whose values are on the stack in front of a record, p the ones
\* behind it.

Masks == {{}, {LR}, {R(12), LR}, {R(4), R(12), LR}}
Products == {"ARM_MUL", "ARM_UMULL", "ARM_UMLAL"}
Encoded == DataOps \cup LoadOps \cup OtherOps

\* The registers the operation may change for good.
Dest(d) ==
    {d.Rd1, Wide(d.Rd1)} \cup (IF d.op \in IntoHiLo THEN {HI, LO, Wide(HI), Wide(LO)} ELSE {})
    \cup Scratch

Tame(i, d) ==
    /\ i.op \in DataOps \cup LoadOps \cup Products
    /\ Physical(i.Rd1) \in Dest(d)
    /\ i.op \in Products => Physical(i.Rd2) \in Dest(d)

\* The record itself waits for its pass; one without an effect waits for the last.
Leads(i, d, m, p) ==
    /\ DOMAIN i = DOMAIN newEmptyInstr(X)
    /\ \/ i = d /\ d.op \notin Encoded /\ m = {} /\ p = {}
       \/ i.op \in {"NO_OP", "ABORT"} /\ p = m
       \/ Tame(i, d) /\ p = m
       \/ i.op = "ARM_LDR_LIT" /\ Physical(i.Rd1) \in m /\ p = m
       \/ i.op = "ARM_BLX" /\ LR \in m /\ p = m
       \/ i.op = "ARM_BX" /\ i.Ln /\ LR \in m /\ p = m
       \/ i.op = "ARM_STM" /\ i.cond = "AL" /\ m = {} /\ p = i.Rmask
       \/ i.op = "ARM_LDM" /\ i.cond = "AL" /\ m = i.Rmask /\ p = {}

Guards(L, d, m, p) ==
    /\ IsList(L)
    /\ \E open \in [0 .. Len(L) -> Masks] :
         /\ open[0] = m /\ open[Len(L)] = p
         /\ \A k \in 1 .. Len(L) : Leads(L[k], d, open[k - 1], open[k])

\* Instructions that leave the stack alone.
LEMMA GuardsStill ==
    ASSUME NEW d, NEW m \in Masks, NEW L, IsList(L),
           \A k \in 1 .. Len(L) : Leads(L[k], d, m, m)
    PROVE  Guards(L, d, m, m)
<1>1. Len(L) \in Nat
  BY ListsAreFunctions
<1> DEFINE open == [k \in 0 .. Len(L) |-> m]
<1>2. open \in [0 .. Len(L) -> Masks] /\ open[0] = m /\ open[Len(L)] = m
  BY <1>1
<1>3. \A k \in 1 .. Len(L) : Leads(L[k], d, open[k - 1], open[k])
  BY <1>1
<1> HIDE DEF open
<1> QED BY <1>2, <1>3 DEF Guards

LEMMA GuardsNothing ==
    ASSUME NEW d, NEW m \in Masks
    PROVE  Guards(<< >>, d, m, m)
<1>1. IsList(<< >>) /\ Len(<< >>) = 0
  BY DEF IsList
<1>2. \A k \in 1 .. Len(<< >>) : Leads(<< >>[k], d, m, m)
  BY <1>1
<1> QED BY <1>1, <1>2, GuardsStill

\* One list behind the other.
LEMMA GuardsJoin ==
    ASSUME NEW d, NEW m, NEW n, NEW p, NEW A, NEW B,
           Guards(A, d, m, n), Guards(B, d, n, p)
    PROVE  Guards(A \o B, d, m, p)
<1>1. PICK f \in [0 .. Len(A) -> Masks] :
         /\ f[0] = m /\ f[Len(A)] = n
         /\ \A k \in 1 .. Len(A) : Leads(A[k], d, f[k - 1], f[k])
  BY DEF Guards
<1>2. PICK g \in [0 .. Len(B) -> Masks] :
         /\ g[0] = n /\ g[Len(B)] = p
         /\ \A k \in 1 .. Len(B) : Leads(B[k], d, g[k - 1], g[k])
  BY DEF Guards
<1>3. /\ IsList(A) /\ IsList(B) /\ Len(A) \in Nat /\ Len(B) \in Nat
      /\ IsList(A \o B) /\ Len(A \o B) = Len(A) + Len(B)
      /\ \A k \in 1 .. Len(A) : (A \o B)[k] = A[k]
      /\ \A k \in Len(A) + 1 .. Len(A) + Len(B) : (A \o B)[k] = B[k - Len(A)]
  BY ListsAreFunctions, ListsJoin DEF Guards
<1> DEFINE J == A \o B
           open == [k \in 0 .. Len(A) + Len(B) |-> IF k <= Len(A) THEN f[k] ELSE g[k - Len(A)]]
<1>4. open \in [0 .. Len(J) -> Masks]
  BY <1>3
<1>5. open[0] = m /\ open[Len(J)] = p
  BY <1>1, <1>2, <1>3
<1>6. ASSUME NEW k \in 1 .. Len(J)
      PROVE  Leads(J[k], d, open[k - 1], open[k])
  <2>1. CASE k <= Len(A)
    <3>1. k \in 1 .. Len(A) /\ J[k] = A[k] /\ open[k - 1] = f[k - 1] /\ open[k] = f[k]
      BY <2>1, <1>3
    <3> QED BY <3>1, <1>1
  <2>2. CASE ~(k <= Len(A))
    <3>1. k - Len(A) \in 1 .. Len(B) /\ J[k] = B[k - Len(A)]
      BY <2>2, <1>3
    <3>2. open[k] = g[k - Len(A)]
      BY <2>2, <1>3
    <3>3. open[k - 1] = g[(k - Len(A)) - 1]
      BY <2>2, <1>3, <1>1, <1>2
    <3> QED BY <3>1, <3>2, <3>3, <1>2
  <2> QED BY <2>1, <2>2
<1> HIDE DEF open, J
<1>7. Guards(J, d, m, p)
  <2>1. IsList(J)
    BY <1>3 DEF J
  <2> QED BY <2>1, <1>4, <1>5, <1>6 DEF Guards
<1> QED BY <1>7 DEF J

\* A pass that keeps to the same guard record by record keeps to it as a whole.
LEMMA GuardsFlatten ==
    ASSUME NEW d, NEW Q, IsList(Q), NEW open \in [0 .. Len(Q) -> Masks],
           \A k \in 1 .. Len(Q) : Guards(Q[k], d, open[k - 1], open[k])
    PROVE  Guards(FlattenSeq(Q), d, open[0], open[Len(Q)])
<1>1. Len(Q) \in Nat
  BY ListsAreFunctions
<1>2. CASE Len(Q) = 0
  <2>1. FlattenSeq(Q) = << >>
    BY <1>2, FlattenNothing, ListsAreFunctions
  <2> QED BY <2>1, <1>2, GuardsNothing
<1>3. CASE Len(Q) # 0
  <2>1. PICK f : /\ f[1] = Q[1]
                 /\ \A i \in 2 .. Len(Q) : f[i] = f[i - 1] \o Q[i]
                 /\ FlattenSeq(Q) = f[Len(Q)]
    <3>1. Len(Q) \in Nat \ {0}
      BY <1>1, <1>3
    <3> QED BY <3>1, FlattenStates, Zenon
  <2> DEFINE T == {n \in 1 .. Len(Q) : ~Guards(f[n], d, open[0], open[n])}
  <2>2. T = {}
    <3> SUFFICES ASSUME T # {} PROVE FALSE
      OBVIOUS
    <3>1. PICK n \in T : \A j \in T : n <= j
      <4>1. T \in SUBSET Nat
        BY <1>1
      <4> HIDE DEF T
      <4> QED BY <4>1, LeastNumber
    <3>2. n \in 1 .. Len(Q) /\ ~Guards(f[n], d, open[0], open[n])
      BY <3>1
    <3>3. n # 1
      BY <3>2, <2>1
    <3>4. n - 1 \in 1 .. Len(Q) /\ n \in 2 .. Len(Q) /\ ~(n <= n - 1)
      BY <3>2, <3>3, <1>1
    <3>5. Guards(f[n - 1], d, open[0], open[n - 1])
      BY <3>1, <3>4
    <3>6. Guards(f[n - 1] \o Q[n], d, open[0], open[n])
      BY <3>4, <3>5, GuardsJoin, Zenon
    <3> QED BY <3>6, <3>4, <3>2, <2>1
  <2>3. Len(Q) \in 1 .. Len(Q)
    BY <1>1, <1>3
  <2> QED BY <2>1, <2>2, <2>3
<1> QED BY <1>2, <1>3

-----------------------------------------------------------------------------
\* What is pushed lies on the stack in the order of the registers.
LEMMA OneMore ==
    ASSUME NEW S, IsFiniteSet(S), NEW n \in Nat, Cardinality(S) = n, NEW x, x \notin S, NEW T,
           T = S \cup {x}
    PROVE  IsFiniteSet(T) /\ Cardinality(T) = n + 1
<1>1. IsFiniteSet(S \cup {x}) /\ Cardinality(S \cup {x}) = n + 1
  BY FS_AddElement
<1> QED BY <1>1

LEMMA Smaller ==
    ASSUME NEW x, NEW y, x # y
    PROVE  /\ Cardinality({}) = 0 /\ Cardinality({x}) = 1
           /\ Cardinality({x, y}) = 2 /\ IsFiniteSet({x, y})
<1>1. Cardinality({}) = 0
  BY FS_EmptySet
<1>2. Cardinality({x}) = 1 /\ IsFiniteSet({x})
  BY FS_Singleton
<1> DEFINE S == {x}
           T == {x, y}
<1>3. T = S \cup {y} /\ y \notin S /\ IsFiniteSet(S) /\ Cardinality(S) = 1 /\ 1 \in Nat
  BY <1>2
<1> HIDE DEF S, T
<1>4. IsFiniteSet(T) /\ Cardinality(T) = 1 + 1
  BY <1>3, OneMore
<1> QED BY <1>1, <1>2, <1>4 DEF T

LEMMA ThreeOf ==
    ASSUME NEW x, NEW y, NEW z, x # y, x # z, y # z
    PROVE  Cardinality({x, y, z}) = 3
<1> DEFINE S == {x, y}
           T == {x, y, z}
<1>1. IsFiniteSet(S) /\ Cardinality(S) = 2
  BY Smaller
<1>2. T = S \cup {z} /\ z \notin S /\ 2 \in Nat
  OBVIOUS
<1> HIDE DEF S, T
<1>3. IsFiniteSet(T) /\ Cardinality(T) = 2 + 1
  BY <1>1, <1>2, OneMore
<1> QED BY <1>3 DEF T

LEMMA OrderOf ==
    ASSUME NEW x \in Int, NEW y \in Int, NEW z \in Int, x < y, y < z
    PROVE  /\ InOrder({}) = << >> /\ InOrder({x}) = << x >>
           /\ InOrder({x, y}) = << x, y >> /\ InOrder({x, y, z}) = << x, y, z >>
<1>6. Cardinality({x, y, z}) = 3
  <2>1. x # y /\ x # z /\ y # z
    OBVIOUS
  <2> QED BY <2>1, ThreeOf, Zenon
<1> DEFINE below(mask, r) == {q \in mask : q < r}
           at(mask, k) == CHOOSE r \in mask : Cardinality(below(mask, r)) = k - 1
<1>0. x # y /\ x # z /\ y # z
  OBVIOUS
<1>1. InOrder({}) = << >>
  BY FS_EmptySet DEF InOrder
<1>2. \A mask : InOrder(mask) = [k \in 1 .. Cardinality(mask) |-> at(mask, k)]
  BY DEF InOrder
<1>3. InOrder({x}) = << x >>
  <2> DEFINE m == {x}
  <2>1. below(m, x) = {}
    OBVIOUS
  <2>2. Cardinality(below(m, x)) = 0 /\ Cardinality(m) = 1
    <3> HIDE DEF below
    <3> QED BY <2>1, <1>0, Smaller
  <2>3. at(m, 1) = x
    <3> HIDE DEF below
    <3> QED BY <2>2
  <2> HIDE DEF at, m
  <2>4. InOrder(m) = [k \in 1 .. 1 |-> at(m, k)]
    BY <2>2, <1>2
  <2>5. InOrder(m) = << x >>
    BY <2>3, <2>4
  <2> QED BY <2>5 DEF m
<1>4. InOrder({x, y}) = << x, y >>
  <2> DEFINE m == {x, y}
  <2>1. below(m, x) = {} /\ below(m, y) = {x}
    OBVIOUS
  <2>2. Cardinality(below(m, x)) = 0 /\ Cardinality(below(m, y)) = 1 /\ Cardinality(m) = 2
    <3> HIDE DEF below
    <3> QED BY <2>1, <1>0, Smaller
  <2>3. at(m, 1) = x /\ at(m, 2) = y
    <3> HIDE DEF below
    <3> QED BY <2>2
  <2> HIDE DEF at, m
  <2>4. InOrder(m) = [k \in 1 .. 2 |-> at(m, k)]
    BY <2>2, <1>2
  <2>5. InOrder(m) = << x, y >>
    BY <2>3, <2>4
  <2> QED BY <2>5 DEF m
<1>5. InOrder({x, y, z}) = << x, y, z >>
  <2> DEFINE m == {x, y, z}
  <2>1. below(m, x) = {} /\ below(m, y) = {x} /\ below(m, z) = {x, y}
    OBVIOUS
  <2>2. /\ Cardinality(below(m, x)) = 0 /\ Cardinality(below(m, y)) = 1
        /\ Cardinality(below(m, z)) = 2 /\ Cardinality(m) = 3
    <3> HIDE DEF below
    <3>1. Cardinality({}) = 0 /\ Cardinality({x}) = 1 /\ Cardinality({x, y}) = 2
      BY <1>0, Smaller
    <3>3. Cardinality(m) = 3
      <4> HIDE DEF below
      <4> QED BY <1>6, Zenon
    <3> HIDE DEF m
    <3> QED BY <2>1, <3>1, <3>3
  <2>3. at(m, 1) = x /\ at(m, 2) = y /\ at(m, 3) = z
    <3> HIDE DEF below
    <3> QED BY <2>2
  <2> HIDE DEF at, m
  <2>4. InOrder(m) = [k \in 1 .. 3 |-> at(m, k)]
    BY <2>2, <1>2
  <2>5. InOrder(m) = << x, y, z >>
    BY <2>3, <2>4
  <2> QED BY <2>5 DEF m
<1> HIDE DEF below, at
<1> QED BY <1>1, <1>3, <1>4, <1>5

LEMMA MaskOrder ==
    /\ InOrder({}) = << >>
    /\ InOrder({LR}) = << LR >>
    /\ InOrder({R(12), LR}) = << R(12), LR >>
    /\ InOrder({R(4), R(12), LR}) = << R(4), R(12), LR >>
<1>1. R(3) \in Int /\ R(4) \in Int /\ R(12) \in Int /\ LR \in Int /\ R(15) \in Int
  BY DEF R, LR, REG_HOST
<1>2. R(3) < R(4) /\ R(4) < R(12) /\ R(12) < LR /\ LR < R(15)
  BY DEF R, LR, REG_HOST
<1>3. R(15) \in Int /\ R(12) < LR /\ LR < R(15) /\ LR \in Int
  BY <1>1, <1>2
<1>4. R(15) + 1 \in Int /\ R(15) < R(15) + 1
  BY <1>1
<1>5. InOrder({LR}) = << LR >>
  BY <1>1, <1>2, <1>4, OrderOf
<1> QED BY <1>1, <1>2, <1>5, OrderOf

=============================================================================
