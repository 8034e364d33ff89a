---------------------------- MODULE SegmentTable ----------------------------
(***************************************************************************)
(* What the address map of the code cache promises, whatever segments,     *)
(* caller lists and emitted code are behind it: MIPS memory is covered by  *)
(* a set of pairwise disjoint intervals of compiled words.  Intervals are  *)
(* installed only over words no interval covers, and each is removed as a  *)
(* whole, until the process stops: free() aborts it on a segment freed     *)
(* twice, when the map has been cleared over words of others.              *)
(***************************************************************************)
EXTENDS Integers

CONSTANT NWords

VARIABLES
    table,    \* the compiled intervals, as <<first word, length>>
    running   \* the process has not been stopped

Intervals == {i \in (0 .. NWords - 1) \X (1 .. NWords) : i[1] + i[2] <= NWords}

Disjoint(i, j) == i[1] + i[2] <= j[1] \/ j[1] + j[2] <= i[1]

Init == table = {} /\ running = TRUE

Install == /\ running /\ running'
           /\ table' \subseteq Intervals
           /\ table \subseteq table'
           /\ \A i, j \in table' : i # j => Disjoint(i, j)

Remove == /\ running /\ running'
          /\ \E i \in table : table' = table \ {i}

Stop == running /\ ~running' /\ table' \subseteq table

Next == Install \/ Remove \/ Stop

Spec == Init /\ [][Next]_<<table, running>>
=============================================================================
