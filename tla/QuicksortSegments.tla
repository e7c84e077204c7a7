-------------------------- MODULE QuicksortSegments --------------------------
(***************************************************************************)
(* What the parallel quicksorts of src/cases/quicksort share: reading and  *)
(* writing parts of an array, the two packed counters that give the chunks *)
(* of a partition their places in the output, and the number of recursive  *)
(* calls.  Arrays are functions from 0 .. length - 1, parts are sequences, *)
(* a segment is the elements from .. to - 1.                               *)
(***************************************************************************)
EXTENDS Integers, Sequences, SequencesExt, FiniteSets

CONSTANT HALF   \* 2^32: the right counter is in the high half

CeilDiv(n, d) == (n + d - 1) \div d

Slice(array, from, to) == [i \in 1 .. to - from |-> array[from + i - 1]]

Overwrite(array, from, new) ==
  [i \in DOMAIN array |->
     IF i \in from .. from + Len(new) - 1 THEN new[i - from + 1] ELSE array[i]]

(* The elements of s at the indexes in I, in their order.                  *)
Picked(s, I) ==
  [k \in 1 .. Cardinality(I) |-> s[CHOOSE i \in I : Cardinality({j \in I : j <= i}) = k]]

Smaller(s, v) == {i \in DOMAIN s : s[i] < v}
NotSmaller(s, v)  == {i \in DOMAIN s : s[i] >= v}

(* sequential::sort, see SequentialSort: at place k, the element that less *)
(* than k elements are smaller than, and k or more not greater.            *)
Sorted(s) ==
  [k \in 1 .. Len(s) |->
     CHOOSE v \in Range(s) :
       /\ Cardinality(Smaller(s, v)) < k
       /\ k <= Cardinality(Smaller(s, v + 1))]

-----------------------------------------------------------------------------
(* parallel_partition_chunk on the chunk that starts at index `start` of   *)
(* the segment and has `length` elements, unless the segment ends before.  *)

ChunkOf(array, from, to, start, length) ==
  LET end == from + start + length
  IN  Slice(array, from + start, IF end <= to THEN end ELSE to)

LeftCount(c)  == c % HALF
RightCount(c) == c \div HALF

\* Mutated: the right offset is not lowered by the length of the own part.
RightOffsetEnd(to, c, right) == to - RightCount(c)
RightOffset(to, c, right) == to - Len(right) - RightCount(c)

NoValues == [left |-> <<>>, right |-> <<>>, left_offset |-> 0, right_offset |-> 0]

(* The chunk divided by the pivot, the elements on the right in reverse    *)
(* order, and the places reserved when the counters were c.                *)
Partitioned(elements, pivot, from, to, c) ==
  LET left  == Picked(elements, Smaller(elements, pivot))
      right == Reverse(Picked(elements, NotSmaller(elements, pivot)))
  IN  [left |-> left, right |-> right,
       left_offset |-> from + LeftCount(c), right_offset |-> RightOffset(to, c, right)]

(* What the fetch_add adds to the counters.                                *)
Reserved(v) == Len(v.right) * HALF + Len(v.left)

LeftPlaces(v)  == v.left_offset .. v.left_offset + Len(v.left) - 1
RightPlaces(v) == v.right_offset .. v.right_offset + Len(v.right) - 1
PlacesOf(v)    == LeftPlaces(v) \cup RightPlaces(v)

-----------------------------------------------------------------------------
(* The sequential partition up to the order within the parts               *)
(* (SequentialSort has the algorithm), and where it puts the pivot.        *)

PivotPosition(s) == Cardinality(Smaller(s, s[1]))

PartitionedSequentially(s) ==
  Picked(s, Smaller(s, s[1])) \o <<s[1]>> \o Picked(s, NotSmaller(s, s[1]) \ {1})

\* Mutated: a right part of a single element counts as a task.
CountRecursiveCallsOne(length, position) ==
  (IF position > 1 THEN 1 ELSE 0) + (IF length - position > 1 THEN 1 ELSE 0)

CountRecursiveCalls(length, position) ==
  (IF position > 1 THEN 1 ELSE 0) + (IF length - position > 2 THEN 1 ELSE 0)
=============================================================================
