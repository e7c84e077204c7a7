--------------------------- MODULE SequentialSort ---------------------------
(***************************************************************************)
(* The sequential quicksort of src/cases/quicksort/sequential.rs: a        *)
(* partition with two indexes that meet, two recursive calls, insertion    *)
(* sort for short segments.  The partition is also the one of run_go in    *)
(* task_parallel.rs and of run_recursion_parallel in                       *)
(* deque_parallel_partition.rs.                                            *)
(***************************************************************************)
EXTENDS Integers, Sequences, SequencesExt

CONSTANTS
  Numbers,                \* values of the elements
  MaxLength,              \* bound on the length of the array
  INSERTION_SORT_CUTOFF

ASSUME SequentialAssumption ==
  Numbers \subseteq Nat /\ MaxLength \in Nat /\ INSERTION_SORT_CUTOFF \in Nat \ {0}

VARIABLES
  given,   \* the array at the call
  array,   \* the array, from index 1
  stack,   \* segments <<start, end>> of the calls to come, without the end
  stage,
  left, right,   \* local variables of partition, relative to the segment
  index    \* local variable idx of insertion_sort

sortVars == <<given, array, stack, stage, left, right, index>>

SortInit ==
  /\ given \in UNION {[1 .. n -> Numbers] : n \in 0 .. MaxLength}
  /\ array = given
  /\ stack = << <<1, Len(given) + 1>> >>
  /\ stage = "sort"
  /\ left = 0 /\ right = 0 /\ index = 0

First  == Head(stack)[1]
Extent == Head(stack)[2] - First
At(i)  == array[First + i]
Pivot  == At(0)

Swapped(i, j) == [array EXCEPT ![First + i] = At(j), ![First + j] = At(i)]

(* sort: what to do with the segment.                                      *)
ReturnShort ==
  /\ stage = "sort" /\ stack # <<>> /\ Extent <= 1
  /\ stack' = Tail(stack)
  /\ UNCHANGED <<given, array, stage, left, right, index>>

CallInsertionSort ==
  /\ stage = "sort" /\ stack # <<>>
  /\ Extent \in 2 .. INSERTION_SORT_CUTOFF
  /\ stage' = "insert" /\ index' = 1
  /\ UNCHANGED <<given, array, stack, left, right>>

LastIndex == Extent - 1

CallPartition ==
  /\ stage = "sort" /\ stack # <<>>
  /\ Extent > 1 /\ Extent > INSERTION_SORT_CUTOFF
  /\ stage' = "left"
  /\ left' = 1 /\ right' = LastIndex
  /\ UNCHANGED <<given, array, stack, index>>

MayStayLeft(i) == At(i) < Pivot

\* Mutated: elements equal to the pivot are exchanged too.
MayStayRightStrict(i) == At(i) > Pivot
MayStayRight(i) == At(i) >= Pivot

ScanLeft ==
  /\ stage = "left"
  /\ IF left < Extent /\ MayStayLeft(left)
       THEN left' = left + 1 /\ UNCHANGED stage
       ELSE stage' = "right" /\ UNCHANGED left
  /\ UNCHANGED <<given, array, stack, right, index>>

ScanRight ==
  /\ stage = "right"
  /\ IF right > 0 /\ MayStayRight(right)
       THEN right' = right - 1 /\ UNCHANGED stage
       ELSE /\ stage' = IF left >= right THEN "place" ELSE "swap"
            /\ UNCHANGED right
  /\ UNCHANGED <<given, array, stack, left, index>>

Swap ==
  /\ stage = "swap"
  /\ array' = Swapped(left, right)
  /\ left' = left + 1 /\ right' = right - 1
  /\ stage' = "left"
  /\ UNCHANGED <<given, stack, index>>

\* Mutated: the pivot is sorted again.
RightPartWithPivot == <<First + right, First + Extent>>
RightPart == <<First + right + 1, First + Extent>>

(* The pivot goes between the parts, and both are sorted.                  *)
PlacePivot ==
  /\ stage = "place"
  /\ array' = Swapped(0, right)
  /\ stack' = << <<First, First + right>>, RightPart >> \o Tail(stack)
  /\ stage' = "sort"
  /\ UNCHANGED <<given, left, right, index>>

(* The elements before index are sorted; where the loop over j stops.      *)
InsertionPlace(value) ==
  CHOOSE j \in 0 .. index :
    /\ \A i \in j .. index - 1 : At(i) > value
    /\ j > 0 => At(j - 1) <= value

Insert ==
  /\ stage = "insert"
  /\ IF index = Extent
       THEN stage' = "sort" /\ stack' = Tail(stack) /\ UNCHANGED <<array, index>>
       ELSE /\ LET value == At(index)
                   j     == InsertionPlace(value)
               IN  array' = [k \in DOMAIN array |->
                     IF k = First + j THEN value
                     ELSE IF k \in First + j + 1 .. First + index THEN array[k - 1]
                     ELSE array[k]]
            /\ index' = index + 1
            /\ UNCHANGED <<stage, stack>>
  /\ UNCHANGED <<given, left, right>>

SortNext ==
  \/ ReturnShort
  \/ CallInsertionSort
  \/ CallPartition
  \/ ScanLeft
  \/ ScanRight
  \/ Swap
  \/ PlacePivot
  \/ Insert

SortSpec == SortInit /\ [][SortNext]_sortVars

(* A thread that sorts goes on.                                            *)
FairSortSpec == SortSpec /\ WF_sortVars(SortNext)

-----------------------------------------------------------------------------
(* The segments to sort are parts of the array, one after another.         *)
SortTypeOK ==
  LET n == Len(given)
  IN  /\ given \in Seq(Numbers) /\ array \in [1 .. n -> Numbers]
      /\ stage \in {"sort", "left", "right", "swap", "place", "insert"}
      /\ left \in Nat /\ right \in Nat /\ index \in Nat
      /\ stack \in Seq((1 .. n + 1) \X (1 .. n + 1))
      /\ \A k \in DOMAIN stack : stack[k][1] <= stack[k][2]
      /\ \A k, l \in DOMAIN stack : k < l => stack[k][2] <= stack[l][1]

(* The indexes of partition stay in the segment and right does not wrap    *)
(* below 0; what they have passed is on the side of the pivot where it     *)
(* belongs, so that they cannot pass each other.                           *)
Partitioning ==
  stage \in {"left", "right", "swap", "place"} =>
    /\ stack # <<>> /\ left \in 1 .. Extent /\ right \in left - 1 .. Extent - 1
    /\ \A i \in 1 .. left - 1 : At(i) < Pivot
    /\ \A i \in right + 1 .. Extent - 1 : At(i) >= Pivot
    /\ stage = "right" => left = Extent \/ At(left) >= Pivot
    /\ stage = "swap" => left < right /\ At(left) >= Pivot /\ At(right) < Pivot

(* When the indexes met, left - 1 = right (the assertion of partition),    *)
(* and right is where the pivot belongs: smaller elements on the left of   *)
(* it, the others on the right, equal elements and both ends included.     *)
PartitionMeets ==
  stage = "place" =>
    /\ left - 1 = right
    /\ \A i \in 1 .. right : At(i) < Pivot
    /\ \A i \in right + 1 .. Extent - 1 : At(i) >= Pivot

(* insertion_sort has sorted the elements before its index.                *)
Inserting ==
  stage = "insert" =>
    /\ stack # <<>> /\ index \in 1 .. Extent
    /\ \A i, j \in 0 .. index - 1 : i < j => At(i) <= At(j)

(* The segments on the stack are what is left to do: the array is sorted   *)
(* but for the order within them, so it is sorted when the stack is empty. *)
InOneCall(i, j) == \E k \in DOMAIN stack : stack[k][1] <= i /\ j < stack[k][2]
SortedButForCalls ==
  \A i, j \in DOMAIN array : i < j => array[i] <= array[j] \/ InOneCall(i, j)

(* Whatever was exchanged and shifted, the array has the elements of the   *)
(* given array.                                                            *)
Permuted ==
  \A value \in Numbers :
    Cardinality({i \in DOMAIN array : array[i] = value})
      = Cardinality({i \in DOMAIN given : given[i] = value})

(* The loops and the recursion end.                                        *)
SortTermination == <>(stage = "sort" /\ stack = <<>>)

(* The loops stay in the segment, meet at the pivot's place, lose no       *)
(* element, and leave nothing unsorted that no call is going to sort.      *)
SortInv ==
  /\ SortTypeOK
  /\ Partitioning
  /\ PartitionMeets
  /\ Inserting
  /\ SortedButForCalls
  /\ Permuted
=============================================================================
