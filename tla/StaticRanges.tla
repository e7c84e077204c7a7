---------------------------- MODULE StaticRanges ----------------------------
(***************************************************************************)
(* The division of an input of `count` elements over the `thread_count`    *)
(* threads of static_parallel in prime.rs, sum_array.rs, sum_function.rs.  *)
(***************************************************************************)
EXTENDS Integers

RangeStart(thread_index, count, thread_count) ==
  (thread_index * count) \div thread_count

(* A range ends where that of the next thread starts.                      *)
StaticRange(thread_index, count, thread_count) ==
  RangeStart(thread_index, count, thread_count)
    .. RangeStart(thread_index + 1, count, thread_count) - 1
=============================================================================
