--------------------------- MODULE LuDecomposition ---------------------------
(***************************************************************************)
(* What a parallel LU decomposition must do, whatever schedules it: every  *)
(* operation on tiles starts when the values it reads are final and the    *)
(* values it updates have had exactly the updates of the iterations        *)
(* before, no operation writes what another one uses at the same time, and *)
(* the pool stops when all matrices are decomposed.  It is the dataflow of *)
(* sequential_tiled in src/cases/lud.rs without its order.                 *)
(***************************************************************************)
EXTENDS LuTiles

VARIABLES
  version,   \* version[x]: how many iterations updated cell x
  working,   \* operations in progress
  stopped    \* finish was called on the pool

vars == <<version, working, stopped>>

Init ==
  /\ version = [x \in Cells |-> 0]
  /\ working = {}
  /\ stopped = FALSE

Ready(w) ==
  /\ \A x \in Writes(w) : version[x] = w.offset
  /\ \A x \in Reads(w) : version[x] = Final(x)

Conflict(v, w) ==
  \/ Writes(v) \cap (Reads(w) \cup Writes(w)) # {}
  \/ Writes(w) \cap Reads(v) # {}

Begin(w) ==
  /\ working' = working \cup {w}
  /\ w \notin working
  /\ Ready(w)
  /\ \A v \in working : ~Conflict(v, w)
  /\ UNCHANGED <<version, stopped>>

End(w) ==
  /\ working' = working \ {w}
  /\ w \in working
  /\ version' = [x \in Cells |-> IF x \in Writes(w) THEN version[x] + 1 ELSE version[x]]
  /\ UNCHANGED stopped

Decomposed == \A x \in Cells : version[x] = Final(x)

Stop ==
  /\ Decomposed
  /\ working = {}
  /\ ~stopped
  /\ stopped' = TRUE
  /\ UNCHANGED <<version, working>>

Next == (\E w \in Works : Begin(w) \/ End(w)) \/ Stop

Spec == Init /\ [][Next]_vars
=============================================================================
