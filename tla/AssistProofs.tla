---------------------------- MODULE AssistProofs ----------------------------
(***************************************************************************)
(* Proofs about AssistProtocol, for any number of threads, addresses and   *)
(* tasks.  ProtocolInv is inductive; what the schedulers promise follows.  *)
(* It bounds the tags, so that the slots, which have a pointer and a tag   *)
(* in AssistProtocol, may be read with the words of PtrWord in them.  Last *)
(* is what the steps do to the history that a client goes by.              *)
(***************************************************************************)
EXTENDS TaskHistory, PtrWord, FiniteSetTheorems, SequenceTheorems, TLAPS

(* Threads and addresses are finite, so that they can be counted.          *)
LEMMA FiniteParts ==
  /\ IsFiniteSet(Threads)
  /\ Cardinality(Threads) = N
  /\ \A S \in SUBSET Threads : IsFiniteSet(S) /\ Cardinality(S) \in Nat
  /\ \A S \in SUBSET Addrs : IsFiniteSet(S) /\ Cardinality(S) \in Nat
<1>1. IsFiniteSet(Threads) /\ Cardinality(Threads) = N
  BY FS_Interval, ProtocolAssumption DEF Threads
<1>2. QED
  BY <1>1, FS_Subset, FS_CardinalityType, ProtocolAssumption

(* Visiting the next thread in line stays within the pool.                 *)
LEMMA NextOtherInThreads ==
  ASSUME NEW o \in Threads, NEW t \in Threads
  PROVE  (o + Increment(t)) % N \in Threads
<1>1. o + Increment(t) \in Int
  BY ProtocolAssumption DEF Threads, Increment
<1>2. \A x \in Int : x % N \in 0 .. N - 1
  BY ProtocolAssumption
<1>3. QED
  BY <1>1, <1>2 DEF Threads

(* The operations of a deque: push and pop at its end, steal at its front. *)
LEMMA DequePush ==
  ASSUME NEW d \in Seq(Addrs), NEW a \in Addrs
  PROVE  /\ Append(d, a) \in Seq(Addrs)
         /\ DOMAIN Append(d, a) = 1 .. Len(d) + 1
         /\ \A i \in 1 .. Len(d) : Append(d, a)[i] = d[i]
         /\ Append(d, a)[Len(d) + 1] = a
BY AppendProperties

(* PopTask takes the last element and keeps the others in place.           *)
LEMMA DequePop ==
  ASSUME NEW d \in Seq(Addrs), d # <<>>
  PROVE  /\ Len(d) \in Nat \ {0}
         /\ SubSeq(d, 1, Len(d) - 1) \in Seq(Addrs)
         /\ DOMAIN SubSeq(d, 1, Len(d) - 1) = 1 .. Len(d) - 1
         /\ \A i \in 1 .. Len(d) - 1 : SubSeq(d, 1, Len(d) - 1)[i] = d[i]
         /\ d[Len(d)] \in Addrs
<1>1. Len(d) \in Nat \ {0} /\ DOMAIN d = 1 .. Len(d) /\ \A i \in 1 .. Len(d) : d[i] \in Addrs
  BY EmptySeq, LenProperties, ElementOfSeq
<1>2. \A i \in 1 .. Len(d) - 1 : d[i] \in Addrs
  BY <1>1
<1>3. QED
  BY <1>1, <1>2, SubSeqProperties, LenProperties

(* StealTask takes the first element; the others move up by one.           *)
LEMMA DequeSteal ==
  ASSUME NEW d \in Seq(Addrs), d # <<>>
  PROVE  /\ Len(d) \in Nat \ {0}
         /\ Tail(d) \in Seq(Addrs)
         /\ DOMAIN Tail(d) = 1 .. Len(d) - 1
         /\ \A i \in 1 .. Len(d) - 1 : Tail(d)[i] = d[i + 1]
         /\ Head(d) = d[1] /\ d[1] \in Addrs
BY EmptySeq, LenProperties, ElementOfSeq, HeadTailProperties

(* A deque's positions are those of a sequence of addresses.               *)
LEMMA DequePositions ==
  ASSUME ProtocolTypeOK, NEW t \in Threads
  PROVE  /\ deque[t] \in Seq(Addrs)
         /\ Len(deque[t]) \in Nat
         /\ DOMAIN deque[t] = 1 .. Len(deque[t])
         /\ \A i \in DOMAIN deque[t] : deque[t][i] \in Addrs
BY LenProperties, ElementOfSeq DEF ProtocolTypeOK

-----------------------------------------------------------------------------
(* Type correctness.                                                       *)

(* A thread that has not counted its task down yet keeps the count up.     *)
LEMMA AfterIsCounted ==
  ASSUME ProtocolTypeOK, PendingInv, NEW t \in Threads, pc[t] = "after"
  PROVE  pending >= 1
<1> DEFINE After == {u \in Threads : pc[u] = "after"}
           Live  == {a \in Addrs : kind[a] # "free"}
<1>1. After # {} /\ IsFiniteSet(After) /\ Cardinality(After) \in Nat
  BY FiniteParts
<1>2. Cardinality(After) # 0
  BY <1>1, FS_EmptySet
<1>3. Cardinality(Live) \in Nat
  BY FiniteParts
<1>4. pending = Cardinality(Live) + Cardinality(After)
  BY DEF PendingInv
<1>5. QED
  BY <1>1, <1>2, <1>3, <1>4

(* A thread that works on a task, or will, knows its address.              *)
LEMMA TaskIsAddress ==
  ASSUME ProtocolTypeOK, ThreadInv, NEW t \in Threads,
         pc[t] \in Working \cup {"start", "finish"}
  PROVE  task[t] \in Addrs
BY DEF ProtocolTypeOK, ThreadInv

(* Each step of a thread keeps the variables within their types; the       *)
(* deques, the count of the client and the addresses are what needs care.  *)
LEMMA TypeStep ==
  ASSUME ProtocolTypeOK, ThreadInv, PendingInv, NEW t \in Threads, ThreadStep(t)
  PROVE  ProtocolTypeOK'
<1>1. /\ "enter" \in Labels /\ "next" \in Labels /\ "body" \in Labels
      /\ "signal" \in Labels /\ "cas" \in Labels /\ "add" \in Labels
      /\ "end" \in Labels /\ "loop" \in Labels /\ "pop" \in Labels
      /\ "steal" \in Labels /\ "check" \in Labels /\ "join" \in Labels
      /\ "start" \in Labels /\ "finish" \in Labels /\ "after" \in Labels
      /\ "returned" \in Labels
  BY DEF Labels, Working
<1> USE DEF ProtocolTypeOK
<1>2. /\ NextOther(t) \in Threads
      /\ (t + Increment(t)) % N \in Threads
      /\ NullPtr \in TaggedPtr
  BY NextOtherInThreads DEF NextOther, NullPtr, TaggedPtr
<1> USE <1>1, <1>2 DEF Goto, shared, signal
<1>3. CASE DoWork(t)
  BY <1>3 DEF DoWork
<1>4. CASE PopTask(t)
  BY <1>4, DequePop DEF PopTask
<1>5. CASE LookAround(t)
  BY <1>5 DEF LookAround
<1>6. CASE StealTask(t)
  BY <1>6, DequeSteal DEF StealTask
<1>7. CASE StealNothing(t)
  <2>1. /\ UNCHANGED <<shared, task, signal>>
        /\ retry' \in [Threads -> BOOLEAN]
        /\ other' \in [Threads -> Threads]
    BY <1>7 DEF StealNothing
  <2>2. pc' \in [Threads -> Labels]
    BY <1>7 DEF StealNothing
  <2>3. QED
    BY <2>1, <2>2
<1>8. CASE CheckActivity(t)
  BY <1>8 DEF CheckActivity, VisitNext, MayJoin
<1>9. CASE JoinActivity(t)
  <2>1. /\ activities[other[t]] \in TaggedPtr
        /\ activities[other[t]].ptr \in Addrs \cup {Null}
    BY DEF TaggedPtr
  <2>2. FetchAddTag(activities[other[t]]) \in TaggedPtr
    BY <2>1 DEF FetchAddTag, TaggedPtr
  <2>3. activities' \in [Threads -> TaggedPtr]
    BY <1>9, <2>2 DEF JoinActivity
  <2>4. CASE activities[other[t]].ptr = Null
    <3>1. /\ UNCHANGED <<is_finished, deque, kind, active_threads, pending, created>>
          /\ UNCHANGED <<retry, value, task, state>>
      BY <1>9, <2>4 DEF JoinActivity
    <3>2. other' = [other EXCEPT ![t] = NextOther(t)]
      BY <1>9, <2>4 DEF JoinActivity, VisitNext
    <3>3. pc' = [pc EXCEPT ![t] = IF NextOther(t) = t THEN "loop" ELSE "check"]
      BY <1>9, <2>4 DEF JoinActivity, VisitNext
    <3>4. QED
      BY <2>3, <3>1, <3>2, <3>3
  <2>5. CASE activities[other[t]].ptr # Null
    <3>1. /\ UNCHANGED <<is_finished, deque, kind, active_threads, pending, created>>
          /\ UNCHANGED <<retry, value, other>>
          /\ task' = [task EXCEPT ![t] = activities[other[t]].ptr]
          /\ state' = [state EXCEPT ![t] = "Assist"]
          /\ pc' = [pc EXCEPT ![t] = "enter"]
      BY <1>9, <2>5 DEF JoinActivity
    <3>2. QED
      BY <2>1, <2>3, <3>1
  <2>6. QED
    BY <2>4, <2>5
<1>10. CASE StartSingle(t)
  BY <1>10 DEF StartSingle
<1>11. CASE StartLoop(t)
  BY <1>11 DEF StartLoop, TaggedPtr
<1>12. CASE EndTask(t)
  <2>1. active_threads' \in [Addrs -> Int]
    <3>1. task[t] \in Addrs
      BY <1>12, TaskIsAddress DEF EndTask, Working
    <3>2. active_threads' = [active_threads EXCEPT ![task[t]] = active_threads[task[t]] - 1]
      BY <1>12 DEF EndTask
    <3>3. QED
      BY <3>1, <3>2
  <2>2. task' \in [Threads -> Addrs \cup {Null}] /\ pc' \in [Threads -> Labels]
    BY <1>12 DEF EndTask, IsLast
  <2>3. /\ other' \in [Threads -> Threads]
        /\ UNCHANGED <<is_finished, deque, activities, kind, pending, created>>
        /\ UNCHANGED <<retry, signal>>
    BY <1>12 DEF EndTask
  <2>4. QED
    BY <2>1, <2>2, <2>3
<1>13. CASE CountDown(t)
  BY <1>13, AfterIsCounted DEF CountDown
<1>14. CASE ChunkLoop(t)
  <2>1. PICK label \in {"enter", "next", "body", "signal", "end"} : Goto(t, label)
    BY <1>14 DEF ChunkLoop
  <2>2. pc' \in [Threads -> Labels]
    BY <2>1
  <2>3. QED
    BY <1>14, <2>2 DEF ChunkLoop
<1>15. ASSUME NEW resume \in {"body", "end"}, TaskEmpty(t, resume)
       PROVE  ProtocolTypeOK'
  <2>1. resume \in Labels /\ \A s \in Threads : activities[s] \in TaggedPtr
    OBVIOUS
  <2>2. CASE SwapSlot(t, resume)
    BY ZenonT(30), <1>15, <2>1, <2>2 DEF SwapSlot, Signalled
  <2>3. CASE LoadSlot(t, resume)
    BY ZenonT(30), <1>15, <2>1, <2>3 DEF LoadSlot, RetryWhileTask, SlotOf, Signalled
  <2>4. CASE CompareExchange(t, resume)
    <3>1. /\ activities' \in [Threads -> TaggedPtr]
          /\ value' \in [Threads -> TaggedPtr]
          /\ state' \in [Threads -> {"Main", "Assist", "DidSignal"}]
          /\ pc' \in [Threads -> Labels]
      <4>1. CASE CasMatches(t)
        <5>1. /\ activities' = [activities EXCEPT ![other[t]] = NullPtr]
              /\ pc' = [pc EXCEPT ![t] = "add"]
              /\ UNCHANGED <<state, value>>
          BY <2>4, <4>1 DEF CompareExchange, SlotOf
        <5>2. QED
          BY <5>1
      <4>2. CASE ~CasMatches(t)
        BY <2>1, <2>4, <4>2 DEF CompareExchange, RetryWhileTask, SlotOf, Signalled
      <4>3. QED
        BY <4>1, <4>2
    <3>2. /\ UNCHANGED <<is_finished, deque, kind, active_threads, pending, created>>
          /\ UNCHANGED <<other, retry, task>>
      BY <2>4 DEF CompareExchange
    <3>3. QED
      BY <3>1, <3>2
  <2>5. CASE AddReferences(t, resume)
    <3>1. value[t] \in TaggedPtr /\ Credit(value[t]) \in Int /\ task[t] \in Addrs
      BY <2>5, TaskIsAddress DEF AddReferences, Working, TaggedPtr, Credit
    <3>2. active_threads' \in [Addrs -> Int]
      <4>1. active_threads' = [active_threads EXCEPT ![task[t]] =
                                 active_threads[task[t]] + Credit(value[t])]
        BY <2>5 DEF AddReferences
      <4>2. QED
        BY <3>1, <4>1
    <3>3. /\ value' \in [Threads -> TaggedPtr]
          /\ state' \in [Threads -> {"Main", "Assist", "DidSignal"}]
          /\ pc' \in [Threads -> Labels]
      <4>1. CASE state[t] = "Main"
        <5>1. /\ pc' = [pc EXCEPT ![t] = resume]
              /\ state' = [state EXCEPT ![t] = "DidSignal"]
              /\ value' = [value EXCEPT ![t] = NullPtr]
          BY <2>5, <4>1 DEF AddReferences, Signalled
        <5>2. QED
          BY <2>1, <5>1
      <4>2. CASE state[t] # "Main"
        <5>1. pc' = [pc EXCEPT ![t] = "cas"] /\ UNCHANGED <<state, value>>
          BY <2>5, <4>2 DEF AddReferences
        <5>2. QED
          BY <5>1
      <4>3. QED
        BY <4>1, <4>2
    <3>4. /\ UNCHANGED <<is_finished, deque, activities, kind, pending, created>>
          /\ UNCHANGED <<other, retry, task>>
      BY <2>5 DEF AddReferences
    <3>5. QED
      BY <3>2, <3>3, <3>4
  <2>6. QED
    BY <1>15, <2>2, <2>3, <2>4, <2>5 DEF TaskEmpty
<1>16. CASE FreeTask(t)
  BY <1>1, <1>16 DEF FreeTask
<1>17. ASSUME NEW a \in Addrs, NEW k \in {"single", "loop"}, SpawnTask(t, a, k)
       PROVE  ProtocolTypeOK'
  BY <1>1, <1>17, DequePush, ProtocolAssumption DEF SpawnTask, local, Counted
<1>18. QED
  BY <1>3, <1>4, <1>5, <1>6, <1>7, <1>8, <1>9, <1>10, <1>11, <1>12, <1>13, <1>14,
     <1>15, <1>16, <1>17 DEF ThreadStep, ProtocolStep

-----------------------------------------------------------------------------
(* A thread changes its own local variables only.                          *)
LEMMA OwnLocals ==
  ASSUME ProtocolTypeOK, NEW t \in Threads, ThreadStep(t), NEW u \in Threads \ {t}
  PROVE  /\ pc'[u] = pc[u] /\ task'[u] = task[u] /\ state'[u] = state[u]
         /\ other'[u] = other[u] /\ value'[u] = value[u]
<1> USE DEF ProtocolTypeOK, Goto, shared, local, signal
<1>1. CASE ProtocolStep(t)
  <2>1. CASE DoWork(t) \/ StartSingle(t) \/ CountDown(t)
    BY <2>1 DEF DoWork, StartSingle, CountDown
  <2>2. CASE PopTask(t) \/ LookAround(t)
    BY <2>2 DEF PopTask, LookAround
  <2>3. CASE StealTask(t) \/ StealNothing(t)
    BY <2>3 DEF StealTask, StealNothing
  <2>4. CASE CheckActivity(t)
    BY <2>4 DEF CheckActivity, VisitNext
  <2>5. CASE JoinActivity(t)
    BY <2>5 DEF JoinActivity, VisitNext
  <2>6. CASE StartLoop(t)
    BY <2>6 DEF StartLoop
  <2>7. CASE EndTask(t)
    BY <2>7 DEF EndTask
  <2>8. QED
    BY <1>1, <2>1, <2>2, <2>3, <2>4, <2>5, <2>6, <2>7 DEF ProtocolStep
<1>2. CASE ChunkLoop(t)
  BY <1>2 DEF ChunkLoop
<1>3. ASSUME NEW resume \in {"body", "end"}, TaskEmpty(t, resume)
      PROVE  /\ pc'[u] = pc[u] /\ task'[u] = task[u] /\ state'[u] = state[u]
             /\ other'[u] = other[u] /\ value'[u] = value[u]
  <2> USE DEF Signalled, RetryWhileTask
  <2>1. CASE SwapSlot(t, resume)
    BY <2>1 DEF SwapSlot
  <2>2. CASE LoadSlot(t, resume)
    BY <2>2 DEF LoadSlot
  <2>3. CASE CompareExchange(t, resume)
    BY <2>3 DEF CompareExchange
  <2>4. CASE AddReferences(t, resume)
    BY <2>4 DEF AddReferences
  <2>5. QED
    BY <1>3, <2>1, <2>2, <2>3, <2>4 DEF TaskEmpty
<1>4. CASE FreeTask(t)
  BY <1>4 DEF FreeTask
<1>5. CASE \E a \in Addrs, k \in {"single", "loop"} : SpawnTask(t, a, k)
  BY <1>5 DEF SpawnTask
<1>6. QED
  BY <1>1, <1>2, <1>3, <1>4, <1>5 DEF ThreadStep

-----------------------------------------------------------------------------
(* ThreadInv: only the thread that steps is affected.                      *)
LEMMA ThreadStepInv ==
  ASSUME ProtocolTypeOK, ThreadInv, SlotInv, NEW t \in Threads, ThreadStep(t)
  PROVE  ThreadInv'
<1> DEFINE P(u) ==
      /\ (task[u] # Null) <=> (pc[u] \in Working \cup {"start", "finish"})
      /\ pc[u] \in {"signal", "cas", "add"} => state[u] # "DidSignal"
      /\ pc[u] = "cas" => state[u] = "Assist"
      /\ pc[u] = "end" => state[u] = "DidSignal"
      /\ pc[u] \in {"cas", "add"} => value[u].ptr = task[u]
      /\ pc[u] = "join" => other[u] # u
<1>1. \A u \in Threads : P(u)
  BY DEF ThreadInv
<1>2. ASSUME NEW u \in Threads \ {t} PROVE P(u)'
  BY <1>1, <1>2, OwnLocals
<1>3. P(t)'
  <2> USE <1>1 DEF ProtocolTypeOK, Goto, shared, local, signal, Working
  <2> HIDE DEF P
  <2>1. P(t)
    BY <1>1
  <2>2. /\ Null \notin Addrs
        /\ NullPtr.ptr = Null
    BY ProtocolAssumption DEF NullPtr
  <2>3. CASE DoWork(t) \/ LookAround(t) \/ StartSingle(t) \/ CountDown(t)
    BY <2>3, <2>1 DEF P, DoWork, LookAround, StartSingle, CountDown
  <2>4. CASE PopTask(t)
    <3>1. task'[t] \in Addrs
      BY <2>4, DequePop DEF PopTask
    <3>2. QED
      BY <2>4, <2>2, <2>1, <3>1 DEF P, PopTask
  <2>5. CASE StealTask(t)
    <3>1. task'[t] \in Addrs
      BY <2>5, DequeSteal DEF StealTask
    <3>2. QED
      BY <2>5, <2>2, <2>1, <3>1 DEF P, StealTask
  <2>6. CASE StealNothing(t)
    <3>1. pc[t] = "steal" /\ pc'[t] \in {"steal", "loop", "check"} /\ task' = task
      BY <2>6 DEF StealNothing
    <3>2. QED
      BY <2>1, <3>1 DEF P
  <2>7. CASE CheckActivity(t)
    <3>1. CASE MayJoin(activities[other[t]])
      <4>1. pc[other[t]] # "check"
        BY <3>1 DEF MayJoin, SlotInv
      <4>2. pc[t] = "check" /\ pc'[t] = "join" /\ task' = task /\ other' = other
        BY <2>7, <3>1 DEF CheckActivity
      <4>3. QED
        BY <2>1, <4>1, <4>2 DEF P
    <3>2. CASE ~MayJoin(activities[other[t]])
      <4>1. pc[t] = "check" /\ pc'[t] \in {"loop", "check"} /\ task' = task
        BY <2>7, <3>2 DEF CheckActivity, VisitNext
      <4>2. QED
        BY <2>1, <4>1 DEF P
    <3>3. QED
      BY <3>1, <3>2
  <2>8. CASE JoinActivity(t)
    <3>1. CASE activities[other[t]].ptr = Null
      <4>1. pc[t] = "join" /\ pc'[t] \in {"loop", "check"} /\ task' = task
        BY <2>8, <3>1 DEF JoinActivity, VisitNext
      <4>2. QED
        BY <2>1, <4>1 DEF P
    <3>2. CASE activities[other[t]].ptr # Null
      <4>1. task'[t] # Null /\ pc'[t] = "enter"
        BY <2>8, <3>2 DEF JoinActivity
      <4>2. QED
        BY <4>1 DEF P
    <3>3. QED
      BY <3>1, <3>2
  <2>9. CASE StartLoop(t)
    BY <2>9, <2>1 DEF P, StartLoop
  <2>10. CASE EndTask(t)
    <3>1. \/ pc'[t] = "finish" /\ task' = task /\ pc[t] = "end"
          \/ pc'[t] = "loop" /\ task'[t] = Null
      BY <2>10 DEF EndTask, IsLast
    <3>2. QED
      BY <2>1, <3>1 DEF P
  <2>11. CASE ChunkLoop(t)
    <3>1. /\ pc[t] \in {"enter", "next", "body"}
          /\ pc'[t] \in {"enter", "next", "body", "signal", "end"}
          /\ pc'[t] = "signal" => state[t] # "DidSignal"
          /\ pc'[t] = "end" => state[t] = "DidSignal"
          /\ task' = task /\ state' = state
      BY <2>11 DEF ChunkLoop
    <3>2. QED
      BY <2>1, <3>1 DEF P
  <2>12. ASSUME NEW resume \in {"body", "end"}, TaskEmpty(t, resume)
         PROVE  P(t)'
    <3>1. ASSUME Signalled(t, resume), task' = task, pc[t] \in Working
          PROVE  P(t)'
      BY <2>1, <3>1 DEF P, Signalled
    <3>2. ASSUME NEW p, RetryWhileTask(t, p, resume), task' = task,
                 state[t] = "Assist", pc[t] \in {"signal", "cas"}
          PROVE  P(t)'
      <4>1. CASE p.ptr = task[t]
        BY <2>1, <3>2, <4>1 DEF P, RetryWhileTask
      <4>2. CASE p.ptr # task[t]
        BY <3>1, <3>2, <4>2 DEF RetryWhileTask
      <4>3. QED
        BY <4>1, <4>2
    <3>3. CASE SwapSlot(t, resume)
      <4>1. CASE activities[t].ptr = task[t]
        <5>1. /\ pc[t] = "signal" /\ pc'[t] = "add" /\ task' = task /\ state' = state
              /\ value'[t] = activities[t] /\ state[t] = "Main"
          BY <3>3, <4>1 DEF SwapSlot
        <5>2. QED
          BY <2>1, <4>1, <5>1 DEF P
      <4>2. CASE activities[t].ptr # task[t]
        <5>1. Signalled(t, resume) /\ task' = task /\ pc[t] \in Working
          BY <3>3, <4>2 DEF SwapSlot
        <5>2. QED
          BY <3>1, <5>1
      <4>3. QED
        BY <4>1, <4>2
    <3>4. CASE LoadSlot(t, resume)
      BY <3>2, <3>4 DEF LoadSlot
    <3>5. CASE CompareExchange(t, resume)
      <4>1. pc[t] = "cas" /\ state[t] = "Assist" /\ task' = task
        BY <2>1, <3>5 DEF P, CompareExchange
      <4>2. CASE CasMatches(t)
        <5>1. pc'[t] = "add" /\ state' = state /\ value' = value
          BY <3>5, <4>2 DEF CompareExchange
        <5>2. QED
          BY <2>1, <4>1, <5>1 DEF P
      <4>3. CASE ~CasMatches(t)
        BY <3>2, <3>5, <4>1, <4>3 DEF CompareExchange
      <4>4. QED
        BY <4>2, <4>3
    <3>6. CASE AddReferences(t, resume)
      <4>1. pc[t] = "add" /\ task' = task
        BY <3>6 DEF AddReferences
      <4>2. CASE state[t] = "Main"
        BY <3>1, <3>6, <4>1, <4>2 DEF AddReferences
      <4>3. CASE state[t] # "Main"
        <5>1. pc'[t] = "cas" /\ state' = state /\ value' = value
          BY <3>6, <4>3 DEF AddReferences
        <5>2. state[t] = "Assist"
          BY <2>1, <4>1, <4>3 DEF P
        <5>3. QED
          BY <2>1, <4>1, <5>1, <5>2 DEF P
      <4>4. QED
        BY <4>2, <4>3
    <3>7. QED
      BY <2>12, <3>3, <3>4, <3>5, <3>6 DEF TaskEmpty
  <2>13. CASE FreeTask(t)
    BY <2>13, <2>1 DEF P, FreeTask
  <2>14. CASE \E a \in Addrs, k \in {"single", "loop"} : SpawnTask(t, a, k)
    BY <2>14, <2>1 DEF P, SpawnTask
  <2>15. QED
    BY <2>3, <2>4, <2>5, <2>6, <2>7, <2>8, <2>9, <2>10, <2>11, <2>12, <2>13, <2>14
       DEF ThreadStep, ProtocolStep
<1>4. QED
  BY <1>2, <1>3 DEF ThreadInv

-----------------------------------------------------------------------------
(* SlotInv: a slot other than the one an action writes keeps its pointer,  *)
(* and only what the stepping thread does with the task can disturb it.    *)
LEMMA SlotStepInv ==
  ASSUME ProtocolTypeOK, QueueInv, ThreadInv, SlotInv, ExclusiveFinish,
         NEW t \in Threads, ThreadStep(t)
  PROVE  SlotInv'
<1> DEFINE Own(s)  == /\ task[s] = activities[s].ptr
                      /\ pc[s] \in {"enter", "next", "body", "signal"}
                      /\ state[s] = "Main"
           Joined(s, u) == task[u] = activities[s].ptr =>
                             state[u] = "Assist" /\ other[u] = s /\ pc[u] # "add"
           R(s) == activities[s].ptr # Null =>
                     Own(s) /\ \A u \in Threads \ {s} : Joined(s, u)
<1>1. \A s \in Threads : R(s)
  BY DEF SlotInv
<1>2. SUFFICES ASSUME NEW s \in Threads PROVE R(s)'
  BY DEF SlotInv
<1>3. ASSUME activities'[s].ptr # Null => activities'[s].ptr = activities[s].ptr,
             s = t => Own(t)',
             s # t => Joined(s, t)'
      PROVE  R(s)'
  BY <1>1, <1>3, OwnLocals

(* The slots are as they were, and the thread knows no task or loses it.   *)
<1>4. ASSUME activities' = activities, task'[t] = Null, ~Own(t)
      PROVE  R(s)'
  <2>1. CASE activities[s].ptr = Null
    BY <1>4, <2>1
  <2>2. CASE activities[s].ptr # Null
    <3>1. s # t
      BY <1>1, <1>4, <2>2
    <3>2. Joined(s, t)'
      BY <1>4, <2>2
    <3>3. QED
      BY <1>3, <1>4, <3>1, <3>2
  <2>3. QED
    BY <2>1, <2>2

(* The slots are as they were, and so is what the thread does for a task.  *)
<1>5. ASSUME activities' = activities, task' = task, state' = state, other' = other,
             pc[t] \in {"enter", "next", "body", "signal"}
                => pc'[t] \in {"enter", "next", "body", "signal"} \/ state[t] # "Main",
             pc'[t] # "add"
      PROVE  R(s)'
  BY <1>1, <1>3, <1>5
<1>6. (pc[t] \notin Working \cup {"start", "finish"}) => task[t] = Null /\ ~Own(t)
  BY DEF ThreadInv, Working
<1> HIDE DEF R, Own, Joined
<1> USE DEF ProtocolTypeOK, Goto, shared, local, signal
<1>7. CASE DoWork(t) \/ LookAround(t) \/ StealNothing(t) \/ CountDown(t)
  BY <1>4, <1>6, <1>7 DEF DoWork, LookAround, StealNothing, CountDown, Working
<1>8. CASE CheckActivity(t)
  BY <1>4, <1>6, <1>8 DEF CheckActivity, Working
<1>9. CASE StartSingle(t)
  BY <1>5, <1>9 DEF StartSingle
<1>10. CASE ChunkLoop(t)
  <2>1. /\ pc[t] \in {"enter", "next", "body"}
        /\ pc'[t] \in {"enter", "next", "body", "signal"} \/ state[t] # "Main"
        /\ pc'[t] # "add"
        /\ activities' = activities /\ task' = task /\ state' = state /\ other' = other
    BY <1>10 DEF ChunkLoop
  <2>2. QED
    BY <1>5, <2>1
<1>11. ASSUME NEW a \in Addrs, Queued(a), task' = [task EXCEPT ![t] = a], task[t] = Null,
              activities' = activities
       PROVE  R(s)'
  <2>1. \A u \in Threads : task[u] # a
    BY <1>11 DEF QueueInv
  <2>2. CASE activities[s].ptr = Null
    BY <1>11, <2>2 DEF R
  <2>3. CASE activities[s].ptr # Null
    <3>1. activities[s].ptr # a /\ s # t
      BY <1>1, <1>11, <2>1, <2>3 DEF R, Own
    <3>2. Joined(s, t)'
      BY <1>11, <3>1 DEF Joined
    <3>3. QED
      BY <1>3, <1>11, <3>1, <3>2
  <2>4. QED
    BY <2>2, <2>3
<1>12. CASE PopTask(t)
  <2>1. /\ deque[t] \in Seq(Addrs) /\ deque[t] # <<>>
        /\ Len(deque[t]) \in DOMAIN deque[t]
        /\ deque[t][Len(deque[t])] \in Addrs
    BY <1>12, DequePop, DequePositions DEF PopTask
  <2>2. Queued(deque[t][Len(deque[t])])
    BY <2>1 DEF Queued
  <2>3. QED
    BY <1>6, <1>11, <1>12, <2>1, <2>2 DEF PopTask, Working
<1>13. CASE StealTask(t)
  <2>1. /\ deque[other[t]] \in Seq(Addrs) /\ deque[other[t]] # <<>>
        /\ 1 \in DOMAIN deque[other[t]]
        /\ Head(deque[other[t]]) = deque[other[t]][1]
        /\ deque[other[t]][1] \in Addrs
    BY <1>13, DequeSteal, DequePositions DEF StealTask
  <2>2. Queued(Head(deque[other[t]]))
    BY <2>1 DEF Queued
  <2>3. QED
    BY <1>6, <1>11, <1>13, <2>1, <2>2 DEF StealTask, Working
<1>14. CASE JoinActivity(t)
  <2>1. task[t] = Null /\ ~Own(t) /\ other[t] # t
    BY <1>6, <1>14 DEF JoinActivity, Working, ThreadInv
  <2>2. activities'[s].ptr = activities[s].ptr
    BY <1>14 DEF JoinActivity, FetchAddTag
  <2>3. CASE activities[s].ptr = Null
    BY <2>2, <2>3 DEF R
  <2>4. CASE activities[s].ptr # Null
    <3>1. s # t
      BY <1>1, <2>1, <2>4 DEF R
    <3>2. CASE activities[other[t]].ptr = Null
      <4>1. task' = task
        BY <1>14, <3>2 DEF JoinActivity
      <4>2. QED
        BY <1>3, <2>1, <2>2, <2>4, <3>1, <4>1 DEF Joined
    <3>3. CASE activities[other[t]].ptr # Null
      <4>1. /\ task'[t] = activities[other[t]].ptr /\ other'[t] = other[t]
            /\ state'[t] = "Assist" /\ pc'[t] = "enter"
        BY <1>14, <3>3 DEF JoinActivity
      <4>2. activities[other[t]].ptr = activities[s].ptr => other[t] = s
        BY <1>1, <2>4, <3>3 DEF R, Own, Joined
      <4>3. QED
        BY <1>3, <2>2, <3>1, <4>1, <4>2 DEF Joined
    <3>4. QED
      BY <3>2, <3>3
  <2>5. QED
    BY <2>3, <2>4
<1>15. CASE StartLoop(t)
  <2>1. /\ pc[t] = "start" /\ task[t] \in Addrs /\ task' = task
        /\ activities' = [activities EXCEPT ![t] = [ptr |-> task[t], tag |-> 0]]
        /\ pc'[t] = "enter" /\ state'[t] = "Main"
    BY <1>15, TaskIsAddress DEF StartLoop, Working
  <2>2. \A u \in Threads \ {t} : task[u] # task[t]
    BY <2>1, ProtocolAssumption DEF ExclusiveFinish
  <2>3. CASE s = t
    <3>1. Own(t)'
      BY <2>1 DEF Own
    <3>2. \A u \in Threads \ {t} : Joined(t, u)'
      BY <2>1, <2>2 DEF Joined
    <3>3. QED
      BY <2>3, <3>1, <3>2 DEF R
  <2>4. CASE s # t
    <3>1. activities'[s] = activities[s]
      BY <2>1, <2>4
    <3>2. activities[s].ptr # Null => activities[s].ptr # task[t]
      BY <1>1, <2>2, <2>4 DEF R, Own
    <3>3. CASE activities[s].ptr = Null
      BY <3>1, <3>3 DEF R
    <3>4. CASE activities[s].ptr # Null
      <4>1. Joined(s, t)'
        BY <2>1, <3>1, <3>2, <3>4 DEF Joined
      <4>2. QED
        BY <1>3, <2>4, <3>1, <4>1
    <3>5. QED
      BY <3>3, <3>4
  <2>5. QED
    BY <2>3, <2>4
<1>16. CASE EndTask(t)
  <2>1. /\ state[t] = "DidSignal" /\ activities' = activities
        /\ task'[t] = task[t] \/ task'[t] = Null
    BY <1>16 DEF EndTask, ThreadInv
  <2>2. CASE activities[s].ptr = Null
    BY <2>1, <2>2 DEF R
  <2>3. CASE activities[s].ptr # Null
    <3>1. s # t /\ task[t] # activities[s].ptr
      BY <1>1, <2>1, <2>3 DEF R, Own, Joined
    <3>2. Joined(s, t)'
      BY <2>1, <2>3, <3>1 DEF Joined
    <3>3. QED
      BY <1>3, <2>1, <3>1, <3>2
  <2>4. QED
    BY <2>2, <2>3
<1>17. ASSUME NEW resume \in {"body", "end"}, TaskEmpty(t, resume)
       PROVE  R(s)'
  <2>1. ASSUME task' = task, other' = other,
               \A u \in Threads : activities'[u].ptr # Null =>
                  activities'[u].ptr = activities[u].ptr /\ activities[u].ptr # task[t]
        PROVE  R(s)'
    <3>1. CASE activities'[s].ptr = Null
      BY <3>1 DEF R
    <3>2. CASE activities'[s].ptr # Null
      <4>1. /\ activities'[s].ptr = activities[s].ptr
            /\ activities[s].ptr # task[t]
            /\ activities[s].ptr # Null
        BY <2>1, <3>2
      <4>2. s # t
        BY <1>1, <4>1 DEF R, Own
      <4>3. Joined(s, t)'
        BY <2>1, <4>1 DEF Joined
      <4>4. QED
        BY <1>3, <4>1, <4>2, <4>3
    <3>3. QED
      BY <3>1, <3>2
  (* After the signal no slot holds the task any more.                     *)
  <2>2. ASSUME state[t] = "Main", pc[t] \in Working
        PROVE  \A u \in Threads \ {t} : activities[u].ptr # Null => activities[u].ptr # task[t]
    BY <1>1, <2>2 DEF R, Joined
  <2>3. ASSUME state[t] = "Assist", pc[t] \in Working
        PROVE  \A u \in Threads \ {other[t]} :
                  activities[u].ptr # Null => activities[u].ptr # task[t]
    BY <1>1, <2>3 DEF R, Own, Joined
  <2>4. CASE SwapSlot(t, resume)
    <3>1. /\ pc[t] = "signal" /\ state[t] = "Main" /\ task' = task /\ other' = other
          /\ activities' = [activities EXCEPT ![t] = NullPtr]
      BY <2>4 DEF SwapSlot
    <3>2. \A u \in Threads : activities'[u].ptr # Null =>
             u # t /\ activities'[u].ptr = activities[u].ptr
      BY <3>1 DEF NullPtr
    <3>3. QED
      BY <2>1, <2>2, <3>1, <3>2 DEF Working
  <2>5. ASSUME NEW p, RetryWhileTask(t, p, resume), p = activities[other[t]],
               activities' = activities, task' = task, other' = other,
               state[t] = "Assist", pc[t] \in {"signal", "cas"}
        PROVE  R(s)'
    <3>1. CASE p.ptr = task[t]
      <4>1. pc'[t] = "cas" /\ state' = state
        BY <2>5, <3>1 DEF RetryWhileTask
      <4>2. QED
        BY <1>5, <2>5, <4>1
    <3>2. CASE p.ptr # task[t]
      BY <2>1, <2>3, <2>5, <3>2 DEF Working
    <3>3. QED
      BY <3>1, <3>2
  <2>6. CASE LoadSlot(t, resume)
    BY <2>5, <2>6 DEF LoadSlot, SlotOf
  <2>7. CASE CompareExchange(t, resume)
    <3>1. pc[t] = "cas" /\ state[t] = "Assist" /\ task' = task /\ other' = other
      BY <2>7 DEF CompareExchange, ThreadInv
    <3>2. CASE CasMatches(t)
      <4>1. activities' = [activities EXCEPT ![other[t]] = NullPtr]
        BY <2>7, <3>2 DEF CompareExchange, SlotOf
      <4>2. \A u \in Threads : activities'[u].ptr # Null =>
               u # other[t] /\ activities'[u].ptr = activities[u].ptr
        BY <4>1 DEF NullPtr
      <4>3. QED
        BY <2>1, <2>3, <3>1, <4>2 DEF Working
    <3>3. CASE ~CasMatches(t)
      BY <2>5, <2>7, <3>1, <3>3 DEF CompareExchange, SlotOf
    <3>4. QED
      BY <3>2, <3>3
  <2>8. CASE AddReferences(t, resume)
    <3>1. pc[t] = "add" /\ task' = task /\ other' = other /\ activities' = activities
      BY <2>8 DEF AddReferences
    <3>2. \A u \in Threads : activities[u].ptr # Null => activities[u].ptr # task[t]
      BY <1>1, <3>1 DEF R, Own, Joined
    <3>3. QED
      BY <2>1, <3>1, <3>2
  <2>9. QED
    BY <1>17, <2>4, <2>6, <2>7, <2>8 DEF TaskEmpty
<1>18. CASE FreeTask(t)
  <2>1. pc[t] = "finish" /\ activities' = activities /\ task'[t] = Null
    BY <1>18 DEF FreeTask
  <2>2. ~Own(t)
    BY <2>1 DEF Own
  <2>3. QED
    BY <1>4, <2>1, <2>2
<1>19. CASE \E a \in Addrs, k \in {"single", "loop"} : SpawnTask(t, a, k)
  <2>1. activities' = activities /\ task' = task /\ state' = state /\ other' = other /\ pc' = pc
        /\ pc[t] # "add"
    BY <1>19 DEF SpawnTask
  <2>2. QED
    BY <1>5, <2>1
<1>20. QED
  BY <1>7, <1>8, <1>9, <1>10, <1>12, <1>13, <1>14, <1>15, <1>16, <1>17, <1>18, <1>19
     DEF ThreadStep, ProtocolStep

-----------------------------------------------------------------------------
(* QueueInv: a task leaves a deque for the thread that takes it; a new one *)
(* gets an address that is free, so in no deque and known to no thread.    *)
LEMMA QueueStepInv ==
  ASSUME ProtocolTypeOK, QueueInv, ThreadInv, SlotInv, ExclusiveFinish,
         NEW t \in Threads, ThreadStep(t)
  PROVE  QueueInv'
<1> USE DEF ProtocolTypeOK, Goto, shared, local, signal
<1>1. \A u \in Threads : /\ deque[u] \in Seq(Addrs)
                         /\ Len(deque[u]) \in Nat
                         /\ DOMAIN deque[u] = 1 .. Len(deque[u])
                         /\ \A i \in DOMAIN deque[u] : deque[u][i] \in Addrs
  BY DequePositions
<1>2. \A u, v \in Threads : \A i \in DOMAIN deque[u], j \in DOMAIN deque[v] :
         deque[u][i] = deque[v][j] => u = v /\ i = j
  BY DEF QueueInv
<1>3. \A a \in Addrs : Queued(a) => kind[a] # "free" /\ \A u \in Threads : task[u] # a
  BY DEF QueueInv

(* The deques are untouched.                                               *)
<1>4. ASSUME deque' = deque,
             \A a \in Addrs : Queued(a) => kind'[a] = kind[a] /\ task'[t] # a
      PROVE  QueueInv'
  <2>1. \A a \in Addrs : Queued(a)' <=> Queued(a)
    BY <1>4 DEF Queued
  <2>2. \A a \in Addrs : Queued(a) => kind'[a] # "free" /\ \A u \in Threads : task'[u] # a
    BY <1>3, <1>4, OwnLocals
  <2>3. \A u, v \in Threads : \A i \in DOMAIN deque'[u], j \in DOMAIN deque'[v] :
           deque'[u][i] = deque'[v][j] => u = v /\ i = j
    BY <1>2, <1>4
  <2>4. QED
    BY <2>1, <2>2, <2>3 DEF QueueInv

(* Thread o's deque lost its task at position p, which t has now; f says   *)
(* where each of the others was.                                           *)
<1> DEFINE Taken(o, p, d, f) ==
      /\ o \in Threads /\ p \in DOMAIN deque[o]
      /\ deque' = [deque EXCEPT ![o] = d]
      /\ \A i \in DOMAIN d : f[i] \in DOMAIN deque[o] /\ f[i] # p /\ d[i] = deque[o][f[i]]
      /\ \A i, j \in DOMAIN d : f[i] = f[j] => i = j
      /\ task' = [task EXCEPT ![t] = deque[o][p]]
      /\ kind' = kind
<1>5. ASSUME NEW o, NEW p, NEW d, NEW f, Taken(o, p, d, f)
      PROVE  QueueInv'
  <2> DEFINE Old(u, i) == IF u = o THEN f[i] ELSE i
  <2>1. ASSUME NEW u \in Threads, NEW i \in DOMAIN (deque'[u])
        PROVE  /\ Old(u, i) \in DOMAIN deque[u]
               /\ deque'[u][i] = deque[u][Old(u, i)]
               /\ deque'[u][i] # deque[o][p]
    <3>1. CASE u = o
      <4>1. i \in DOMAIN d /\ deque'[u][i] = d[i]
        BY <1>5, <2>1, <3>1
      <4>2. QED
        BY <1>2, <1>5, <3>1, <4>1
    <3>2. CASE u # o
      <4>1. deque'[u] = deque[u] /\ i \in DOMAIN deque[u]
        BY <1>5, <2>1, <3>2
      <4>2. deque[u][i] # deque[o][p]
        BY <1>2, <1>5, <3>2, <4>1
      <4>3. QED
        BY <3>2, <4>1, <4>2
    <3>3. QED
      BY <3>1, <3>2
  <2>2. ASSUME NEW u \in Threads, NEW v \in Threads,
               NEW i \in DOMAIN (deque'[u]), NEW j \in DOMAIN (deque'[v]),
               deque'[u][i] = deque'[v][j]
        PROVE  u = v /\ i = j
    <3>1. /\ deque[u][Old(u, i)] = deque[v][Old(v, j)]
          /\ Old(u, i) \in DOMAIN deque[u] /\ Old(v, j) \in DOMAIN deque[v]
      BY <2>1, <2>2
    <3>2. u = v /\ Old(u, i) = Old(v, j)
      <4> HIDE DEF Old
      <4>1. QED
        BY <1>2, <3>1
    <3>3. CASE u = o
      BY <1>5, <2>2, <3>2, <3>3
    <3>4. QED
      BY <3>2, <3>3
  <2>3. ASSUME NEW a \in Addrs, Queued(a)'
        PROVE  kind'[a] # "free" /\ \A u \in Threads : task'[u] # a
    <3>1. PICK u \in Threads : \E i \in DOMAIN deque'[u] : deque'[u][i] = a
      BY <2>3 DEF Queued
    <3>2. PICK i \in DOMAIN (deque'[u]) : deque'[u][i] = a
      BY <3>1
    <3>3. deque[u][Old(u, i)] = a /\ Old(u, i) \in DOMAIN deque[u] /\ a # deque[o][p]
      BY <2>1, <3>2
    <3>4. Queued(a)
      BY <3>3 DEF Queued
    <3>5. QED
      BY <1>3, <1>5, <3>3, <3>4
  <2>4. QED
    BY <2>2, <2>3 DEF QueueInv
<1>6. CASE PopTask(t)
  <2> DEFINE p == Len(deque[t])
             d == SubSeq(deque[t], 1, p - 1)
             f == [i \in 1 .. p - 1 |-> i]
  <2>1. /\ deque[t] \in Seq(Addrs) /\ deque[t] # <<>>
        /\ task' = [task EXCEPT ![t] = deque[t][p]]
        /\ deque' = [deque EXCEPT ![t] = d]
        /\ kind' = kind
    BY <1>1, <1>6 DEF PopTask
  <2>2. /\ d \in Seq(Addrs)
        /\ DOMAIN d = 1 .. p - 1
        /\ \A i \in 1 .. p - 1 : d[i] = deque[t][i]
        /\ p \in Nat \ {0} /\ DOMAIN deque[t] = 1 .. p
    BY <1>1, <2>1, DequePop
  <2> HIDE DEF d, p
  <2>3. \A i \in DOMAIN d : f[i] \in DOMAIN deque[t] /\ f[i] # p /\ d[i] = deque[t][f[i]]
    BY <2>2
  <2>4. \A i, j \in DOMAIN d : f[i] = f[j] => i = j
    BY <2>2
  <2>5. p \in DOMAIN deque[t]
    BY <2>2
  <2> HIDE DEF f
  <2>6. Taken(t, p, d, f)
    BY <2>1, <2>2, <2>3, <2>4, <2>5
  <2> HIDE DEF Taken
  <2>7. QED
    BY <1>5, <2>6
<1>7. CASE StealTask(t)
  <2> DEFINE o == other[t]
             n == Len(deque[o])
             d == Tail(deque[o])
             one == 1
             f == [i \in 1 .. n - 1 |-> i + 1]
  <2>1. /\ o \in Threads /\ deque[o] \in Seq(Addrs) /\ deque[o] # <<>>
        /\ task' = [task EXCEPT ![t] = Head(deque[o])]
        /\ deque' = [deque EXCEPT ![o] = d]
        /\ kind' = kind
    BY <1>1, <1>7 DEF StealTask
  <2> HIDE DEF o
  <2>2. /\ d \in Seq(Addrs)
        /\ DOMAIN d = 1 .. n - 1
        /\ \A i \in 1 .. n - 1 : d[i] = deque[o][i + 1]
        /\ n \in Nat \ {0} /\ DOMAIN deque[o] = 1 .. n
        /\ Head(deque[o]) = deque[o][one]
    BY <1>1, <2>1, DequeSteal
  <2> HIDE DEF d, n
  <2>3. ASSUME NEW i \in DOMAIN d
        PROVE  i \in Int /\ f[i] = i + 1 /\ f[i] \in DOMAIN deque[o] /\ f[i] # one
               /\ d[i] = deque[o][f[i]]
    <3>1. i \in 1 .. n - 1
      BY <2>2
    <3>2. n \in Nat
      BY <2>2
    <3>3. i \in Int /\ i + 1 \in 1 .. n /\ i + 1 # 1
      BY <3>2, <3>1
    <3>4. f[i] = i + 1
      BY <3>1
    <3>5. QED
      BY <2>2, <3>1, <3>3, <3>4
  <2>4. \A i, j \in DOMAIN d : f[i] = f[j] => i = j
    BY <2>3
  <2>5. one \in DOMAIN deque[o]
    BY <2>2
  <2>6. task' = [task EXCEPT ![t] = deque[o][one]]
    BY <2>1, <2>2
  <2> HIDE DEF f, one
  <2>7. Taken(o, one, d, f)
    BY <2>1, <2>2, <2>3, <2>4, <2>5, <2>6
  <2> HIDE DEF Taken
  <2>8. QED
    BY <1>5, <2>7
<1>8. ASSUME deque' = deque, kind' = kind, task'[t] \in {task[t], Null}
      PROVE  QueueInv'
  BY <1>3, <1>4, <1>8, ProtocolAssumption
<1>9. CASE DoWork(t) \/ LookAround(t) \/ StealNothing(t) \/ StartSingle(t) \/ CountDown(t)
  BY <1>8, <1>9 DEF DoWork, LookAround, StealNothing, StartSingle, CountDown
<1>10. CASE CheckActivity(t) \/ StartLoop(t)
  BY <1>8, <1>10 DEF CheckActivity, StartLoop
<1>11. CASE JoinActivity(t)
  <2>1. CASE activities[other[t]].ptr = Null
    <3>1. deque' = deque /\ kind' = kind /\ task' = task
      BY <1>11, <2>1 DEF JoinActivity
    <3>2. QED
      BY <1>8, <3>1
  <2>2. CASE activities[other[t]].ptr # Null
    <3>1. deque' = deque /\ kind' = kind /\ task'[t] = activities[other[t]].ptr
      BY <1>11, <2>2 DEF JoinActivity
    <3>2. task[other[t]] = activities[other[t]].ptr
      BY <2>2 DEF SlotInv
    <3>3. QED
      BY <1>3, <1>4, <3>1, <3>2
  <2>3. QED
    BY <2>1, <2>2
<1>12. CASE EndTask(t)
  <2>1. deque' = deque /\ kind' = kind /\ task'[t] \in {task[t], Null}
    BY <1>12 DEF EndTask
  <2>2. QED
    BY <1>8, <2>1
<1>13. CASE ChunkLoop(t)
  BY <1>8, <1>13 DEF ChunkLoop
<1>14. ASSUME NEW resume \in {"body", "end"}, TaskEmpty(t, resume)
       PROVE  QueueInv'
  <2>1. deque' = deque /\ kind' = kind /\ task' = task
    BY <1>14 DEF TaskEmpty, SwapSlot, LoadSlot, CompareExchange, AddReferences
  <2>2. QED
    BY <1>8, <2>1
<1>15. CASE FreeTask(t)
  <2>1. /\ task[t] \in Addrs /\ deque' = deque /\ task'[t] = Null
        /\ kind' = [kind EXCEPT ![task[t]] = "free"]
    BY <1>15, TaskIsAddress DEF FreeTask
  <2>2. \A a \in Addrs : Queued(a) => a # task[t]
    BY <1>3
  <2>3. QED
    BY <1>4, <2>1, <2>2, ProtocolAssumption
<1>16. ASSUME NEW a \in Addrs, NEW k \in {"single", "loop"}, SpawnTask(t, a, k)
       PROVE  QueueInv'
  <2>1. /\ kind[a] = "free" /\ kind' = [kind EXCEPT ![a] = k] /\ task' = task
        /\ deque' = [deque EXCEPT ![t] = Append(deque[t], a)]
    BY <1>16 DEF SpawnTask
  <2>2. ~Queued(a) /\ \A u \in Threads : task[u] # a
    BY <1>3, <2>1, ProtocolAssumption DEF ExclusiveFinish
  <2> DEFINE d == Append(deque[t], a)
  <2>3. /\ DOMAIN d = 1 .. Len(deque[t]) + 1
        /\ \A i \in 1 .. Len(deque[t]) : d[i] = deque[t][i]
        /\ d[Len(deque[t]) + 1] = a
    BY <1>1, DequePush
  <2>4. deque' = [deque EXCEPT ![t] = d]
    BY <2>1
  <2> HIDE DEF d
  <2>5. \A u \in Threads : \A i \in DOMAIN deque[u] : deque[u][i] # a
    BY <2>2 DEF Queued
  <2>6. \A u \in Threads : \A i \in DOMAIN deque'[u] :
           \/ i \in DOMAIN deque[u] /\ deque'[u][i] = deque[u][i] /\ deque[u][i] # a
           \/ u = t /\ i = Len(deque[t]) + 1 /\ deque'[u][i] = a
    <3>1. ASSUME NEW i \in DOMAIN d
          PROVE  \/ i \in DOMAIN deque[t] /\ d[i] = deque[t][i] /\ deque[t][i] # a
                 \/ i = Len(deque[t]) + 1 /\ d[i] = a
      <4>1. /\ Len(deque[t]) \in Nat /\ DOMAIN deque[t] = 1 .. Len(deque[t])
            /\ i \in 1 .. Len(deque[t]) + 1
        BY <1>1, <2>3, <3>1
      <4>2. CASE i \in 1 .. Len(deque[t])
        BY <2>5, <2>3, <4>1, <4>2
      <4>3. CASE i = Len(deque[t]) + 1
        BY <2>3, <4>3
      <4>4. QED
        BY <4>1, <4>2, <4>3
    <3>2. \A u \in Threads : deque'[u] = IF u = t THEN d ELSE deque[u]
      BY <2>4
    <3>3. QED
      BY <2>5, <3>1, <3>2
  <2>7. \A b \in Addrs : Queued(b)' => Queued(b) \/ b = a
    BY <2>6 DEF Queued
  <2>8. \A u, v \in Threads : \A i \in DOMAIN deque'[u], j \in DOMAIN deque'[v] :
           deque'[u][i] = deque'[v][j] => u = v /\ i = j
    <3>1. ASSUME NEW u \in Threads, NEW v \in Threads,
                 NEW i \in DOMAIN (deque'[u]), NEW j \in DOMAIN (deque'[v]),
                 deque'[u][i] = deque'[v][j]
          PROVE  u = v /\ i = j
      <4>1. \/ i \in DOMAIN deque[u] /\ deque'[u][i] = deque[u][i] /\ deque[u][i] # a
            \/ u = t /\ i = Len(deque[t]) + 1 /\ deque'[u][i] = a
        BY <2>6, <3>1
      <4>2. \/ j \in DOMAIN deque[v] /\ deque'[v][j] = deque[v][j] /\ deque[v][j] # a
            \/ v = t /\ j = Len(deque[t]) + 1 /\ deque'[v][j] = a
        BY <2>6, <3>1
      <4>3. QED
        BY <1>2, <3>1, <4>1, <4>2
    <3>2. QED
      BY <3>1
  <2>9. \A b \in Addrs : Queued(b)' => kind'[b] # "free" /\ \A u \in Threads : task'[u] # b
    BY <1>3, <2>1, <2>2, <2>7
  <2>10. QED
    BY <2>8, <2>9 DEF QueueInv
<1>17. QED
  BY <1>6, <1>7, <1>9, <1>10, <1>11, <1>12, <1>13, <1>14, <1>15, <1>16
     DEF ThreadStep, ProtocolStep

-----------------------------------------------------------------------------
(* The reference count.                                                    *)

(* At most one slot holds a task, and nobody has taken it from there yet.  *)
LEMMA PublishedOnce ==
  ASSUME ProtocolTypeOK, ThreadInv, SlotInv, NEW a \in Addrs,
         NEW s \in Threads, activities[s].ptr = a
  PROVE  /\ \A u \in Threads : activities[u].ptr = a => u = s
         /\ Adding(a) = {}
         /\ s \in Users(a)
BY ProtocolAssumption DEF SlotInv, Adding, Users, Working

(* A thread about to add references has just emptied a slot of its task.   *)
LEMMA EntersAdd ==
  ASSUME ProtocolTypeOK, ThreadInv, SlotInv, NEW t \in Threads, ThreadStep(t),
         pc'[t] = "add"
  PROVE  /\ task[t] \in Addrs /\ task' = task
         /\ \E s \in Threads : activities[s].ptr = task[t]
<1> USE DEF ProtocolTypeOK, Goto, shared, local, signal
<1>1. ASSUME NEW resume \in {"body", "end"}, TaskEmpty(t, resume)
      PROVE  /\ task[t] \in Addrs /\ task' = task
             /\ \E s \in Threads : activities[s].ptr = task[t]
  <2>1. task[t] \in Addrs /\ task' = task
    BY <1>1, TaskIsAddress
       DEF TaskEmpty, SwapSlot, LoadSlot, CompareExchange, AddReferences, Working
  <2>2. CASE SwapSlot(t, resume)
    <3>1. activities[t].ptr = task[t]
      BY <2>2 DEF SwapSlot, Signalled
    <3>2. QED
      BY <2>1, <3>1
  <2>3. CASE LoadSlot(t, resume)
    <3>1. pc'[t] # "add"
      BY <2>3 DEF LoadSlot, RetryWhileTask, Signalled
    <3>2. QED
      BY <3>1
  <2>4. CASE CompareExchange(t, resume)
    <3>1. CasMatches(t) /\ pc[t] = "cas"
      BY <2>4 DEF CompareExchange, RetryWhileTask, Signalled
    <3>2. activities[other[t]].ptr = task[t]
      BY <3>1 DEF CasMatches, SlotOf, ThreadInv
    <3>3. QED
      BY <2>1, <3>2
  <2>5. CASE AddReferences(t, resume)
    <3>1. pc'[t] # "add"
      BY <2>5 DEF AddReferences, Signalled
    <3>2. QED
      BY <3>1
  <2>6. QED
    BY <1>1, <2>2, <2>3, <2>4, <2>5 DEF TaskEmpty
<1>2. ASSUME ProtocolStep(t) PROVE FALSE
  BY <1>2 DEF ProtocolStep, DoWork, PopTask, LookAround, StealTask, StealNothing,
     CheckActivity, JoinActivity, VisitNext, StartSingle, StartLoop, EndTask, CountDown
<1>3. ~ChunkLoop(t)
  BY DEF ChunkLoop
<1>4. ~FreeTask(t) /\ ~\E a \in Addrs, k \in {"single", "loop"} : SpawnTask(t, a, k)
  BY DEF FreeTask, SpawnTask
<1>5. QED
  BY <1>1, <1>2, <1>3, <1>4 DEF ThreadStep

(* AddInv: a slot is emptied by one thread, and a task is in one slot, so  *)
(* no second thread starts to carry its references over.                   *)
LEMMA AddStepInv ==
  ASSUME ProtocolTypeOK, ThreadInv, SlotInv, AddInv, NEW t \in Threads, ThreadStep(t)
  PROVE  AddInv'
<1>1. SUFFICES ASSUME NEW u \in Threads, NEW v \in Threads \ {u},
                      pc'[u] = "add", task'[v] = task'[u], pc'[v] = "add"
               PROVE  FALSE
  BY DEF AddInv
<1>2. CASE u # t /\ v # t
  BY <1>1, <1>2, OwnLocals DEF AddInv
<1>3. ASSUME NEW w \in Threads \ {t}, pc'[w] = "add", pc'[t] = "add", task'[w] = task'[t]
      PROVE  FALSE
  <2>1. PICK s \in Threads : activities[s].ptr = task[t]
    BY <1>3, EntersAdd
  <2>2. task[t] \in Addrs /\ task' = task
    BY <1>3, EntersAdd
  <2>3. Adding(task[t]) = {}
    BY <2>1, <2>2, PublishedOnce
  <2>4. w \in Adding(task[t])
    BY <1>3, <2>2, OwnLocals DEF Adding, Users, Working
  <2>5. QED
    BY <2>3, <2>4
<1>4. QED
  BY <1>1, <1>2, <1>3

(* The number of users with one more and one less.                         *)
LEMMA UserCount ==
  ASSUME NEW S \in SUBSET Threads, NEW t \in Threads
  PROVE  /\ Cardinality(S) \in Nat
         /\ t \notin S => Cardinality(S \cup {t}) = Cardinality(S) + 1
         /\ t \in S => Cardinality(S \ {t}) = Cardinality(S) - 1
         /\ Cardinality(S) = 0 => S = {}
         /\ Cardinality({}) = 0
BY FiniteParts, FS_AddElement, FS_RemoveElement, FS_EmptySet

(* ReferenceCount: joining adds to the tag, emptying the slot takes the    *)
(* tag away, AddReferences brings it to active_threads and EndTask takes   *)
(* one off; no other step touches the references or the users of a task.   *)
LEMMA ReferenceCountStepInv ==
  ASSUME ProtocolTypeOK, QueueInv, ThreadInv, SlotInv, AddInv, ReferenceCount,
         ExclusiveFinish, NEW t \in Threads, ThreadStep(t)
  PROVE  ReferenceCount'
<1> DEFINE RC(a) ==
      /\ \A s \in Threads : activities[s].ptr = a =>
           active_threads[a] = 0 /\ Cardinality(Users(a)) = activities[s].tag + 1
      /\ \A u \in Adding(a) :
           /\ active_threads[a] <= 0
           /\ active_threads[a] + value[u].tag + 1 = Cardinality(Users(a))
      /\ ~Published(a) /\ Adding(a) = {} => active_threads[a] = Cardinality(Users(a))
<1> SUFFICES ASSUME NEW a \in Addrs PROVE RC(a)'
  BY DEF ReferenceCount
<1>1. RC(a)
  BY DEF ReferenceCount
<1> USE DEF ProtocolTypeOK, Goto, shared, local, signal
<1>2. Null \notin Addrs /\ NullPtr.ptr = Null
  BY ProtocolAssumption DEF NullPtr

(* The step does not concern a.                                            *)
<1>3. ASSUME \A s \in Threads :
               /\ activities'[s].ptr = a <=> activities[s].ptr = a
               /\ activities[s].ptr = a => activities'[s] = activities[s],
             active_threads'[a] = active_threads[a],
             (t \in Users(a))' <=> t \in Users(a),
             pc[t] # "add" \/ task[t] # a, pc'[t] # "add" \/ task'[t] # a
      PROVE  RC(a)'
  <2>1. Users(a)' = Users(a)
    <3>1. \A u \in Threads \ {t} : (u \in Users(a))' <=> u \in Users(a)
      BY OwnLocals DEF Users
    <3>2. \A u \in Threads : (u \in Users(a))' <=> u \in Users(a)
      BY <1>3, <3>1
    <3>3. QED
      BY <3>2 DEF Users
  <2>2. Adding(a)' = Adding(a) /\ \A u \in Adding(a) : value'[u] = value[u]
    BY <1>3, OwnLocals DEF Adding, Users
  <2>3. Published(a)' <=> Published(a)
    BY <1>3 DEF Published
  <2>4. ASSUME NEW s \in Threads, activities'[s].ptr = a
        PROVE  active_threads'[a] = 0 /\ Cardinality(Users(a)') = activities'[s].tag + 1
    BY <1>1, <1>3, <2>1, <2>4
  <2>5. ASSUME NEW u \in Adding(a)'
        PROVE  /\ active_threads'[a] <= 0
               /\ active_threads'[a] + value'[u].tag + 1 = Cardinality(Users(a)')
    <3>1. u \in Adding(a) /\ value'[u] = value[u]
      BY <2>2, <2>5
    <3>2. /\ active_threads[a] <= 0
          /\ active_threads[a] + value[u].tag + 1 = Cardinality(Users(a))
      BY <1>1, <3>1
    <3>3. QED
      BY <1>3, <2>1, <3>1, <3>2
  <2>6. ~Published(a)' /\ Adding(a)' = {} => active_threads'[a] = Cardinality(Users(a)')
    BY <1>1, <1>3, <2>1, <2>2, <2>3
  <2>7. QED
    BY <2>4, <2>5, <2>6
<1>4. ASSUME activities' = activities, active_threads' = active_threads,
             pc[t] \notin Working, pc'[t] \notin Working
      PROVE  RC(a)'
  BY <1>3, <1>4 DEF Users, Working
<1>5. ASSUME activities' = activities, active_threads' = active_threads, task' = task,
             pc[t] \in Working \ {"add"}, pc'[t] \in Working \ {"add"}
      PROVE  RC(a)'
  BY <1>3, <1>5 DEF Users, Working

(* Thread t has emptied slot s of its task, and carries its references.    *)
<1>6. ASSUME NEW s \in Threads, activities[s].ptr = task[t], task[t] \in Addrs,
             activities' = [activities EXCEPT ![s] = NullPtr],
             active_threads' = active_threads, task' = task,
             pc[t] \in Working, pc'[t] = "add", value'[t] = activities[s]
      PROVE  RC(a)'
  <2>1. CASE task[t] = a
    <3>1. /\ \A u \in Threads : activities[u].ptr = a => u = s
          /\ Adding(a) = {}
      BY <1>6, <2>1, PublishedOnce
    <3>2. active_threads[a] = 0 /\ Cardinality(Users(a)) = activities[s].tag + 1
      BY <1>1, <1>6, <2>1
    <3>3. ~Published(a)'
      BY <1>6, <1>2, <3>1 DEF Published
    <3>4. Users(a)' = Users(a)
      BY <1>6, OwnLocals DEF Users, Working
    <3>5. Adding(a)' = {t}
      BY <1>6, <2>1, <3>1, OwnLocals DEF Adding, Users, Working
    <3>6. activities[s].tag \in Nat
      BY DEF TaggedPtr
    <3>7. QED
      BY <1>6, <3>2, <3>3, <3>4, <3>5, <3>6 DEF Published
  <2>2. CASE task[t] # a
    <3>1. \A u \in Threads :
            /\ activities'[u].ptr = a <=> activities[u].ptr = a
            /\ activities[u].ptr = a => activities'[u] = activities[u]
      BY <1>6, <1>2, <2>2
    <3>2. QED
      BY <1>3, <1>6, <2>2, <3>1 DEF Users
  <2>3. QED
    BY <2>1, <2>2
<1> HIDE DEF RC
<1>7. CASE DoWork(t) \/ PopTask(t) \/ LookAround(t) \/ StealTask(t) \/ StealNothing(t)
           \/ StartSingle(t) \/ CountDown(t)
  BY <1>4, <1>7
     DEF DoWork, PopTask, LookAround, StealTask, StealNothing, StartSingle, CountDown, Working
<1>8. CASE CheckActivity(t)
  <2>1. /\ activities' = activities /\ active_threads' = active_threads
        /\ pc[t] = "check" /\ pc'[t] \in {"join", "loop", "check"}
    BY <1>8 DEF CheckActivity, VisitNext
  <2>2. QED
    BY <1>4, <2>1 DEF Working
<1>9. CASE JoinActivity(t)
  <2> DEFINE o == other[t]
             b == activities[o].ptr
  <2>1. /\ o \in Threads /\ pc[t] = "join" /\ active_threads' = active_threads
        /\ activities' = [activities EXCEPT ![o] = FetchAddTag(activities[o])]
    BY <1>9 DEF JoinActivity
  <2> HIDE DEF o
  <2>2. \A s \in Threads : activities'[s].ptr = activities[s].ptr
    BY <2>1 DEF FetchAddTag
  <2>3. t \notin Users(a)
    BY <2>1 DEF Users, Working
  <2>4. CASE b = Null
    <3>1. pc'[t] \in {"loop", "check"}
      BY <1>9, <2>4 DEF JoinActivity, VisitNext, o
    <3>2. \A s \in Threads : activities[s].ptr = a => activities'[s] = activities[s]
      BY <1>2, <2>1, <2>4
    <3>3. QED
      BY <1>3, <2>1, <2>2, <2>3, <3>1, <3>2 DEF Users, Working
  <2>5. CASE b # Null
    <3>1. task'[t] = b /\ pc'[t] = "enter"
      BY <1>9, <2>5 DEF JoinActivity, o
    <3>2. CASE b = a
      <4>1. /\ \A u \in Threads : activities[u].ptr = a => u = o
            /\ Adding(a) = {}
        BY <2>1, <3>2, PublishedOnce
      <4>2. active_threads[a] = 0 /\ Cardinality(Users(a)) = activities[o].tag + 1
        BY <1>1, <2>1, <3>2 DEF RC
      <4>3. Users(a)' = Users(a) \cup {t}
        BY <3>1, <3>2, OwnLocals DEF Users, Working
      <4>4. Adding(a)' = {}
        <5>1. \A u \in Threads \ {t} : (u \in Adding(a))' => u \in Adding(a)
          BY OwnLocals DEF Adding, Users
        <5>2. (t \notin Adding(a))'
          BY <3>1 DEF Adding
        <5>3. QED
          BY <4>1, <5>1, <5>2 DEF Adding, Users
      <4>5. Published(a)'
        BY <2>1, <2>2, <3>2 DEF Published
      <4>6. Cardinality(Users(a)') = Cardinality(Users(a)) + 1
        BY <2>3, <4>3, UserCount DEF Users
      <4>7. activities'[o].tag = activities[o].tag + 1 /\ activities[o].tag \in Nat
        BY <2>1 DEF FetchAddTag, TaggedPtr
      <4>8. \A s \in Threads : activities'[s].ptr = a => s = o
        BY <2>2, <4>1
      <4>9. QED
        BY <2>1, <4>2, <4>4, <4>5, <4>6, <4>7, <4>8 DEF RC
    <3>3. CASE b # a
      <4>1. \A s \in Threads : activities[s].ptr = a => activities'[s] = activities[s]
        BY <2>1, <3>3
      <4>2. QED
        BY <1>3, <2>1, <2>2, <2>3, <3>1, <3>3, <4>1 DEF Users
    <3>4. QED
      BY <3>2, <3>3
  <2>6. QED
    BY <2>4, <2>5
<1>10. CASE StartLoop(t)
  <2>1. /\ pc[t] = "start" /\ task[t] \in Addrs /\ task' = task /\ pc'[t] = "enter"
        /\ activities' = [activities EXCEPT ![t] = [ptr |-> task[t], tag |-> 0]]
        /\ active_threads' = active_threads
    BY <1>10, TaskIsAddress DEF StartLoop, Working
  <2>2. activities[t].ptr = Null
    BY <2>1 DEF SlotInv
  <2>3. (\A u \in Threads \ {t} : task[u] # task[t]) /\ ~Published(task[t])
    BY <1>2, <2>1 DEF ExclusiveFinish
  <2>4. CASE task[t] = a
    <3>1. Users(a) = {} /\ Users(a)' = {t}
      BY <2>1, <2>3, <2>4, OwnLocals DEF Users, Working
    <3>2. Adding(a) = {} /\ Adding(a)' = {}
      BY <2>1, <3>1 DEF Adding
    <3>3. active_threads[a] = 0
      BY <1>1, <2>3, <2>4, <3>1, <3>2, UserCount DEF RC
    <3>4. Cardinality(Users(a)') = 1
      BY <3>1, FS_Singleton
    <3>5. \A s \in Threads : activities'[s].ptr = a => s = t /\ activities'[s].tag = 0
      BY <2>1, <2>3, <2>4 DEF Published
    <3>6. Published(a)'
      BY <2>1, <2>4 DEF Published
    <3>7. QED
      BY <2>1, <3>2, <3>3, <3>4, <3>5, <3>6 DEF RC
  <2>5. CASE task[t] # a
    <3>1. \A s \in Threads :
            /\ activities'[s].ptr = a <=> activities[s].ptr = a
            /\ activities[s].ptr = a => activities'[s] = activities[s]
      BY <1>2, <2>1, <2>2, <2>5
    <3>2. QED
      BY <1>3, <2>1, <2>5, <3>1 DEF Users
  <2>6. QED
    BY <2>4, <2>5
<1>11. CASE EndTask(t)
  <2>1. /\ pc[t] = "end" /\ task[t] \in Addrs /\ activities' = activities
        /\ active_threads' = [active_threads EXCEPT ![task[t]] = active_threads[task[t]] - 1]
        /\ pc'[t] \in {"finish", "loop"} /\ state[t] = "DidSignal"
    BY <1>11, TaskIsAddress DEF EndTask, Working, ThreadInv
  <2>2. CASE task[t] = a
    <3>1. ~Published(a)
      BY <1>2, <2>1, <2>2 DEF Published, SlotInv
    <3>2. t \in Users(a) /\ Users(a)' = Users(a) \ {t}
      BY <2>1, <2>2, OwnLocals DEF Users, Working
    <3>3. Adding(a)' = Adding(a) /\ \A u \in Adding(a) : value'[u] = value[u]
      BY <2>1, OwnLocals DEF Adding, Users, Working
    <3>4. Cardinality(Users(a)') = Cardinality(Users(a)) - 1 /\ Cardinality(Users(a)) \in Nat
      BY <3>2, UserCount DEF Users
    <3>5. active_threads'[a] = active_threads[a] - 1 /\ active_threads[a] \in Int
      BY <2>1, <2>2
    <3>6. ~Published(a)' /\ \A s \in Threads : activities'[s].ptr # a
      BY <2>1, <3>1 DEF Published
    <3>7. \A u \in Adding(a) : value[u].tag \in Nat
      BY DEF Adding, Users, TaggedPtr
    <3>8. QED
      <4>1. ASSUME NEW u \in Adding(a)
            PROVE  /\ active_threads'[a] <= 0
                   /\ active_threads'[a] + value'[u].tag + 1 = Cardinality(Users(a)')
        <5>1. /\ active_threads[a] <= 0
              /\ active_threads[a] + value[u].tag + 1 = Cardinality(Users(a))
              /\ value'[u].tag \in Nat /\ value'[u].tag = value[u].tag
          BY <1>1, <3>3, <3>7 DEF RC
        <5>2. QED
          BY <3>4, <3>5, <5>1
      <4>2. Adding(a) = {} => active_threads'[a] = Cardinality(Users(a)')
        BY <1>1, <3>1, <3>4, <3>5 DEF RC
      <4>3. QED
        BY <3>3, <3>6, <4>1, <4>2 DEF RC
  <2>3. CASE task[t] # a
    <3>1. active_threads'[a] = active_threads[a]
      BY <2>1, <2>3
    <3>2. t \notin Users(a) /\ (t \notin Users(a))'
      BY <2>1, <2>3 DEF Users, Working
    <3>3. QED
      BY <1>3, <2>1, <3>1, <3>2
  <2>4. QED
    BY <2>2, <2>3
<1>12. CASE ChunkLoop(t)
  <2>1. /\ activities' = activities /\ active_threads' = active_threads /\ task' = task
        /\ pc[t] \in Working \ {"add"} /\ pc'[t] \in Working \ {"add"}
    BY <1>12 DEF ChunkLoop, Working
  <2>2. QED
    BY <1>5, <2>1
<1>13. ASSUME NEW resume \in {"body", "end"}, TaskEmpty(t, resume)
       PROVE  RC(a)'
  <2>1. CASE SwapSlot(t, resume)
    <3>1. /\ pc[t] = "signal" /\ task[t] \in Addrs /\ task' = task
          /\ activities' = [activities EXCEPT ![t] = NullPtr]
          /\ active_threads' = active_threads
      BY <2>1, TaskIsAddress DEF SwapSlot, Working
    <3>2. CASE activities[t].ptr = task[t]
      <4>1. pc'[t] = "add" /\ value'[t] = activities[t] /\ pc[t] \in Working
        BY <2>1, <3>1, <3>2 DEF SwapSlot, Working
      <4>2. QED
        BY <1>6, <3>1, <3>2, <4>1
    <3>3. CASE activities[t].ptr # task[t]
      <4>1. activities[t].ptr = Null
        BY <3>3 DEF SlotInv
      <4>2. \A s \in Threads :
              /\ activities'[s].ptr = a <=> activities[s].ptr = a
              /\ activities[s].ptr = a => activities'[s] = activities[s]
        BY <1>2, <3>1, <4>1
      <4>3. pc'[t] \in {"body", "end"}
        BY <2>1, <3>3 DEF SwapSlot, Signalled
      <4>4. QED
        BY <1>3, <3>1, <4>2, <4>3 DEF Users, Working
    <3>4. QED
      BY <3>2, <3>3
  <2>2. CASE LoadSlot(t, resume)
    <3>1. /\ activities' = activities /\ active_threads' = active_threads /\ task' = task
          /\ pc[t] = "signal" /\ pc'[t] \in {"cas", "body", "end"}
      BY <2>2 DEF LoadSlot, RetryWhileTask, Signalled
    <3>2. QED
      BY <1>5, <3>1 DEF Working
  <2>3. CASE CompareExchange(t, resume)
    <3>1. /\ pc[t] = "cas" /\ task[t] \in Addrs /\ task' = task
          /\ active_threads' = active_threads
      BY <2>3, TaskIsAddress DEF CompareExchange, Working
    <3>2. CASE CasMatches(t)
      <4>1. /\ activities' = [activities EXCEPT ![other[t]] = NullPtr]
            /\ pc'[t] = "add" /\ value' = value
        BY <2>3, <3>2 DEF CompareExchange, SlotOf
      <4>2. value[t] = activities[other[t]] /\ value[t].ptr = task[t]
        BY <3>1, <3>2 DEF CasMatches, SlotOf, ThreadInv
      <4>3. pc[t] \in Working /\ other[t] \in Threads
        BY <3>1 DEF Working
      <4>4. QED
        BY <1>6, <3>1, <4>1, <4>2, <4>3
    <3>3. CASE ~CasMatches(t)
      <4>1. activities' = activities /\ pc'[t] \in {"cas", "body", "end"}
        BY <2>3, <3>3 DEF CompareExchange, RetryWhileTask, Signalled
      <4>2. QED
        BY <1>5, <3>1, <4>1 DEF Working
    <3>4. QED
      BY <3>2, <3>3
  <2>4. CASE AddReferences(t, resume)
    <3>1. /\ pc[t] = "add" /\ task[t] \in Addrs /\ task' = task
          /\ activities' = activities
          /\ active_threads' = [active_threads EXCEPT ![task[t]] =
                                  active_threads[task[t]] + Credit(value[t])]
          /\ pc'[t] \in {"cas", "body", "end"}
      BY <2>4, TaskIsAddress DEF AddReferences, Signalled, Working
    <3>2. CASE task[t] = a
      <4>1. Adding(a) = {t}
        BY <3>1, <3>2 DEF Adding, Users, Working, AddInv
      <4>2. Users(a)' = Users(a) /\ Adding(a)' = {}
        <5>1. \A u \in Threads : (u \in Users(a))' <=> u \in Users(a)
          BY <3>1, OwnLocals DEF Users, Working
        <5>2. \A u \in Threads \ {t} : (u \in Adding(a))' => u \in Adding(a)
          BY OwnLocals DEF Adding, Users
        <5>3. (t \notin Adding(a))'
          BY <3>1 DEF Adding
        <5>4. QED
          BY SMTT(20), <4>1, <5>1, <5>2, <5>3 DEF Adding, Users
      <4>3. ~Published(a) /\ \A s \in Threads : activities'[s].ptr # a
        BY <3>1, <4>1, PublishedOnce DEF Published
      <4>4. active_threads'[a] = active_threads[a] + Credit(value[t])
        BY <3>1, <3>2
      <4>5. active_threads[a] + value[t].tag + 1 = Cardinality(Users(a))
        BY <1>1, <4>1 DEF RC
      <4>6. active_threads[a] \in Int /\ value[t].tag \in Nat
        BY DEF TaggedPtr
      <4>7. active_threads'[a] = Cardinality(Users(a))
        BY <4>4, <4>5, <4>6 DEF Credit
      <4>8. QED
        BY <4>2, <4>3, <4>7 DEF RC
    <3>3. CASE task[t] # a
      <4>1. active_threads'[a] = active_threads[a]
        BY <3>1, <3>3
      <4>2. QED
        BY <1>3, <3>1, <3>3, <4>1 DEF Users
    <3>4. QED
      BY <3>2, <3>3
  <2>5. QED
    BY <1>13, <2>1, <2>2, <2>3, <2>4 DEF TaskEmpty
<1>14. CASE FreeTask(t)
  <2>1. /\ activities' = activities /\ active_threads' = active_threads
        /\ pc[t] = "finish" /\ pc'[t] = "after"
    BY <1>14 DEF FreeTask
  <2>2. QED
    BY <1>4, <2>1 DEF Working
<1>15. ASSUME NEW b \in Addrs, NEW k \in {"single", "loop"}, SpawnTask(t, b, k)
       PROVE  RC(a)'
  <2>1. /\ kind[b] = "free" /\ task' = task /\ pc' = pc /\ activities' = activities
        /\ active_threads' = [active_threads EXCEPT ![b] = 0]
        /\ pc[t] # "add"
    BY <1>15 DEF SpawnTask
  <2>2. active_threads[b] = 0
    <3>1. \A u \in Threads : task[u] # b
      BY <1>2, <2>1 DEF ExclusiveFinish
    <3>2. Users(b) = {} /\ Adding(b) = {} /\ ~Published(b)
      BY <1>2, <3>1 DEF Users, Adding, Published, SlotInv
    <3>3. QED
      BY <3>2, UserCount DEF ReferenceCount
  <2>3. active_threads'[a] = active_threads[a]
    BY <2>1, <2>2
  <2>4. QED
    BY <1>3, <2>1, <2>3 DEF Users
<1>16. QED
  BY <1>7, <1>8, <1>9, <1>10, <1>11, <1>12, <1>13, <1>14, <1>15 DEF ThreadStep, ProtocolStep

-----------------------------------------------------------------------------
(* ExclusiveFinish.  The interesting step is the decrement to zero: then   *)
(* no slot holds the task, nobody carries references, and the count is     *)
(* that of its users, of which the thread is the last.                     *)
LEMMA ExclusiveStepInv ==
  ASSUME ProtocolTypeOK, QueueInv, ThreadInv, SlotInv, ReferenceCount,
         ExclusiveFinish, NEW t \in Threads, ThreadStep(t)
  PROVE  ExclusiveFinish'
<1> DEFINE Alive(u) == task[u] # Null => kind[task[u]] # "free"
           Sole(u)  == task[u] # Null /\ pc[u] \in {"start", "finish"} =>
                         /\ \A v \in Threads \ {u} : task[v] # task[u]
                         /\ \A s \in Threads : activities[s].ptr # task[u]
<1>1. \A u \in Threads : Alive(u) /\ Sole(u)
  BY DEF ExclusiveFinish, Published
<1>2. ASSUME \A u \in Threads : Alive(u)' /\ Sole(u)'
      PROVE  ExclusiveFinish'
  BY <1>2 DEF ExclusiveFinish, Published
<1> USE DEF ProtocolTypeOK, Goto, shared, local, signal
<1>3. Null \notin Addrs /\ NullPtr.ptr = Null
  BY ProtocolAssumption DEF NullPtr

(* The thread forgets its task or keeps it; nothing is published or freed. *)
<1>4. ASSUME task'[t] \in {task[t], Null}, kind' = kind,
             \A s \in Threads : activities'[s].ptr \in {activities[s].ptr, Null},
             pc'[t] \in {"start", "finish"} => Sole(t)'
      PROVE  ExclusiveFinish'
  <2>1. ASSUME NEW u \in Threads PROVE Alive(u)'
    <3>1. task'[u] \in {task[u], Null}
      BY <1>4, OwnLocals
    <3>2. QED
      BY <1>1, <1>4, <3>1
  <2>2. ASSUME NEW u \in Threads \ {t}, task'[u] # Null, pc'[u] \in {"start", "finish"}
        PROVE  /\ \A v \in Threads \ {u} : task'[v] # task'[u]
               /\ \A s \in Threads : activities'[s].ptr # task'[u]
    <3>1. task'[u] = task[u] /\ pc'[u] = pc[u]
      BY OwnLocals
    <3>2. /\ \A v \in Threads \ {u} : task[v] # task[u]
          /\ \A s \in Threads : activities[s].ptr # task[u]
      BY <1>1, <2>2, <3>1
    <3>3. \A v \in Threads : task'[v] \in {task[v], Null}
      BY <1>4, OwnLocals
    <3>4. QED
      BY <1>4, <2>2, <3>1, <3>2, <3>3
  <2>3. QED
    BY <1>2, <1>4, <2>1, <2>2

(* The thread takes a task from a deque.                                   *)
<1>5. ASSUME NEW a \in Addrs, Queued(a), task' = [task EXCEPT ![t] = a],
             kind' = kind, activities' = activities
      PROVE  ExclusiveFinish'
  <2>1. kind[a] # "free" /\ \A u \in Threads : task[u] # a
    BY <1>5 DEF QueueInv
  <2>2. \A s \in Threads : activities[s].ptr # a
    BY <1>3, <2>1 DEF SlotInv
  <2>3. \A u \in Threads : Alive(u)'
    BY <1>1, <1>5, <2>1
  <2>4. \A u \in Threads \ {t} : Sole(u)'
    BY <1>1, <1>5, <2>1, OwnLocals
  <2>5. Sole(t)'
    BY <1>5, <2>1, <2>2
  <2>6. QED
    BY <1>2, <2>3, <2>4, <2>5
<1>6. CASE PopTask(t)
  <2>1. /\ deque[t] \in Seq(Addrs) /\ deque[t] # <<>>
        /\ Len(deque[t]) \in DOMAIN deque[t]
        /\ deque[t][Len(deque[t])] \in Addrs
    BY <1>6, DequePop, DequePositions DEF PopTask
  <2>2. Queued(deque[t][Len(deque[t])])
    BY <2>1 DEF Queued
  <2>3. QED
    BY <1>5, <1>6, <2>1, <2>2 DEF PopTask
<1>7. CASE StealTask(t)
  <2>1. /\ deque[other[t]] \in Seq(Addrs) /\ deque[other[t]] # <<>>
        /\ 1 \in DOMAIN deque[other[t]]
        /\ Head(deque[other[t]]) = deque[other[t]][1]
        /\ deque[other[t]][1] \in Addrs
    BY <1>7, DequeSteal, DequePositions DEF StealTask
  <2>2. Queued(Head(deque[other[t]]))
    BY <2>1 DEF Queued
  <2>3. QED
    BY <1>5, <1>7, <2>1, <2>2 DEF StealTask
<1>8. ASSUME task'[t] \in {task[t], Null}, kind' = kind,
             \A s \in Threads : activities'[s].ptr \in {activities[s].ptr, Null},
             pc'[t] \notin {"start", "finish"}
      PROVE  ExclusiveFinish'
  BY <1>4, <1>8
<1>9. CASE DoWork(t) \/ LookAround(t) \/ CountDown(t)
  BY <1>8, <1>9 DEF DoWork, LookAround, CountDown
<1>10. CASE StealNothing(t)
  <2>1. /\ task' = task /\ kind' = kind /\ activities' = activities
        /\ pc'[t] \in {"steal", "loop", "check"}
    BY <1>10 DEF StealNothing
  <2>2. QED
    BY <1>8, <2>1
<1>11. CASE CheckActivity(t)
  <2>1. /\ task' = task /\ kind' = kind /\ activities' = activities
        /\ pc'[t] \in {"join", "loop", "check"}
    BY <1>11 DEF CheckActivity, VisitNext
  <2>2. QED
    BY <1>8, <2>1
<1>12. CASE JoinActivity(t)
  <2>1. kind' = kind /\ \A s \in Threads : activities'[s].ptr = activities[s].ptr
    BY <1>12 DEF JoinActivity, FetchAddTag
  <2>2. CASE activities[other[t]].ptr = Null
    <3>1. task' = task /\ pc'[t] \in {"loop", "check"}
      BY <1>12, <2>2 DEF JoinActivity, VisitNext
    <3>2. QED
      BY <1>8, <2>1, <3>1
  <2>3. CASE activities[other[t]].ptr # Null
    <3>1. task'[t] = activities[other[t]].ptr /\ pc'[t] = "enter"
      BY <1>12, <2>3 DEF JoinActivity
    <3>2. task[other[t]] = activities[other[t]].ptr
      BY <2>3 DEF SlotInv
    <3>3. \A u \in Threads : Alive(u)'
      <4>1. \A u \in Threads : task'[u] = IF u = t THEN task[other[t]] ELSE task[u]
        BY <3>1, <3>2, OwnLocals
      <4>2. QED
        BY <1>1, <2>1, <4>1
    <3>4. ASSUME NEW u \in Threads \ {t}, task'[u] # Null, pc'[u] \in {"start", "finish"}
          PROVE  /\ \A v \in Threads \ {u} : task'[v] # task'[u]
                 /\ \A s \in Threads : activities'[s].ptr # task'[u]
      <4>1. task'[u] = task[u] /\ pc'[u] = pc[u]
        BY OwnLocals
      <4>2. /\ \A v \in Threads \ {u} : task[v] # task[u]
            /\ \A s \in Threads : activities[s].ptr # task[u]
        BY <1>1, <3>4, <4>1
      <4>3. \A v \in Threads \ {t} : task'[v] = task[v]
        BY OwnLocals
      <4>4. QED
        BY <2>1, <3>1, <4>1, <4>2, <4>3
    <3>5. Sole(t)'
      BY <3>1
    <3>6. QED
      BY <1>2, <3>3, <3>4, <3>5
  <2>4. QED
    BY <2>2, <2>3
<1>13. CASE StartSingle(t)
  <2>1. /\ task' = task /\ kind' = kind /\ activities' = activities
        /\ pc[t] = "start"
    BY <1>13 DEF StartSingle
  <2>2. Sole(t)'
    BY <1>1, <2>1
  <2>3. QED
    BY <1>4, <2>1, <2>2
<1>14. CASE StartLoop(t)
  <2>1. /\ pc[t] = "start" /\ task[t] \in Addrs /\ task' = task /\ pc'[t] = "enter"
        /\ activities' = [activities EXCEPT ![t] = [ptr |-> task[t], tag |-> 0]]
        /\ kind' = kind
    BY <1>14, TaskIsAddress DEF StartLoop, Working
  <2>2. \A u \in Threads \ {t} : task[u] # task[t]
    BY <1>1, <1>3, <2>1
  <2>3. \A u \in Threads : Alive(u)'
    BY <1>1, <2>1
  <2>4. \A s \in Threads : activities'[s].ptr \in {activities[s].ptr, task[t]}
    BY <2>1
  <2>5. \A u \in Threads \ {t} : Sole(u)'
    BY <1>1, <2>1, <2>2, <2>4, OwnLocals
  <2>6. Sole(t)'
    BY <2>1
  <2>7. QED
    BY <1>2, <2>3, <2>5, <2>6
<1>15. CASE EndTask(t)
  <2>1. /\ pc[t] = "end" /\ task[t] \in Addrs /\ activities' = activities /\ kind' = kind
        /\ task'[t] \in {task[t], Null}
        /\ pc'[t] \in {"finish", "loop"} /\ state[t] = "DidSignal"
        /\ pc'[t] = "finish" => active_threads[task[t]] - 1 = 0
    BY <1>15, TaskIsAddress DEF EndTask, IsLast, Working, ThreadInv
  <2>2. CASE pc'[t] = "finish"
    <3>1. active_threads[task[t]] = 1
      BY <2>1, <2>2
    <3>2. \A s \in Threads : activities[s].ptr # task[t]
      BY <1>3, <2>1 DEF SlotInv
    <3>3. Adding(task[t]) = {}
      BY <2>1, <3>1 DEF ReferenceCount
    <3>4. Cardinality(Users(task[t])) = 1
      BY <2>1, <3>1, <3>2, <3>3 DEF ReferenceCount, Published
    <3>5. t \in Users(task[t]) /\ Users(task[t]) \in SUBSET Threads
      BY <2>1 DEF Users, Working
    <3>6. Users(task[t]) \ {t} = {}
      <4>1. Cardinality(Users(task[t]) \ {t}) = 0
        <5>1. Cardinality(Users(task[t]) \ {t}) = Cardinality(Users(task[t])) - 1
          BY <3>5, UserCount
        <5>2. QED
          BY <3>4, <5>1
      <4>2. QED
        BY <3>5, <4>1, UserCount
    <3>7. ASSUME NEW u \in Threads \ {t} PROVE task[u] # task[t]
      <4>1. u \notin Users(task[t])
        BY <3>6
      <4>2. pc[u] \in {"start", "finish"} => task[u] # task[t]
        BY <1>1, <1>3, <2>1
      <4>3. pc[u] \notin Working \cup {"start", "finish"} => task[u] # task[t]
        BY <1>3, <2>1 DEF ThreadInv
      <4>4. QED
        BY <4>1, <4>2, <4>3 DEF Users
    <3>8. Sole(t)'
      <4>1. task'[t] = task[t] \/ task'[t] = Null
        BY <2>1
      <4>2. QED
        BY <2>1, <3>2, <3>7, <4>1, OwnLocals
    <3>9. QED
      BY <1>4, <2>1, <3>8
  <2>3. CASE pc'[t] # "finish"
    BY <1>8, <2>1, <2>3
  <2>4. QED
    BY <2>2, <2>3
<1>16. CASE ChunkLoop(t)
  <2>1. /\ task' = task /\ kind' = kind /\ activities' = activities
        /\ pc'[t] \in {"enter", "next", "body", "signal", "end"}
    BY <1>16 DEF ChunkLoop
  <2>2. QED
    BY <1>8, <2>1
<1>17. ASSUME NEW resume \in {"body", "end"}, TaskEmpty(t, resume)
       PROVE  ExclusiveFinish'
  <2>1. task' = task /\ kind' = kind
    BY <1>17 DEF TaskEmpty, SwapSlot, LoadSlot, CompareExchange, AddReferences
  <2>2. pc'[t] \in {"cas", "add", "body", "end"}
    BY <1>17 DEF TaskEmpty, SwapSlot, LoadSlot, CompareExchange, AddReferences,
       RetryWhileTask, Signalled
  <2>3. activities' = activities \/ \E s \in Threads : activities' = [activities EXCEPT ![s] = NullPtr]
    BY <1>17 DEF TaskEmpty, SwapSlot, LoadSlot, CompareExchange, AddReferences, SlotOf
  <2>4. \A s \in Threads : activities'[s].ptr \in {activities[s].ptr, Null}
    BY <1>3, <2>3
  <2>5. QED
    BY <1>8, <2>1, <2>2, <2>4
<1>18. CASE FreeTask(t)
  <2>1. /\ pc[t] = "finish" /\ task[t] \in Addrs
        /\ task' = [task EXCEPT ![t] = Null] /\ activities' = activities
        /\ kind' = [kind EXCEPT ![task[t]] = "free"] /\ pc'[t] = "after"
    BY <1>18, TaskIsAddress DEF FreeTask
  <2>2. \A u \in Threads \ {t} : task[u] # task[t]
    BY <1>1, <1>3, <2>1
  <2>3. \A u \in Threads : Alive(u)'
    BY <1>1, <2>1, <2>2
  <2>4. \A u \in Threads \ {t} : Sole(u)'
    BY <1>1, <2>1, OwnLocals
  <2>5. Sole(t)'
    BY <2>1
  <2>6. QED
    BY <1>2, <2>3, <2>4, <2>5
<1>19. ASSUME NEW a \in Addrs, NEW k \in {"single", "loop"}, SpawnTask(t, a, k)
       PROVE  ExclusiveFinish'
  <2>1. /\ kind[a] = "free" /\ kind' = [kind EXCEPT ![a] = k]
        /\ task' = task /\ pc' = pc /\ activities' = activities
    BY <1>19 DEF SpawnTask
  <2>2. QED
    BY <1>1, <1>2, <2>1
<1>20. QED
  BY <1>6, <1>7, <1>9, <1>10, <1>11, <1>12, <1>13, <1>14, <1>15, <1>16, <1>17, <1>18, <1>19
     DEF ThreadStep, ProtocolStep

-----------------------------------------------------------------------------
(* NullTagBound.  A thread counts on a slot only if it saw a task there;   *)
(* when the slot is emptied its tag starts again from zero, and the other  *)
(* threads that still have to count are at most N - 1.                     *)
LEMMA NullTagStepInv ==
  ASSUME ProtocolTypeOK, ThreadInv, SlotInv, NullTagBound,
         NEW t \in Threads, ThreadStep(t)
  PROVE  NullTagBound'
<1> DEFINE J(s) == {u \in Threads : pc[u] = "join" /\ other[u] = s}
           B(s) == activities[s].ptr = Null => activities[s].tag + Cardinality(J(s)) <= N - 1
<1> SUFFICES ASSUME NEW s \in Threads PROVE B(s)'
  BY DEF NullTagBound
<1>1. B(s) /\ J(s) \in SUBSET Threads /\ activities[s].tag \in Nat
  BY DEF NullTagBound, ProtocolTypeOK, TaggedPtr
<1> USE DEF ProtocolTypeOK, Goto, shared, local, signal
<1>2. NullPtr.ptr = Null /\ NullPtr.tag = 0 /\ N \in Nat \ {0}
  BY ProtocolAssumption DEF NullPtr
<1>3. ASSUME pc'[t] # "join" PROVE J(s)' \subseteq J(s)
  BY <1>3, OwnLocals
<1>4. ASSUME activities'[s] = activities[s], J(s)' \subseteq J(s)
      PROVE  B(s)'
  <2>1. /\ Cardinality(J(s)') <= Cardinality(J(s))
        /\ Cardinality(J(s)') \in Nat /\ Cardinality(J(s)) \in Nat
    BY <1>1, <1>4, FiniteParts, FS_Subset
  <2> HIDE DEF J
  <2>2. QED
    BY <1>1, <1>4, <1>2, <2>1
<1>5. ASSUME activities'[s] = NullPtr PROVE B(s)'
  <2>1. ThreadInv'
    BY ThreadStepInv
  <2>2. J(s)' \subseteq Threads \ {s}
    BY <2>1 DEF ThreadInv
  <2>3. Cardinality(Threads \ {s}) = N - 1 /\ IsFiniteSet(Threads \ {s})
    BY FiniteParts, FS_RemoveElement
  <2>4. Cardinality(J(s)') <= N - 1 /\ Cardinality(J(s)') \in Nat
    BY <2>2, <2>3, FS_Subset, FS_CardinalityType
  <2>5. QED
    BY <1>5, <1>2, <2>4
<1> HIDE DEF B, J
<1>6. ASSUME activities' = activities, pc'[t] # "join" PROVE B(s)'
  BY <1>3, <1>4, <1>6
<1>7. CASE DoWork(t) \/ PopTask(t) \/ LookAround(t) \/ StealTask(t) \/ StartSingle(t)
           \/ CountDown(t)
  BY <1>6, <1>7 DEF DoWork, PopTask, LookAround, StealTask, StartSingle, CountDown
<1>8. CASE StealNothing(t) \/ EndTask(t) \/ ChunkLoop(t)
  <2>1. activities' = activities
    BY <1>8 DEF StealNothing, EndTask, ChunkLoop
  <2>2. pc'[t] # "join"
    BY <1>8 DEF StealNothing, EndTask, ChunkLoop
  <2>3. QED
    BY <1>6, <2>1, <2>2
<1>9. CASE CheckActivity(t)
  <2>1. CASE MayJoin(activities[other[t]])
    <3>1. /\ activities' = activities /\ other' = other
          /\ activities[other[t]].ptr # Null
      BY <1>9, <2>1 DEF CheckActivity, MayJoin
    <3>2. CASE other[t] = s
      BY <3>1, <3>2 DEF B
    <3>3. CASE other[t] # s
      <4>1. J(s)' \subseteq J(s)
        BY <3>1, <3>3, OwnLocals DEF J
      <4>2. QED
        BY <1>4, <3>1, <4>1
    <3>4. QED
      BY <3>2, <3>3
  <2>2. CASE ~MayJoin(activities[other[t]])
    <3>1. activities' = activities /\ pc'[t] # "join"
      BY <1>9, <2>2 DEF CheckActivity, VisitNext
    <3>2. QED
      BY <1>6, <3>1
  <2>3. QED
    BY <2>1, <2>2
<1>10. CASE JoinActivity(t)
  <2>1. /\ pc[t] = "join" /\ pc'[t] # "join"
        /\ activities' = [activities EXCEPT ![other[t]] = FetchAddTag(activities[other[t]])]
    BY <1>10 DEF JoinActivity, VisitNext
  <2>2. J(s)' \subseteq J(s)
    BY <1>3, <2>1
  <2>3. CASE other[t] # s
    BY <1>4, <2>1, <2>2, <2>3
  <2>4. CASE other[t] = s
    <3>1. J(s)' = J(s) \ {t} /\ t \in J(s)
      BY <2>1, <2>4, OwnLocals DEF J
    <3>2. Cardinality(J(s)') = Cardinality(J(s)) - 1 /\ Cardinality(J(s)) \in Nat
      BY <1>1, <3>1, UserCount
    <3>3. activities'[s].ptr = activities[s].ptr /\ activities'[s].tag = activities[s].tag + 1
      BY <2>1, <2>4 DEF FetchAddTag
    <3>4. QED
      BY <1>1, <1>2, <3>2, <3>3 DEF B
  <2>5. QED
    BY <2>3, <2>4
<1>11. CASE StartLoop(t)
  <2>1. /\ pc[t] = "start" /\ task[t] \in Addrs /\ pc'[t] # "join"
        /\ activities' = [activities EXCEPT ![t] = [ptr |-> task[t], tag |-> 0]]
    BY <1>11, TaskIsAddress DEF StartLoop, Working
  <2>2. CASE s = t
    BY <2>1, <2>2, ProtocolAssumption DEF B
  <2>3. CASE s # t
    BY <1>3, <1>4, <2>1, <2>3
  <2>4. QED
    BY <2>2, <2>3
<1>12. ASSUME NEW resume \in {"body", "end"}, TaskEmpty(t, resume)
       PROVE  B(s)'
  <2>1. pc'[t] # "join"
    BY <1>12 DEF TaskEmpty, SwapSlot, LoadSlot, CompareExchange, AddReferences,
       RetryWhileTask, Signalled
  <2>2. activities' = activities \/ \E u \in Threads : activities' = [activities EXCEPT ![u] = NullPtr]
    BY <1>12 DEF TaskEmpty, SwapSlot, LoadSlot, CompareExchange, AddReferences, SlotOf
  <2>3. activities'[s] = activities[s] \/ activities'[s] = NullPtr
    BY <2>2
  <2>4. QED
    BY <1>3, <1>4, <1>5, <2>1, <2>3
<1>13. CASE FreeTask(t)
  BY <1>6, <1>13 DEF FreeTask
<1>14. ASSUME NEW a \in Addrs, NEW k \in {"single", "loop"}, SpawnTask(t, a, k)
       PROVE  B(s)'
  <2>1. activities' = activities /\ pc' = pc /\ pc[t] # "join"
    BY <1>14 DEF SpawnTask
  <2>2. QED
    BY <1>6, <2>1
<1>15. QED
  BY <1>7, <1>8, <1>9, <1>10, <1>11, <1>12, <1>13, <1>14 DEF ThreadStep, ProtocolStep

-----------------------------------------------------------------------------
(* PendingInv: a task is counted until its finish function counts it down. *)
LEMMA PendingStepInv ==
  ASSUME ProtocolTypeOK, ThreadInv, ExclusiveFinish, PendingInv,
         NEW t \in Threads, ThreadStep(t)
  PROVE  PendingInv'
<1> DEFINE Live  == {a \in Addrs : kind[a] # "free"}
           After == {u \in Threads : pc[u] = "after"}
<1>1. /\ pending = Cardinality(Live) + Cardinality(After)
      /\ is_finished => pending = 0
      /\ Live \in SUBSET Addrs /\ After \in SUBSET Threads
  BY DEF PendingInv
<1>2. /\ IsFiniteSet(Live) /\ Cardinality(Live) \in Nat
      /\ IsFiniteSet(After) /\ Cardinality(After) \in Nat
  BY FiniteParts
<1>3. ASSUME pending' = Cardinality(Live)' + Cardinality(After)', (is_finished => pending = 0)'
      PROVE  PendingInv'
  BY <1>3 DEF PendingInv
<1> USE DEF ProtocolTypeOK, Goto, shared, local, signal
<1>4. ASSUME kind' = kind, pending' = pending, is_finished' = is_finished,
             pc[t] # "after", pc'[t] # "after"
      PROVE  PendingInv'
  <2>1. Live' = Live
    BY <1>4
  <2>2. After' = After
    BY <1>4, OwnLocals
  <2>3. QED
    BY <1>1, <1>3, <1>4, <2>1, <2>2
<1> HIDE DEF Live, After
<1>5. ASSUME ProtocolStep(t) \/ ChunkLoop(t), ~CountDown(t)
      PROVE  PendingInv'
  <2>1. kind' = kind /\ pending' = pending /\ is_finished' = is_finished
    BY <1>5 DEF ProtocolStep, DoWork, PopTask, LookAround, StealTask, StealNothing,
       CheckActivity, JoinActivity, VisitNext, StartSingle, StartLoop, EndTask, ChunkLoop
  <2>2. pc[t] # "after"
    BY <1>5 DEF ProtocolStep, DoWork, PopTask, LookAround, StealTask, StealNothing,
       CheckActivity, JoinActivity, StartSingle, StartLoop, EndTask, ChunkLoop
  <2>3. pc'[t] # "after"
    BY <1>5 DEF ProtocolStep, DoWork, PopTask, LookAround, StealTask, StealNothing,
       CheckActivity, JoinActivity, VisitNext, StartSingle, StartLoop, EndTask, ChunkLoop
  <2>4. QED
    BY <1>4, <2>1, <2>2, <2>3
<1>6. ASSUME NEW resume \in {"body", "end"}, TaskEmpty(t, resume)
      PROVE  PendingInv'
  <2>1. kind' = kind /\ pending' = pending /\ is_finished' = is_finished
    BY <1>6 DEF TaskEmpty, SwapSlot, LoadSlot, CompareExchange, AddReferences
  <2>2. pc[t] # "after" /\ pc'[t] # "after"
    BY <1>6 DEF TaskEmpty, SwapSlot, LoadSlot, CompareExchange, AddReferences,
       RetryWhileTask, Signalled
  <2>3. QED
    BY <1>4, <2>1, <2>2
<1>7. CASE CountDown(t)
  <2>1. /\ pc[t] = "after" /\ pc'[t] = "loop" /\ kind' = kind
        /\ pending' = pending - 1 /\ is_finished' = (is_finished \/ pending = 1)
    BY <1>7 DEF CountDown
  <2>2. t \in After /\ After' = After \ {t} /\ Live' = Live
    BY <2>1, OwnLocals DEF After, Live
  <2>3. Cardinality(After') = Cardinality(After) - 1
    BY <1>1, <2>2, UserCount
  <2>4. pending >= 1
    BY <2>1, AfterIsCounted
  <2>5. pending' = Cardinality(Live') + Cardinality(After')
    BY <1>1, <1>2, <2>1, <2>2, <2>3
  <2>6. is_finished' => pending' = 0
    BY <1>1, <2>1, <2>4
  <2>7. QED
    BY <1>3, <2>5, <2>6
<1>8. CASE FreeTask(t)
  <2>1. /\ pc[t] = "finish" /\ pc'[t] = "after" /\ task[t] \in Addrs
        /\ kind' = [kind EXCEPT ![task[t]] = "free"]
        /\ pending' = pending /\ is_finished' = is_finished
    BY <1>8, TaskIsAddress DEF FreeTask, Working
  <2>2. kind[task[t]] # "free"
    BY <2>1, ProtocolAssumption DEF ExclusiveFinish
  <2>3. task[t] \in Live /\ Live' = Live \ {task[t]}
    BY <2>1, <2>2 DEF Live
  <2>4. t \notin After /\ After' = After \cup {t}
    BY <2>1, OwnLocals DEF After
  <2>5. Cardinality(Live') = Cardinality(Live) - 1
    BY <1>2, <2>3, FS_RemoveElement
  <2>6. Cardinality(After') = Cardinality(After) + 1
    BY <1>1, <2>4, UserCount
  <2>7. pending' = Cardinality(Live') + Cardinality(After')
    BY <1>1, <1>2, <2>1, <2>5, <2>6
  <2>8. QED
    BY <1>1, <1>3, <2>1, <2>7
<1>9. ASSUME NEW a \in Addrs, NEW k \in {"single", "loop"}, SpawnTask(t, a, k)
      PROVE  PendingInv'
  <2>1. /\ kind[a] = "free" /\ kind' = [kind EXCEPT ![a] = k] /\ pc' = pc /\ task' = task
        /\ pending' = pending + 1 /\ is_finished' = is_finished
        /\ pc[t] \in {"body", "after"}
    BY <1>9 DEF SpawnTask, Counted
  <2>2. a \notin Live /\ Live' = Live \cup {a} /\ After' = After
    BY <2>1 DEF Live, After
  <2>3. Cardinality(Live') = Cardinality(Live) + 1
    BY <1>2, <2>2, FS_AddElement
  <2>4. pending' = Cardinality(Live') + Cardinality(After')
    BY <1>1, <1>2, <2>1, <2>2, <2>3
  <2>5. ~is_finished
    <3>1. CASE pc[t] = "after"
      BY <1>1, <3>1, AfterIsCounted
    <3>2. CASE pc[t] = "body"
      <4>1. task[t] \in Addrs
        BY <3>2, TaskIsAddress DEF Working
      <4>2. task[t] \in Live
        BY <4>1, ProtocolAssumption DEF ExclusiveFinish, Live
      <4>3. Cardinality(Live) # 0
        BY <1>2, <4>2, FS_EmptySet
      <4>4. QED
        BY <1>1, <1>2, <4>3
    <3>3. QED
      BY <2>1, <3>1, <3>2
  <2>6. QED
    BY <1>3, <2>1, <2>4, <2>5
<1>10. QED
  BY <1>5, <1>6, <1>7, <1>8, <1>9 DEF ThreadStep

-----------------------------------------------------------------------------
(* The initial state: one task, in the deque of thread 0.                  *)
LEMMA ProtocolInitInv ==
  ASSUME NEW a \in Addrs, NEW k \in {"single", "loop"}, ProtocolInit(a, k)
  PROVE  ProtocolInv
<1> USE DEF ProtocolInit
<1>1. /\ 0 \in Threads /\ N \in Nat \ {0} /\ Null \notin Addrs
      /\ NullPtr \in TaggedPtr /\ NullPtr.ptr = Null /\ NullPtr.tag = 0
      /\ "loop" \in Labels /\ "loop" \notin Working
  BY ProtocolAssumption DEF Threads, NullPtr, TaggedPtr, Labels, Working
<1>2. <<a>> \in Seq(Addrs) /\ DOMAIN <<a>> = {1} /\ <<a>>[1] = a
  OBVIOUS
<1>3. \A t \in Threads : deque[t] \in Seq(Addrs)
  BY <1>2
<1>4. \A t \in Threads : \A i \in DOMAIN deque[t] : t = 0 /\ i = 1 /\ deque[t][i] = a
  BY <1>2
<1>5. ProtocolTypeOK
  BY <1>1, <1>3, ProtocolAssumption DEF ProtocolTypeOK
<1>6. QueueInv
  BY <1>1, <1>4 DEF QueueInv, Queued
<1>7. ThreadInv /\ SlotInv /\ AddInv /\ ExclusiveFinish
  BY <1>1 DEF ThreadInv, SlotInv, AddInv, ExclusiveFinish
<1>8. PendingInv
  <2>1. {b \in Addrs : kind[b] # "free"} = {a}
    OBVIOUS
  <2>2. {t \in Threads : pc[t] = "after"} = {}
    OBVIOUS
  <2>3. Cardinality({a}) = 1 /\ Cardinality({}) = 0
    BY FS_Singleton, FS_EmptySet
  <2>4. pending = 1 /\ is_finished = FALSE
    OBVIOUS
  <2> HIDE DEF ProtocolInit
  <2>5. QED
    BY <2>1, <2>2, <2>3, <2>4 DEF PendingInv
<1>9. ReferenceCount
  <2>1. \A b \in Addrs : Users(b) = {}
    BY <1>1 DEF Users
  <2>2. QED
    BY <1>1, <2>1, FS_EmptySet DEF ReferenceCount, Adding
<1>10. NullTagBound
  <2>1. \A s \in Threads : {t \in Threads : pc[t] = "join" /\ other[t] = s} = {}
    OBVIOUS
  <2>2. QED
    BY <1>1, <2>1, FS_EmptySet DEF NullTagBound
<1>11. QED
  BY <1>5, <1>6, <1>7, <1>8, <1>9, <1>10 DEF ProtocolInv

(* The invariant reads nothing but the variables of the protocol.          *)
LEMMA ProtocolStutterInv ==
  ASSUME ProtocolInv, UNCHANGED protocolVars
  PROVE  ProtocolInv'
<1> USE DEF protocolVars, shared, local, Users, Published, Adding, Queued
<1>1. ProtocolTypeOK' /\ QueueInv' /\ ThreadInv' /\ SlotInv' /\ AddInv'
  BY DEF ProtocolInv, ProtocolTypeOK, QueueInv, ThreadInv, SlotInv, AddInv
<1>2. PendingInv'
  BY DEF ProtocolInv, PendingInv
<1>3. ReferenceCount'
  BY DEF ProtocolInv, ReferenceCount
<1>4. ExclusiveFinish' /\ NullTagBound'
  BY DEF ProtocolInv, ExclusiveFinish, NullTagBound
<1>5. QED
  BY <1>1, <1>2, <1>3, <1>4 DEF ProtocolInv

(* ProtocolInv is inductive.                                               *)
LEMMA ProtocolNextInv ==
  ASSUME ProtocolInv, [ProtocolNext]_protocolVars
  PROVE  ProtocolInv'
<1>1. CASE UNCHANGED protocolVars
  BY <1>1, ProtocolStutterInv
<1>2. ASSUME NEW t \in Threads, ThreadStep(t)
      PROVE  ProtocolInv'
  BY <1>2, TypeStep, ThreadStepInv, SlotStepInv, QueueStepInv, AddStepInv, PendingStepInv,
     ReferenceCountStepInv, ExclusiveStepInv, NullTagStepInv DEF ProtocolInv
<1>3. QED
  BY <1>1, <1>2 DEF ProtocolNext

(* Whatever a work_loop does between its calls to the protocol, the parts  *)
(* of ProtocolInv hold in every state of a scheduler that follows it: the  *)
(* reference count of start_task, try_assist, task_empty and end_task is   *)
(* exact.                                                                  *)
THEOREM ProtocolInvariant == ProtocolSpec => []ProtocolInv
<1>1. (\E a \in Addrs, k \in {"single", "loop"} : ProtocolInit(a, k)) => ProtocolInv
  BY ProtocolInitInv
<1>2. ProtocolInv /\ [ProtocolNext]_protocolVars => ProtocolInv'
  BY ProtocolNextInv
<1>3. QED
  BY <1>1, <1>2, PTL DEF ProtocolSpec

(* When the pool stops, no task is in a deque, in a slot or in the hands   *)
(* of a thread: the count is zero only when no task is left (do_work,      *)
(* worker.rs 125-127).                                                     *)
LEMMA InvImpliesDone ==
  ASSUME ProtocolInv
  PROVE  FinishMeansDone
<1> SUFFICES ASSUME is_finished
             PROVE  /\ \A t \in Threads : /\ deque[t] = <<>> /\ task[t] = Null
                                          /\ activities[t].ptr = Null
                    /\ \A a \in Addrs : kind[a] = "free"
  BY DEF FinishMeansDone
<1> DEFINE Live  == {a \in Addrs : kind[a] # "free"}
           After == {t \in Threads : pc[t] = "after"}
<1>1. Cardinality(Live) = 0
  <2>1. 0 = Cardinality(Live) + Cardinality(After)
    BY DEF ProtocolInv, PendingInv
  <2>2. Cardinality(Live) \in Nat /\ Cardinality(After) \in Nat
    BY FiniteParts
  <2>3. QED
    BY <2>1, <2>2
<1>2. \A a \in Addrs : kind[a] = "free"
  <2>1. IsFiniteSet(Live)
    BY FiniteParts
  <2>2. Live = {}
    BY <1>1, <2>1, FS_EmptySet
  <2>3. QED
    BY <2>2
<1>3. \A t \in Threads : task[t] = Null
  BY <1>2 DEF ProtocolInv, ProtocolTypeOK, ExclusiveFinish
<1>4. \A t \in Threads : activities[t].ptr = Null
  <2>1. \A t \in Threads : activities[t].ptr \in Addrs \cup {Null}
    BY DEF ProtocolInv, ProtocolTypeOK, TaggedPtr
  <2>2. QED
    BY <1>3, <2>1, ProtocolAssumption DEF ProtocolInv, SlotInv
<1>5. ASSUME NEW t \in Threads PROVE deque[t] = <<>>
  <2>1. deque[t] \in Seq(Addrs) /\ Len(deque[t]) \in Nat /\ DOMAIN deque[t] = 1 .. Len(deque[t])
    BY DequePositions DEF ProtocolInv
  <2>2. ASSUME NEW i \in DOMAIN deque[t] PROVE FALSE
    <3>1. deque[t][i] \in Addrs /\ Queued(deque[t][i])
      BY DequePositions DEF ProtocolInv, Queued
    <3>2. QED
      BY <1>2, <3>1 DEF ProtocolInv, QueueInv
  <2>3. Len(deque[t]) = 0
    <3>1. ASSUME Len(deque[t]) # 0 PROVE 1 \in DOMAIN deque[t]
      BY <2>1, <3>1
    <3>2. QED
      BY <2>2, <3>1
  <2>4. QED
    BY <2>1, <2>3, EmptySeq
<1>6. QED
  BY <1>2, <1>3, <1>4, <1>5

(* start_task finds its slot empty, for a slot holds the task its own      *)
(* thread works on.                                                        *)
LEMMA InvImpliesSlotEmpty ==
  ASSUME ProtocolInv
  PROVE  SlotEmptyAtStart
BY DEF ProtocolInv, SlotInv, SlotEmptyAtStart

(* What a scheduler that follows the protocol may rely on.                 *)
THEOREM ProtocolGuarantees ==
  ProtocolSpec => [](/\ ReferenceCount /\ ExclusiveFinish /\ NullTagBound
                     /\ SlotEmptyAtStart /\ FinishMeansDone)
<1>1. ProtocolInv => /\ ReferenceCount /\ ExclusiveFinish /\ NullTagBound
                     /\ SlotEmptyAtStart /\ FinishMeansDone
  BY InvImpliesSlotEmpty, InvImpliesDone DEF ProtocolInv
<1>2. QED
  BY <1>1, ProtocolInvariant, PTL

-----------------------------------------------------------------------------
(***************************************************************************)
(* What a step does to a task, from the point of view of its chunks: the   *)
(* steps of the protocol fall into five kinds.                             *)
(***************************************************************************)

SamePtrs == \A s \in Threads : activities'[s].ptr = activities[s].ptr

(* The thread works on no task, before and after.                          *)
Quiet(t) ==
  /\ pc[t] \notin Working /\ pc'[t] \notin Working
  /\ SamePtrs
  /\ kind' = kind
  /\ \A a \in Addrs : Fresh(a)' => Fresh(a)
  /\ \A a \in Addrs : kind[a] = "loop" /\ Fresh(a) => Fresh(a)'

(* It joins a task that is offered.                                        *)
Joins(t) ==
  /\ pc[t] = "join"
  /\ task'[t] \in Addrs
  /\ Published(task'[t])
  /\ task[t] = Null
  /\ pc'[t] = "enter" /\ state'[t] = "Assist"
  /\ SamePtrs
  /\ kind' = kind /\ deque' = deque

(* It offers the task it has, which is a loop nobody has entered.          *)
Publishes(t) ==
  /\ pc[t] = "start"
  /\ task[t] \in Addrs
  /\ kind[task[t]] = "loop"
  /\ activities[t].ptr = Null
  /\ activities' = [activities EXCEPT ![t] = [ptr |-> task[t], tag |-> 0]]
  /\ \A u \in Threads \ {t} : task[u] # task[t]
  /\ ~Published(task[t])
  /\ ~Queued(task[t])
  /\ task' = task
  /\ pc'[t] = "enter" /\ state'[t] = "Main"
  /\ kind' = kind /\ deque' = deque

(* It leaves a task that is no longer offered.                             *)
Leaves(t) ==
  /\ pc[t] = "end"
  /\ task[t] \in Addrs
  /\ ~Published(task[t])
  /\ (pc'[t] = "finish" /\ task' = task) \/ (pc'[t] = "loop" /\ task'[t] = Null)
  /\ SamePtrs
  /\ kind' = kind /\ deque' = deque

(* It hides the task it works on, or tries to, or did.                     *)
Hides(t, resume) ==
  /\ pc[t] \in {"signal", "cas", "add"}
  /\ task[t] \in Addrs
  /\ pc'[t] \in {"cas", "add", resume}
  /\ \A s \in Threads : \/ activities'[s].ptr = activities[s].ptr
                        \/ activities[s].ptr = task[t] /\ activities'[s].ptr = Null
  /\ Published(task[t])' => pc'[t] = "cas" /\ activities' = activities
  /\ UNCHANGED <<is_finished, deque, kind, pending, created, other, task>>

(* It creates a task at address b.                                         *)
Spawns(t, b, k) ==
  /\ pc[t] \in {"body", "after"} /\ kind[b] = "free"
  /\ kind' = [kind EXCEPT ![b] = k]
  /\ UNCHANGED <<is_finished, activities, pc, task, state>>
  /\ \A e \in Addrs : Fresh(e)' <=> Fresh(e) \/ e = b
  /\ ~Published(b) /\ \A u \in Threads : task[u] # b

(* It finishes the task it has, and frees it.                              *)
Frees(t) ==
  /\ pc[t] = "finish" /\ pc'[t] = "after"
  /\ task[t] \in Addrs /\ task'[t] = Null
  /\ kind' = [kind EXCEPT ![task[t]] = "free"]
  /\ UNCHANGED <<is_finished, deque, activities>>
  /\ \A e \in Addrs : Fresh(e)' <=> Fresh(e)
  /\ ~Fresh(task[t]) /\ ~Published(task[t])
  /\ \A u \in Threads \ {t} : task[u] # task[t]

(* Tasks are fresh by their place in a deque, or by a thread at "start".   *)
LEMMA FreshKept ==
  ASSUME ProtocolTypeOK, NEW t \in Threads, ThreadStep(t), deque' = deque,
         pc[t] # "start", pc'[t] # "start", NEW a \in Addrs
  PROVE  Fresh(a)' = Fresh(a)
<1>1. Queued(a)' <=> Queued(a)
  BY DEF Queued
<1>2. \A u \in Threads : (pc'[u] = "start" /\ task'[u] = a) <=> (pc[u] = "start" /\ task[u] = a)
  BY OwnLocals
<1>3. QED
  BY <1>1, <1>2 DEF Fresh

(* A task is offered by the pointers of the slots, whatever their tags.    *)
LEMMA PtrsKept ==
  ASSUME SamePtrs, NEW a
  PROVE  Published(a)' = Published(a)
BY DEF SamePtrs, Published

(* A pop leaves the others in the deque.                                   *)
LEMMA PopKeepsOthers ==
  ASSUME NEW d \in Seq(Addrs), d # <<>>
  PROVE  LET e == SubSeq(d, 1, Len(d) - 1)
         IN  /\ Len(d) \in DOMAIN d
             /\ \A i \in DOMAIN e : \E j \in DOMAIN d : e[i] = d[j]
             /\ \A j \in DOMAIN d : d[j] = d[Len(d)] \/ \E i \in DOMAIN e : e[i] = d[j]
<1> DEFINE e == SubSeq(d, 1, Len(d) - 1)
<1>1. /\ Len(d) \in Nat \ {0} /\ DOMAIN d = 1 .. Len(d)
      /\ DOMAIN e = 1 .. Len(d) - 1 /\ \A i \in 1 .. Len(d) - 1 : e[i] = d[i]
  BY DequePop, LenProperties
<1> HIDE DEF e
<1>2. \A i \in DOMAIN e : i \in DOMAIN d /\ e[i] = d[i]
  BY <1>1
<1>3. \A j \in DOMAIN d : j = Len(d) \/ (j \in DOMAIN e /\ e[j] = d[j])
  BY <1>1
<1>4. Len(d) \in DOMAIN d
  BY <1>1
<1>5. QED
  BY <1>2, <1>3, <1>4 DEF e

(* A steal leaves the others in the deque.                                 *)
LEMMA StealKeepsOthers ==
  ASSUME NEW d \in Seq(Addrs), d # <<>>
  PROVE  LET e == Tail(d)
         IN  /\ 1 \in DOMAIN d /\ Head(d) = d[1]
             /\ \A i \in DOMAIN e : \E j \in DOMAIN d : e[i] = d[j]
             /\ \A j \in DOMAIN d : d[j] = d[1] \/ \E i \in DOMAIN e : e[i] = d[j]
<1> DEFINE e == Tail(d)
<1>1. /\ Len(d) \in Nat \ {0} /\ DOMAIN d = 1 .. Len(d)
      /\ DOMAIN e = 1 .. Len(d) - 1 /\ \A i \in 1 .. Len(d) - 1 : e[i] = d[i + 1]
      /\ Head(d) = d[1]
  BY DequeSteal, LenProperties
<1> HIDE DEF e
<1>2. \A i \in DOMAIN e : i + 1 \in DOMAIN d /\ e[i] = d[i + 1]
  BY <1>1
<1>3. ASSUME NEW j \in DOMAIN d, j # 1
      PROVE  j - 1 \in DOMAIN e /\ e[j - 1] = d[j]
  <2>1. j - 1 \in 1 .. Len(d) - 1 /\ (j - 1) + 1 = j
    BY <1>1, <1>3
  <2>2. e[j - 1] = d[(j - 1) + 1]
    BY <1>1, <2>1
  <2>3. QED
    BY <1>1, <2>1, <2>2
<1>4. 1 \in DOMAIN d
  BY <1>1
<1>5. QED
  BY <1>1, <1>2, <1>3, <1>4 DEF e

(* What a thread takes from a deque is about to start instead of queued.   *)
LEMMA TakenStaysFresh ==
  ASSUME ProtocolTypeOK, NEW t \in Threads, ThreadStep(t), NEW w \in Threads,
         pc[t] \in {"pop", "steal"}, pc'[t] = "start",
         \A u \in Threads \ {w} : deque'[u] = deque[u],
         \E k \in DOMAIN deque[w] : task'[t] = deque[w][k],
         \A i \in DOMAIN deque'[w] : \E j \in DOMAIN deque[w] : deque'[w][i] = deque[w][j],
         \A j \in DOMAIN deque[w] : deque[w][j] = task'[t]
            \/ \E i \in DOMAIN deque'[w] : deque'[w][i] = deque[w][j],
         NEW a \in Addrs
  PROVE  Fresh(a)' <=> Fresh(a)
<1>1. Queued(a)' => Queued(a)
  BY DEF Queued
<1>2. Queued(a) => Queued(a)' \/ task'[t] = a
  BY DEF Queued
<1>3. Queued(task'[t])
  BY DEF Queued
<1>4. \A u \in Threads \ {t} : (pc'[u] = "start" /\ task'[u] = a) <=> (pc[u] = "start" /\ task[u] = a)
  BY OwnLocals
<1>5. pc[t] # "start"
  OBVIOUS
<1>6. QED
  BY <1>1, <1>2, <1>3, <1>4, <1>5 DEF Fresh

(* pop and steal: the task is no longer queued but about to start.         *)
LEMMA TakeEffect ==
  ASSUME ProtocolInv, NEW t \in Threads, PopTask(t) \/ StealTask(t)
  PROVE  Quiet(t) /\ pc'[t] = "start" /\ \A a \in Addrs : Fresh(a)' <=> Fresh(a)
<1>1. ThreadStep(t) /\ pc[t] \in {"pop", "steal"}
  BY DEF ThreadStep, ProtocolStep, PopTask, StealTask
<1>2. pc'[t] = "start" /\ UNCHANGED <<activities, kind>>
  BY DEF PopTask, StealTask, ProtocolInv, ProtocolTypeOK, Goto
<1>3. \A a \in Addrs : Fresh(a)' <=> Fresh(a)
  <2>1. ProtocolTypeOK
    BY DEF ProtocolInv
  <2>2. CASE PopTask(t)
    <3>1. deque[t] \in Seq(Addrs) /\ deque[t] # <<>>
      BY <2>1, <2>2 DEF PopTask, ProtocolTypeOK
    <3>2. /\ deque'[t] = SubSeq(deque[t], 1, Len(deque[t]) - 1)
          /\ task'[t] = deque[t][Len(deque[t])]
          /\ \A u \in Threads \ {t} : deque'[u] = deque[u]
      BY <2>1, <2>2 DEF PopTask, ProtocolTypeOK
    <3>3. Len(deque[t]) \in DOMAIN deque[t]
      BY <3>1, PopKeepsOthers
    <3>4. /\ \E k \in DOMAIN deque[t] : task'[t] = deque[t][k]
          /\ \A i \in DOMAIN deque'[t] : \E j \in DOMAIN deque[t] : deque'[t][i] = deque[t][j]
          /\ \A j \in DOMAIN deque[t] : deque[t][j] = task'[t]
               \/ \E i \in DOMAIN deque'[t] : deque'[t][i] = deque[t][j]
      BY <2>1, <3>3, <3>1, <3>2, PopKeepsOthers DEF ProtocolTypeOK
    <3>5. QED
      BY <1>1, <1>2, <2>1, <3>2, <3>4, TakenStaysFresh
  <2>3. CASE StealTask(t)
    <3>1. other[t] \in Threads /\ deque[other[t]] \in Seq(Addrs) /\ deque[other[t]] # <<>>
      BY <2>1, <2>3 DEF StealTask, ProtocolTypeOK
    <3>2. /\ deque'[other[t]] = Tail(deque[other[t]])
          /\ task'[t] = Head(deque[other[t]])
          /\ \A u \in Threads \ {other[t]} : deque'[u] = deque[u]
      BY <2>1, <2>3 DEF StealTask, ProtocolTypeOK
    <3>3. /\ \E k \in DOMAIN deque[other[t]] : task'[t] = deque[other[t]][k]
          /\ \A i \in DOMAIN deque'[other[t]] :
               \E j \in DOMAIN deque[other[t]] : deque'[other[t]][i] = deque[other[t]][j]
          /\ \A j \in DOMAIN deque[other[t]] : deque[other[t]][j] = task'[t]
               \/ \E i \in DOMAIN deque'[other[t]] : deque'[other[t]][i] = deque[other[t]][j]
      BY <2>1, <3>1, <3>2, StealKeepsOthers DEF ProtocolTypeOK
    <3>4. QED
      BY <1>1, <1>2, <2>1, <3>1, <3>2, <3>3, TakenStaysFresh
  <2>4. QED
    BY <2>2, <2>3
<1>4. QED
  BY <1>1, <1>2, <1>3 DEF Quiet, SamePtrs, Working

(* The other steps of a thread without a task, and a task without a loop.  *)
LEMMA IdleEffect ==
  ASSUME ProtocolInv, NEW t \in Threads,
         \/ DoWork(t) \/ LookAround(t) \/ StealNothing(t) \/ CheckActivity(t)
         \/ JoinActivity(t) /\ activities[other[t]].ptr = Null
         \/ StartSingle(t) \/ CountDown(t)
  PROVE  Quiet(t)
<1> USE DEF ProtocolInv, ProtocolTypeOK, Goto, shared, signal
<1>1. ThreadStep(t)
  BY DEF ThreadStep, ProtocolStep
<1>2. /\ pc[t] \notin Working /\ pc'[t] \notin Working /\ pc'[t] # "start"
      /\ deque' = deque /\ kind' = kind
  <2>1. CASE DoWork(t) \/ LookAround(t) \/ StartSingle(t) \/ CountDown(t)
    BY <2>1 DEF DoWork, LookAround, StartSingle, CountDown, Working
  <2>2. CASE StealNothing(t)
    <3>1. PICK label \in {"steal", "loop", "check"} : pc' = [pc EXCEPT ![t] = label]
      BY <2>2 DEF StealNothing
    <3>2. QED
      BY <2>2, <3>1 DEF StealNothing, Working
  <2>3. CASE CheckActivity(t) \/ (JoinActivity(t) /\ activities[other[t]].ptr = Null)
    <3>1. PICK label \in {"join", "loop", "check"} : pc' = [pc EXCEPT ![t] = label]
      BY <2>3 DEF CheckActivity, JoinActivity, VisitNext
    <3>2. QED
      BY <2>3, <3>1 DEF CheckActivity, JoinActivity, Working
  <2>4. QED
    BY <2>1, <2>2, <2>3
<1>3. SamePtrs
  <2>1. CASE JoinActivity(t)
    BY <2>1 DEF JoinActivity, FetchAddTag, SamePtrs
  <2>2. CASE ~JoinActivity(t)
    BY <2>2 DEF DoWork, LookAround, StealNothing, CheckActivity, StartSingle, CountDown, SamePtrs
  <2>3. QED
    BY <2>1, <2>2
<1>4. pc[t] = "start" => kind[task[t]] = "single"
  BY DEF DoWork, LookAround, StealNothing, CheckActivity, JoinActivity, StartSingle, CountDown
<1>5. ASSUME NEW a \in Addrs
      PROVE  (Fresh(a)' => Fresh(a)) /\ (kind[a] = "loop" /\ Fresh(a) => Fresh(a)')
  <2>1. Queued(a)' <=> Queued(a)
    BY <1>2 DEF Queued
  <2>2. \A u \in Threads \ {t} : (pc'[u] = "start" /\ task'[u] = a) <=> (pc[u] = "start" /\ task[u] = a)
    BY <1>1, OwnLocals
  <2>3. QED
    BY <1>2, <1>4, <2>1, <2>2 DEF Fresh
<1>6. QED
  BY <1>2, <1>3, <1>5 DEF Quiet

(* try_assist finds a task in the slot.                                    *)
LEMMA JoinEffect ==
  ASSUME ProtocolInv, NEW t \in Threads, JoinActivity(t), activities[other[t]].ptr # Null
  PROVE  Joins(t)
<1> USE DEF ProtocolInv, ProtocolTypeOK, Goto, JoinActivity
<1>1. other[t] \in Threads /\ activities[other[t]].ptr \in Addrs
  BY DEF TaggedPtr
<1>2. task'[t] = activities[other[t]].ptr /\ pc'[t] = "enter" /\ state'[t] = "Assist"
  OBVIOUS
<1>3. task[t] = Null
  BY DEF ThreadInv, Working
<1>4. SamePtrs
  BY DEF FetchAddTag, SamePtrs
<1>5. QED
  BY <1>1, <1>2, <1>3, <1>4 DEF Joins, Published

(* start_task offers a loop.                                               *)
LEMMA PublishEffect ==
  ASSUME ProtocolInv, NEW t \in Threads, StartLoop(t)
  PROVE  Publishes(t)
<1> USE DEF ProtocolInv, ProtocolTypeOK, Goto, StartLoop
<1>1. task[t] \in Addrs /\ task[t] # Null
  BY TaskIsAddress, ProtocolAssumption
<1>2. (\A u \in Threads \ {t} : task[u] # task[t]) /\ ~Published(task[t])
  BY <1>1 DEF ExclusiveFinish
<1>3. ~Queued(task[t])
  BY <1>1 DEF QueueInv
<1>4. activities[t].ptr = Null
  BY DEF SlotInv
<1>5. pc'[t] = "enter" /\ state'[t] = "Main"
  OBVIOUS
<1>6. QED
  BY <1>1, <1>2, <1>3, <1>4, <1>5 DEF Publishes

(* end_task: the slot of the task has been emptied.                        *)
LEMMA LeaveEffect ==
  ASSUME ProtocolInv, NEW t \in Threads, EndTask(t)
  PROVE  Leaves(t)
<1> USE DEF ProtocolInv, ProtocolTypeOK, Goto, EndTask
<1>1. task[t] \in Addrs /\ task[t] # Null
  BY TaskIsAddress, ProtocolAssumption DEF Working
<1>2. state[t] = "DidSignal"
  BY DEF ThreadInv
<1>3. ~Published(task[t])
  <2>1. ASSUME NEW s \in Threads, activities[s].ptr = task[t] PROVE FALSE
    BY <1>1, <1>2, <2>1 DEF SlotInv
  <2>2. QED
    BY <2>1 DEF Published
<1>4. (pc'[t] = "finish" /\ task' = task) \/ (pc'[t] = "loop" /\ task'[t] = Null)
  BY DEF IsLast
<1>5. QED
  BY <1>1, <1>3, <1>4 DEF Leaves, SamePtrs

(* Which of the five a step of the protocol outside the chunk loop is.     *)
LEMMA ProtocolStepEffect ==
  ASSUME ProtocolInv, NEW t \in Threads, ProtocolStep(t)
  PROVE  Quiet(t) \/ Joins(t) \/ Publishes(t) \/ Leaves(t)
BY TakeEffect, IdleEffect, JoinEffect, PublishEffect, LeaveEffect DEF ProtocolStep

(* task_empty: a thread that has returned from it, or counts references,   *)
(* has left the task hidden.                                               *)
LEMMA HideEffect ==
  ASSUME ProtocolInv, NEW t \in Threads, NEW resume \in {"body", "end"}, TaskEmpty(t, resume)
  PROVE  Hides(t, resume)
<1> USE DEF ProtocolInv, ProtocolTypeOK, Goto, signal
<1>1. pc[t] \in {"signal", "cas", "add"}
  BY DEF TaskEmpty, SwapSlot, LoadSlot, CompareExchange, AddReferences
<1>2. task[t] \in Addrs /\ task[t] # Null
  BY <1>1, TaskIsAddress, ProtocolAssumption DEF Working
<1>3. NullPtr.ptr = Null
  BY DEF NullPtr
<1>4. ASSUME NEW s \in Threads, activities[s].ptr = task[t]
      PROVE  /\ \A r \in Threads : activities[r].ptr = task[t] => r = s
             /\ t # s => state[t] = "Assist" /\ other[t] = s
             /\ t = s => state[t] = "Main" /\ pc[t] = "signal"
             /\ pc[t] # "add"
  <2>1. /\ task[s] = task[t] /\ state[s] = "Main"
        /\ pc[s] \in {"enter", "next", "body", "signal"}
        /\ t # s => state[t] = "Assist" /\ other[t] = s /\ pc[t] # "add"
    BY <1>2, <1>4 DEF SlotInv
  <2>2. ASSUME NEW r \in Threads, activities[r].ptr = task[t] PROVE r = s
    BY <1>2, <1>4, <2>1, <2>2 DEF SlotInv
  <2>3. QED
    BY <1>1, <2>1, <2>2
<1>5. CASE SwapSlot(t, resume)
  <2> USE <1>5 DEF SwapSlot, Signalled
  <2>1. /\ activities' = [activities EXCEPT ![t] = NullPtr]
        /\ state[t] = "Main"
        /\ pc'[t] \in {"add", resume}
        /\ UNCHANGED <<is_finished, deque, kind, pending, created, other, task>>
    OBVIOUS
  <2>2. \A s \in Threads : activities'[s].ptr # task[t]
    BY <1>2, <1>3, <1>4, <2>1
  <2>3. activities[t].ptr \in {task[t], Null}
    BY <1>1 DEF SlotInv
  <2>4. QED
    BY <1>1, <1>2, <1>3, <2>1, <2>2, <2>3 DEF Hides, Published
<1>6. CASE LoadSlot(t, resume)
  <2> USE <1>6 DEF LoadSlot, RetryWhileTask, Signalled, SlotOf, shared
  <2>1. CASE activities[other[t]].ptr = task[t]
    BY <1>1, <1>2, <2>1 DEF Hides
  <2>2. CASE activities[other[t]].ptr # task[t]
    <3>1. \A s \in Threads : activities[s].ptr # task[t]
      BY <1>4, <2>2
    <3>2. QED
      BY <1>1, <1>2, <2>2, <3>1 DEF Hides, Published
  <2>3. QED
    BY <2>1, <2>2
<1>7. CASE CompareExchange(t, resume)
  <2>1. CASE CasMatches(t)
    <3>1. /\ activities' = [activities EXCEPT ![other[t]] = NullPtr]
          /\ pc'[t] = "add" /\ pc[t] = "cas"
          /\ UNCHANGED <<is_finished, deque, kind, pending, created, other, task>>
      BY <1>7, <2>1 DEF CompareExchange, SlotOf
    <3>2. activities[other[t]].ptr = task[t] /\ other[t] \in Threads
      BY <2>1, <3>1 DEF CasMatches, SlotOf, ThreadInv
    <3>3. \A s \in Threads : activities'[s].ptr # task[t]
      BY <1>2, <1>3, <1>4, <3>1, <3>2
    <3>4. QED
      BY <1>1, <1>2, <1>3, <3>1, <3>2, <3>3 DEF Hides, Published
  <2>2. CASE ~CasMatches(t)
    <3> USE <1>7, <2>2 DEF CompareExchange, RetryWhileTask, Signalled, SlotOf
    <3>1. CASE activities[other[t]].ptr = task[t]
      BY <1>1, <1>2, <3>1 DEF Hides
    <3>2. CASE activities[other[t]].ptr # task[t]
      <4>1. state[t] = "Assist"
        BY DEF ThreadInv
      <4>2. \A s \in Threads : activities[s].ptr # task[t]
        BY <1>4, <3>2, <4>1
      <4>3. QED
        BY <1>1, <1>2, <3>2, <4>2 DEF Hides, Published
    <3>3. QED
      BY <3>1, <3>2
  <2>3. QED
    BY <2>1, <2>2
<1>8. CASE AddReferences(t, resume)
  <2>1. pc'[t] \in {"cas", resume}
    <3>1. CASE state[t] = "Main"
      BY <1>8, <3>1 DEF AddReferences, Signalled
    <3>2. CASE state[t] # "Main"
      BY <1>8, <3>2 DEF AddReferences
    <3>3. QED
      BY <3>1, <3>2
  <2>2. UNCHANGED <<activities, is_finished, deque, kind, pending, created, other, task>> /\ pc[t] = "add"
    BY <1>8 DEF AddReferences
  <2>3. ~Published(task[t])
    BY <1>4, <2>2 DEF Published
  <2>4. QED
    BY <1>1, <1>2, <2>1, <2>2, <2>3 DEF Hides, Published
<1>9. QED
  BY <1>5, <1>6, <1>7, <1>8 DEF TaskEmpty

(* A thread that works on a task finds it entered.                         *)
LEMMA UsedIsNotFresh ==
  ASSUME ProtocolInv, NEW t \in Threads, NEW a \in Addrs, task[t] = a, pc[t] # "start"
  PROVE  ~Fresh(a)
<1>1. ~Queued(a)
  BY DEF ProtocolInv, QueueInv
<1>2. a # Null
  BY ProtocolAssumption
<1>3. \A u \in Threads : ~(pc[u] = "start" /\ task[u] = a)
  BY <1>2 DEF ProtocolInv, ExclusiveFinish
<1>4. QED
  BY <1>1, <1>3 DEF Fresh

(* push_task: the task is queued, and nobody knew its address before.      *)
LEMMA SpawnEffect ==
  ASSUME ProtocolInv, NEW t \in Threads, NEW b \in Addrs, NEW k, SpawnTask(t, b, k)
  PROVE  Spawns(t, b, k)
<1>1. /\ ProtocolTypeOK
      /\ pc[t] \in {"body", "after"} /\ kind[b] = "free"
      /\ kind' = [kind EXCEPT ![b] = k]
      /\ deque' = [deque EXCEPT ![t] = Append(deque[t], b)]
      /\ UNCHANGED <<is_finished, activities, pc, task, state>>
  BY DEF ProtocolInv, SpawnTask, local
<1>2. \A e \in Addrs : (Queued(e) => Queued(e)') /\ (Queued(e)' => Queued(e) \/ e = b) /\ Queued(b)'
  <2>1. /\ deque[t] \in Seq(Addrs) /\ Len(deque[t]) \in Nat /\ DOMAIN deque[t] = 1 .. Len(deque[t])
    BY <1>1, DequePositions
  <2>2. /\ deque'[t] = Append(deque[t], b)
        /\ \A u \in Threads \ {t} : deque'[u] = deque[u]
    BY <1>1 DEF ProtocolTypeOK
  <2>3. /\ DOMAIN deque'[t] = 1 .. Len(deque[t]) + 1
        /\ \A i \in 1 .. Len(deque[t]) : deque'[t][i] = deque[t][i]
        /\ deque'[t][Len(deque[t]) + 1] = b
    BY <2>1, <2>2, DequePush
  <2>4. /\ \A i \in DOMAIN deque[t] : i \in DOMAIN deque'[t] /\ deque'[t][i] = deque[t][i]
        /\ \A i \in DOMAIN deque'[t] : i \in DOMAIN deque[t] \/ deque'[t][i] = b
        /\ Len(deque[t]) + 1 \in DOMAIN deque'[t]
    BY <2>1, <2>3
  <2>5. QED
    BY <2>2, <2>3, <2>4 DEF Queued
<1>3. \A u \in Threads : task[u] # b
  BY <1>1, ProtocolAssumption DEF ProtocolInv, ExclusiveFinish
<1>4. ~Published(b)
  BY <1>1, <1>3, ProtocolAssumption DEF ProtocolInv, SlotInv, Published
<1>5. \A e \in Addrs : Fresh(e)' <=> Fresh(e) \/ e = b
  BY <1>1, <1>2 DEF Fresh
<1>6. QED
  BY <1>1, <1>3, <1>4, <1>5 DEF Spawns

(* take_data: the thread has the task for itself.                          *)
LEMMA FreeEffect ==
  ASSUME ProtocolInv, NEW t \in Threads, FreeTask(t)
  PROVE  Frees(t)
<1>1. /\ ProtocolTypeOK /\ task[t] \in Addrs
      /\ pc[t] = "finish" /\ pc'[t] = "after" /\ task'[t] = Null
      /\ kind' = [kind EXCEPT ![task[t]] = "free"]
      /\ UNCHANGED <<is_finished, deque, activities>>
  BY TaskIsAddress DEF ProtocolInv, FreeTask, Goto, ProtocolTypeOK
<1>2. \A e \in Addrs : Fresh(e)' = Fresh(e)
  BY <1>1, FreshKept DEF ThreadStep
<1>3. /\ ~Published(task[t])
      /\ \A u \in Threads \ {t} : task[u] # task[t]
  BY <1>1, ProtocolAssumption DEF ProtocolInv, ExclusiveFinish
<1>4. ~Fresh(task[t])
  BY <1>1, UsedIsNotFresh
<1>5. QED
  BY <1>1, <1>2, <1>3, <1>4 DEF Frees

(* A thread that runs a chunk or finishes a task keeps the pool going.     *)
LEMMA BusyIsNotStopped ==
  ASSUME ProtocolInv, NEW t \in Threads, pc[t] \in {"body", "after"}
  PROVE  ~is_finished
<1>1. CASE pc[t] = "body"
  <2>1. task[t] # Null
    BY <1>1 DEF ProtocolInv, ThreadInv, Working
  <2>2. QED
    BY <2>1, InvImpliesDone DEF FinishMeansDone
<1>2. CASE pc[t] = "after"
  BY <1>2, AfterIsCounted DEF ProtocolInv, PendingInv
<1>3. QED
  BY <1>1, <1>2

(* The last count is taken down when no task is left.                      *)
LEMMA LastIsFree ==
  ASSUME ProtocolInv, NEW t \in Threads, pc[t] = "after", pending = 1
  PROVE  \A a \in Addrs : kind[a] = "free"
<1> DEFINE Live  == {a \in Addrs : kind[a] # "free"}
           After == {u \in Threads : pc[u] = "after"}
<1>1. pending = Cardinality(Live) + Cardinality(After)
  BY DEF ProtocolInv, PendingInv
<1>2. /\ IsFiniteSet(Live) /\ Cardinality(Live) \in Nat
      /\ IsFiniteSet(After) /\ Cardinality(After) \in Nat
  BY FiniteParts
<1>3. Cardinality(After) # 0
  BY <1>2, FS_EmptySet
<1>4. Cardinality(Live) = 0
  BY <1>1, <1>2, <1>3
<1>5. Live = {}
  BY <1>2, <1>4, FS_EmptySet
<1>6. QED
  BY <1>5

-----------------------------------------------------------------------------
(* The word of PtrWord.                                                    *)

(* Facts about products, which the provers need one at a time.             *)
LEMMA WordSizes ==
  /\ HALF \in Nat \ {0} /\ WORDS \in Nat \ {0} /\ WORDS = 2 * HALF
  /\ WORDS = (2 * HALF_ADDRESSES) * TAGS
  /\ HALF_ADDRESSES <= HALF
BY WordAssumption DEF HALF, WORDS

(* Dividing a pointer with its tag gives back the two.                     *)
LEMMA DivideMultiple ==
  ASSUME NEW q \in Int, NEW r \in 0 .. TAGS - 1
  PROVE  /\ (q * TAGS + r) \div TAGS = q
         /\ (q * TAGS + r) % TAGS = r
BY WordAssumption

(* A word, and a word as a negative number, is itself.                     *)
LEMMA ModuloWord ==
  ASSUME NEW x \in 0 .. WORDS - 1
  PROVE  x % WORDS = x /\ (x - WORDS) % WORDS = x
BY WordSizes

(* TaggedPtr::new, ptr and tag: a word holds its pointer and its tag.      *)
LEMMA PackedWord ==
  ASSUME NEW ptr \in Addresses, NEW tag \in 0 .. TAGS - 1
  PROVE  /\ MayPack(tag)
         /\ Pack(ptr, tag) \in 0 .. WORDS - 1
         /\ PtrOf(Pack(ptr, tag)) = ptr
         /\ TagOf(Pack(ptr, tag)) = tag
<1> DEFINE upper(q) == q * TAGS
<1>1. MayPack(tag)
  BY WordAssumption DEF MayPack
<1>2. CASE ptr \in 0 .. HALF_ADDRESSES - 1
  <2>1. upper(ptr) + tag \in 0 .. HALF - 1 /\ upper(ptr) \in 0 .. HALF - 1
    <3>1. upper(ptr) \in 0 .. HALF - TAGS
      <4>1. \A h \in Nat : \A p \in 0 .. h - 1 : p * TAGS \in 0 .. h * TAGS - TAGS
        BY WordAssumption
      <4>2. QED
        BY <1>2, <4>1, WordAssumption DEF HALF
    <3>2. QED
      BY <3>1, WordSizes, WordAssumption
  <2>2. Pack(ptr, tag) = upper(ptr) + tag
    <3>1. upper(ptr) % WORDS = upper(ptr)
      BY <2>1, ModuloWord, WordSizes
    <3>2. QED
      BY <3>1 DEF Pack
  <2>3. Signed(Pack(ptr, tag)) \div TAGS = ptr
    <3>1. Signed(Pack(ptr, tag)) = upper(ptr) + tag
      BY <2>1, <2>2, WordSizes DEF Signed
    <3>2. QED
      BY <1>2, <3>1, DivideMultiple, WordAssumption
  <2>4. ptr % WORDS = ptr
    <3>1. ptr \in 0 .. WORDS - 1
      BY <1>2, WordSizes, WordAssumption
    <3>2. QED
      BY <3>1, ModuloWord
  <2>5. TagOf(Pack(ptr, tag)) = tag
    BY <1>2, <2>2, DivideMultiple DEF TagOf
  <2>6. QED
    BY <1>1, <2>1, <2>2, <2>3, <2>4, <2>5, WordSizes DEF PtrOf
<1>3. CASE ptr \in WORDS - HALF_ADDRESSES .. WORDS - 1
  <2> DEFINE below == ptr - WORDS   \* the pointer as a negative number
  <2>1. below \in -HALF_ADDRESSES .. -1
    BY <1>3, WordSizes, WordAssumption
  <2>2. upper(below) \in -HALF .. -1 /\ upper(below) + tag \in -HALF .. -1
    <3>1. \A h \in Nat : \A b \in -h .. -1 : b * TAGS >= -(h * TAGS) /\ b * TAGS <= -TAGS
      BY WordAssumption
    <3>2. upper(below) >= -HALF /\ upper(below) <= -TAGS /\ upper(below) \in Int
      BY <2>1, <3>1, WordAssumption DEF HALF
    <3>3. QED
      BY <3>2, WordSizes, WordAssumption
  <2>3. Pack(ptr, tag) = WORDS + upper(below) + tag
    <3>1. upper(ptr) = upper(below) + WORDS * TAGS
      BY <1>3, WordSizes, WordAssumption
    <3>2. WORDS + upper(below) \in 0 .. WORDS - 1
      BY <2>2, WordSizes
    <3>3. upper(ptr) = (WORDS + upper(below)) + (TAGS - 1) * WORDS
      BY <3>1, <2>1, WordSizes, WordAssumption
    <3>4. \A W \in Nat \ {0} : \A x \in 0 .. W - 1, k \in Nat : (x + k * W) % W = x
      OBVIOUS
    <3>5. upper(ptr) % WORDS = WORDS + upper(below)
      <4>1. TAGS - 1 \in Nat
        BY WordAssumption
      <4>2. ((WORDS + upper(below)) + (TAGS - 1) * WORDS) % WORDS = WORDS + upper(below)
        <5> HIDE DEF upper
        <5>1. WORDS \in Nat \ {0}
          BY WordSizes
        <5>2. QED
          BY <3>2, <3>4, <4>1, <5>1
      <4>3. QED
        BY <3>3, <4>2
    <3>6. QED
      BY <3>5 DEF Pack
  <2>4. Signed(Pack(ptr, tag)) = upper(below) + tag
    BY <2>2, <2>3, WordSizes DEF Signed
  <2>5. Signed(Pack(ptr, tag)) \div TAGS = below
    BY <2>1, <2>4, DivideMultiple
  <2>6. below % WORDS = ptr
    BY <1>3, ModuloWord, WordSizes, WordAssumption
  <2>7. TagOf(Pack(ptr, tag)) = tag
    <3>1. Pack(ptr, tag) = (2 * HALF_ADDRESSES + below) * TAGS + tag
      BY <2>1, <2>3, WordSizes, WordAssumption
    <3>2. QED
      BY <2>1, <3>1, DivideMultiple, WordAssumption DEF TagOf
  <2>8. QED
    BY <1>1, <2>2, <2>3, <2>5, <2>6, <2>7, WordSizes, WordAssumption DEF PtrOf
<1>4. QED
  BY <1>2, <1>3 DEF Addresses

(* fetch_add_tag adds one to the tag and leaves the pointer, unless the    *)
(* tag is the greatest there is.                                           *)
LEMMA AddedTag ==
  ASSUME NEW ptr \in Addresses, NEW tag \in 0 .. TAGS - 1, tag + 1 < TAGS
  PROVE  FetchAddWord(Pack(ptr, tag), 1) = Pack(ptr, tag + 1)
<1>1. Pack(ptr, tag + 1) \in 0 .. WORDS - 1
  <2>1. tag + 1 \in 0 .. TAGS - 1
    BY WordAssumption
  <2>2. QED
    BY <2>1, PackedWord
<1>2. Pack(ptr, tag) \in 0 .. WORDS - 1
  BY PackedWord
<1>3. (ptr * TAGS) % WORDS \in Int
  BY WordSizes, WordAssumption DEF Addresses
<1>4. Pack(ptr, tag) + 1 = Pack(ptr, tag + 1)
  BY <1>3 DEF Pack
<1>5. QED
  BY <1>1, <1>4, ModuloWord DEF FetchAddWord

-----------------------------------------------------------------------------
(* No tag of the protocol needs more than N values: not those of the       *)
(* slots, nor those a thread has read from a slot.                         *)
TagsFit ==
  /\ \A s \in Threads : activities[s].tag \in 0 .. N - 1
  /\ \A t \in Threads : value[t].tag \in 0 .. N - 1

(* A tag counts threads: those that use the task besides the one that      *)
(* published it, or those that were late for a task that is gone.          *)
LEMMA SlotTags ==
  ASSUME ProtocolInv
  PROVE  \A s \in Threads : activities[s].tag \in 0 .. N - 1
<1> SUFFICES ASSUME NEW s \in Threads
             PROVE  activities[s].tag \in 0 .. N - 1
  OBVIOUS
<1>1. activities[s].ptr \in Addrs \cup {Null} /\ activities[s].tag \in Nat
  BY DEF ProtocolInv, ProtocolTypeOK, TaggedPtr
<1>2. CASE activities[s].ptr = Null
  <2> DEFINE joining == {t \in Threads : pc[t] = "join" /\ other[t] = s}
  <2>1. Cardinality(joining) \in Nat
    BY FiniteParts
  <2>2. activities[s].tag + Cardinality(joining) <= N - 1
    BY <1>2 DEF ProtocolInv, NullTagBound
  <2>3. QED
    BY <1>1, <2>1, <2>2, ProtocolAssumption
<1>3. CASE activities[s].ptr \in Addrs
  <2> DEFINE users == Users(activities[s].ptr)
  <2>1. Cardinality(users) = activities[s].tag + 1
    BY <1>3 DEF ProtocolInv, ReferenceCount
  <2>2. Cardinality(users) <= N
    BY FiniteParts, FS_Subset DEF Users
  <2>3. QED
    BY <1>1, <2>1, <2>2, ProtocolAssumption
<1>4. QED
  BY <1>1, <1>2, <1>3

(* What a thread remembers of a slot is what it last read there.           *)
LEMMA ValueRead ==
  ASSUME ProtocolTypeOK, [ProtocolNext]_protocolVars, NEW t \in Threads
  PROVE  value'[t] \in {value[t], NullPtr} \cup {activities[s] : s \in Threads}
<1> USE DEF ProtocolTypeOK
<1>1. CASE UNCHANGED protocolVars
  BY <1>1 DEF protocolVars, local, signal
<1>2. ASSUME NEW u \in Threads, ThreadStep(u)
      PROVE  value'[t] \in {value[t], NullPtr} \cup {activities[s] : s \in Threads}
  <2>1. CASE ProtocolStep(u)
    BY <2>1 DEF ProtocolStep, DoWork, PopTask, LookAround, StealTask, StealNothing,
      CheckActivity, JoinActivity, StartSingle, StartLoop, EndTask, CountDown,
      VisitNext, signal, local
  <2>2. CASE ChunkLoop(u)
    BY <2>2 DEF ChunkLoop, signal
  <2>3. ASSUME NEW resume \in {"body", "end"}, TaskEmpty(u, resume)
        PROVE  value'[t] \in {value[t], NullPtr} \cup {activities[s] : s \in Threads}
    <3>1. CASE SwapSlot(u, resume)
      BY <3>1 DEF SwapSlot, Signalled
    <3>2. CASE LoadSlot(u, resume)
      BY <3>2 DEF LoadSlot, RetryWhileTask, Signalled, SlotOf
    <3>3. CASE CompareExchange(u, resume)
      BY <3>3 DEF CompareExchange, RetryWhileTask, Signalled, SlotOf, signal
    <3>4. CASE AddReferences(u, resume)
      BY <3>4 DEF AddReferences, Signalled, signal
    <3>5. QED
      BY <2>3, <3>1, <3>2, <3>3, <3>4 DEF TaskEmpty
  <2>4. CASE FreeTask(u)
    BY <2>4 DEF FreeTask, signal
  <2>5. CASE \E a \in Addrs, k \in {"single", "loop"} : SpawnTask(u, a, k)
    BY <2>5 DEF SpawnTask, local
  <2>6. QED
    BY <1>2, <2>1, <2>2, <2>3, <2>4, <2>5 DEF ThreadStep
<1>3. QED
  BY <1>1, <1>2 DEF ProtocolNext

(* Tags stay below N, however often threads are late for a task.           *)
LEMMA TagsStayBounded == ProtocolSpec => []TagsFit
<1> DEFINE ValueTags == \A t \in Threads : value[t].tag \in 0 .. N - 1
<1>1. (\E a \in Addrs, k \in {"single", "loop"} : ProtocolInit(a, k)) => ValueTags
  BY ProtocolAssumption DEF ProtocolInit, NullPtr
<1>2. ProtocolInv /\ ValueTags /\ [ProtocolNext]_protocolVars => ValueTags'
  <2> SUFFICES ASSUME ProtocolInv, ValueTags, [ProtocolNext]_protocolVars, NEW t \in Threads
               PROVE  value'[t].tag \in 0 .. N - 1
    OBVIOUS
  <2>1. value'[t] \in {value[t], NullPtr} \cup {activities[s] : s \in Threads}
    BY ValueRead DEF ProtocolInv
  <2>2. NullPtr.tag \in 0 .. N - 1
    BY ProtocolAssumption DEF NullPtr
  <2>3. QED
    BY <2>1, <2>2, SlotTags
<1>3. ProtocolInv /\ ValueTags => TagsFit
  BY SlotTags DEF TagsFit
<1> HIDE DEF ValueTags
<1>4. QED
  BY <1>1, <1>2, <1>3, ProtocolInvariant, PTL DEF ProtocolSpec

-----------------------------------------------------------------------------
(* The word in a slot, with the numbers of the addresses.                  *)
Word(address, p) == Pack(address[p.ptr], p.tag)

(* What the protocol does with the fields of a TaggedPtr, the code does    *)
(* with one word: a slot's word gives its pointer and tag (ptr, tag),      *)
(* fetch_add_tag is an addition that never carries into the pointer, and   *)
(* compare_exchange compares words where the protocol compares records.    *)
THEOREM WordsImplementTaggedPtrs ==
  ASSUME NEW address \in [Addrs \cup {Null} -> Addresses],
         \A a, b \in Addrs \cup {Null} : address[a] = address[b] => a = b,
         N <= TAGS
  PROVE  ProtocolSpec =>
    /\ [](\A s \in Threads :
           /\ PtrOf(Word(address, activities[s])) = address[activities[s].ptr]
           /\ TagOf(Word(address, activities[s])) = activities[s].tag)
    /\ [](\A t, s \in Threads :
           Word(address, value[t]) = Word(address, activities[s])
             <=> value[t] = activities[s])
    /\ [][\A t, s \in Threads : JoinActivity(t) /\ other[t] = s =>
           Word(address, activities'[s])
             = FetchAddWord(Word(address, activities[s]), 1)]_protocolVars
<1> DEFINE Read    == \A s \in Threads :
                        /\ PtrOf(Word(address, activities[s])) = address[activities[s].ptr]
                        /\ TagOf(Word(address, activities[s])) = activities[s].tag
           Compare == \A t, s \in Threads :
                        Word(address, value[t]) = Word(address, activities[s])
                          <=> value[t] = activities[s]
           Add     == \A t, s \in Threads : JoinActivity(t) /\ other[t] = s =>
                        Word(address, activities'[s])
                          = FetchAddWord(Word(address, activities[s]), 1)
           Fits(p) == p \in TaggedPtr /\ p.tag \in 0 .. N - 1
<1>1. ASSUME NEW p, Fits(p)
      PROVE  /\ PtrOf(Word(address, p)) = address[p.ptr]
             /\ TagOf(Word(address, p)) = p.tag
  <2>1. address[p.ptr] \in Addresses /\ p.tag \in 0 .. TAGS - 1
    BY <1>1, ProtocolAssumption, WordAssumption DEF TaggedPtr
  <2>2. QED
    BY <2>1, PackedWord DEF Word
<1>2. ASSUME NEW p, NEW q, Fits(p), Fits(q), Word(address, p) = Word(address, q)
      PROVE  p = q
  <2>1. p.ptr = q.ptr /\ p.tag = q.tag
    <3>1. address[p.ptr] = address[q.ptr] /\ p.tag = q.tag
      BY <1>1, <1>2
    <3>2. QED
      BY <1>2, <3>1 DEF TaggedPtr
  <2>2. QED
    BY <1>2, <2>1 DEF TaggedPtr
<1>3. ProtocolInv /\ TagsFit =>
        /\ \A s \in Threads : Fits(activities[s])
        /\ \A t \in Threads : Fits(value[t])
  BY DEF ProtocolInv, ProtocolTypeOK, TagsFit
<1>4. ProtocolInv /\ TagsFit => Read
  BY <1>1, <1>3
<1>5. ProtocolInv /\ TagsFit => Compare
  BY <1>2, <1>3
<1>6. ProtocolInv /\ TagsFit /\ TagsFit' => Add
  <2> SUFFICES ASSUME ProtocolInv, TagsFit, TagsFit',
                      NEW t \in Threads, NEW s \in Threads, JoinActivity(t), other[t] = s
               PROVE  Word(address, activities'[s])
                        = FetchAddWord(Word(address, activities[s]), 1)
    OBVIOUS
  <2>1. Fits(activities[s])
    BY <1>3
  <2>2. activities'[s] = [ptr |-> activities[s].ptr, tag |-> activities[s].tag + 1]
    BY DEF ProtocolInv, ProtocolTypeOK, JoinActivity, FetchAddTag
  <2>3. activities[s].tag + 1 < TAGS
    BY <2>2, ProtocolAssumption, WordAssumption DEF TagsFit
  <2>4. address[activities[s].ptr] \in Addresses /\ activities[s].tag \in 0 .. TAGS - 1
    BY <2>1, ProtocolAssumption, WordAssumption DEF TaggedPtr
  <2>5. QED
    BY <2>2, <2>3, <2>4, AddedTag DEF Word
<1> HIDE DEF Read, Compare, Add
<1>7. QED
  <2>1. ProtocolSpec => []Read /\ []Compare /\ [][Add]_protocolVars
    BY <1>4, <1>5, <1>6, ProtocolInvariant, TagsStayBounded, PTL
  <2>2. QED
    BY <2>1 DEF Read, Compare, Add

-----------------------------------------------------------------------------
(* A thread that stopped claiming has a task that is closed.               *)
EndIsClosed ==
  \A t \in Threads : pc[t] = "end" =>
    /\ task[t] \in Addrs /\ kind[task[t]] # "free"
    /\ ~Fresh(task[t]) /\ ~Published(task[t])

(* That a task is closed when a thread ends its loop is part of the        *)
(* protocol's invariant: the thread has hidden it.                         *)
LEMMA InvImpliesEndIsClosed == ProtocolInv => EndIsClosed
<1>1. SUFFICES ASSUME ProtocolInv, NEW t \in Threads, pc[t] = "end"
               PROVE  /\ task[t] \in Addrs /\ kind[task[t]] # "free"
                      /\ ~Fresh(task[t]) /\ ~Published(task[t])
  BY DEF EndIsClosed
<1>2. task[t] \in Addrs /\ task[t] # Null
  BY <1>1, TaskIsAddress, ProtocolAssumption DEF ProtocolInv, Working
<1>3. kind[task[t]] # "free"
  BY <1>1, <1>2 DEF ProtocolInv, ExclusiveFinish
<1>4. ~Fresh(task[t])
  BY <1>1, <1>2, UsedIsNotFresh
<1>5. ~Published(task[t])
  <2>1. SUFFICES ASSUME NEW s \in Threads, activities[s].ptr = task[t] PROVE FALSE
    BY DEF Published
  <2>2. state[t] = "DidSignal"
    BY <1>1 DEF ProtocolInv, ThreadInv
  <2>3. QED
    BY <1>1, <1>2, <2>1, <2>2 DEF ProtocolInv, SlotInv
<1>6. QED
  BY <1>2, <1>3, <1>4, <1>5

(* A thread that is about to leave, or leaves the work loop, keeps its     *)
(* task.                                                                   *)
LEMMA EndKeepsTask ==
  ASSUME ProtocolTypeOK, NEW t \in Threads, ThreadStep(t), NEW u \in Threads,
         pc'[u] \in {"end", "finish"}
  PROVE  /\ task'[u] = task[u]
         /\ pc'[u] = "finish" =>
              pc[u] \in {"end", "finish"} \/ (pc[u] = "start" /\ kind[task[u]] = "single")
<1>1. CASE u # t
  BY <1>1, OwnLocals
<1>2. CASE u = t
  BY <1>2
     DEF ThreadStep, ProtocolStep, DoWork, PopTask, LookAround, StealTask, StealNothing,
         CheckActivity, VisitNext, JoinActivity, StartSingle, StartLoop, EndTask, CountDown,
         ChunkLoop, TaskEmpty, SwapSlot, LoadSlot, CompareExchange, AddReferences, RetryWhileTask,
         Signalled, FreeTask, SpawnTask, Goto, ProtocolTypeOK, signal, local, shared
<1>3. QED
  BY <1>1, <1>2

(* A task is fresh when it is created, and offered when it was fresh.      *)
LEMMA OnlyFreshIsOffered ==
  ASSUME ProtocolInv, NEW t \in Threads, ThreadStep(t), NEW a \in Addrs
  PROVE  /\ Fresh(a)' => Fresh(a) \/ kind[a] = "free"
         /\ Published(a)' => Published(a) \/ Fresh(a)
         /\ kind'[a] # "free" /\ kind[a] # "free" => kind'[a] = kind[a]
<1>1. ProtocolTypeOK
  BY DEF ProtocolInv
<1>2. CASE ProtocolStep(t)
  <2>1. Quiet(t) \/ Joins(t) \/ Publishes(t) \/ Leaves(t)
    BY <1>2, ProtocolStepEffect
  <2>2. CASE Quiet(t)
    BY <2>2 DEF Quiet, SamePtrs, Published
  <2>3. CASE Joins(t) \/ Leaves(t)
    <3>1. Fresh(a)' = Fresh(a)
      BY <1>1, <2>3, FreshKept DEF Joins, Leaves
    <3>2. QED
      BY <2>3, <3>1 DEF Joins, Leaves, SamePtrs, Published
  <2>4. CASE Publishes(t)
    <3>1. kind' = kind /\ deque' = deque /\ task' = task /\ pc[t] = "start" /\ pc'[t] = "enter"
      BY <2>4 DEF Publishes
    <3>2. \A u \in Threads \ {t} : pc'[u] = pc[u]
      BY <1>1, OwnLocals
    <3>3. Fresh(a)' => Fresh(a)
      BY <3>1, <3>2 DEF Fresh, Queued
    <3>4. Published(a)' => Published(a) \/ Fresh(a)
      BY <1>1, <2>4, <3>1 DEF Publishes, Published, Fresh, ProtocolTypeOK
    <3>5. QED
      BY <3>1, <3>3, <3>4
  <2>5. QED
    BY <2>1, <2>2, <2>3, <2>4
<1>3. CASE ChunkLoop(t)
  <2>1. Fresh(a)' = Fresh(a)
    BY <1>1, <1>3, FreshKept DEF ChunkLoop, Goto, shared, ProtocolTypeOK
  <2>2. QED
    BY <1>3, <2>1 DEF ChunkLoop, shared, Published
<1>4. ASSUME NEW resume \in {"body", "end"}, TaskEmpty(t, resume)
      PROVE  /\ Fresh(a)' => Fresh(a)
             /\ Published(a)' => Published(a)
             /\ kind' = kind
  <2>1. Hides(t, resume)
    BY <1>4, HideEffect
  <2>2. Fresh(a)' = Fresh(a)
    BY <1>1, <2>1, FreshKept DEF Hides
  <2>3. a # Null
    BY ProtocolAssumption
  <2>4. QED
    BY <2>1, <2>2, <2>3 DEF Hides, Published
<1>5. CASE FreeTask(t)
  <2>1. Frees(t)
    BY <1>5, FreeEffect
  <2>2. QED
    BY <1>1, <2>1 DEF Frees, Published, ProtocolTypeOK
<1>6. ASSUME NEW b \in Addrs, NEW k, SpawnTask(t, b, k)
      PROVE  /\ Fresh(a)' => Fresh(a) \/ kind[a] = "free"
             /\ Published(a)' => Published(a)
             /\ kind'[a] # "free" /\ kind[a] # "free" => kind'[a] = kind[a]
  <2>1. Spawns(t, b, k)
    BY <1>6, SpawnEffect
  <2>2. QED
    BY <1>1, <2>1 DEF Spawns, Published, ProtocolTypeOK
<1>7. QED
  BY <1>2, <1>3, <1>4, <1>5, <1>6 DEF ThreadStep

(* A task that is closed stays closed until it is freed.                   *)
LEMMA EndedStep ==
  ASSUME ProtocolInv, ProtocolInv', EndedInv, NEW t \in Threads, ThreadStep(t),
         NEW works, HistoryNext(works)
  PROVE  EndedInv'
<1> DEFINE freed == {a \in Addrs : kind[a] # "free" /\ kind'[a] = "free"}
<1>1. ProtocolTypeOK /\ EndIsClosed'
  BY InvImpliesEndIsClosed, PTL DEF ProtocolInv
<1>2. ended' = (ended \cup {task[u] : u \in {v \in Threads : pc'[v] = "end"}}) \ freed
  BY DEF HistoryNext
<1>3. \A u \in Threads : pc'[u] = "end" => task'[u] = task[u] /\ task[u] \in ended'
  BY <1>1, <1>2, EndKeepsTask DEF EndIsClosed
<1>4. ASSUME NEW a \in ended'
      PROVE  a \in Addrs /\ kind'[a] # "free" /\ ~Fresh(a)' /\ ~Published(a)'
  <2>1. CASE \E u \in Threads : pc'[u] = "end" /\ a = task[u]
    BY <1>1, <1>3, <2>1 DEF EndIsClosed
  <2>2. CASE a \in ended
    <3>1. a \in Addrs /\ kind[a] # "free" /\ ~Fresh(a) /\ ~Published(a)
      BY <2>2 DEF EndedInv
    <3>2. kind'[a] # "free"
      BY <1>2, <1>4, <3>1
    <3>3. QED
      BY <3>1, <3>2, OnlyFreshIsOffered
  <2>3. QED
    BY <1>2, <1>4, <2>1, <2>2
<1>5. ASSUME NEW u \in Threads,
             pc'[u] = "end" \/ (pc'[u] = "finish" /\ kind'[task'[u]] = "loop")
      PROVE  task'[u] \in ended'
  <2>1. CASE pc'[u] = "end"
    BY <1>3, <2>1
  <2>2. CASE pc'[u] = "finish" /\ kind'[task'[u]] = "loop"
    <3>1. task'[u] = task[u] /\ (pc[u] \in {"end", "finish"} \/ (pc[u] = "start" /\ kind[task[u]] = "single"))
      BY <1>1, <2>2, EndKeepsTask
    <3>2. task[u] \in Addrs /\ task[u] # Null
      BY <3>1, TaskIsAddress, ProtocolAssumption DEF ProtocolInv, Working
    <3>3. kind[task[u]] # "free"
      BY <3>2 DEF ProtocolInv, ExclusiveFinish
    <3>4. kind[task[u]] = "loop"
      BY <2>2, <3>1, <3>2, <3>3, OnlyFreshIsOffered
    <3>5. task[u] \in ended
      BY <3>1, <3>4 DEF EndedInv
    <3>6. QED
      BY <1>2, <2>2, <3>1, <3>5
  <2>3. QED
    BY <1>5, <2>1, <2>2
<1>6. QED
  BY <1>4, <1>5 DEF EndedInv

(* The number of a new task is larger than those before.                   *)
LEMMA IdentityStep ==
  ASSUME ProtocolTypeOK, NEW v, NEW w, IdentityInv(v), HistoryNext(w),
         NEW S \in SUBSET Addrs, S = {a \in Addrs : kind[a] = "free" /\ kind'[a] # "free"},
         \A a \in Addrs : kind[a] # "free" /\ kind'[a] # "free" => w[a] = v[a],
         \/ S = {} /\ created' = created
         \/ created' = created + 1 /\ \A a, b \in S : a = b
  PROVE  IdentityInv(w)'
<1>1. created \in Nat \ {0} /\ created' \in Nat \ {0} /\ created <= created'
      /\ \A a \in S : created' = created + 1
  BY DEF ProtocolTypeOK
<1> DEFINE freed == {a \in Addrs : kind[a] # "free" /\ kind'[a] = "free"}
<1>2. /\ identity' = [a \in Addrs |-> IF a \in S THEN <<created', w[a]>>
                                      ELSE IF a \in freed THEN NoIdentity ELSE identity[a]]
      /\ retired' = retired \cup {identity[a] : a \in freed}
  BY DEF HistoryNext
<1>3. \A a \in Addrs : identity[a] = IF kind[a] = "free" THEN NoIdentity
                                     ELSE <<identity[a][1], v[a]>>
  BY DEF IdentityInv
<1>4. \A a \in Addrs :
        /\ a \in S => identity'[a] = <<created', w[a]>> /\ identity'[a][1] = created + 1
        /\ kind'[a] = "free" => identity'[a] = NoIdentity /\ identity'[a][1] = 0
        /\ kind[a] # "free" /\ kind'[a] # "free" =>
             identity'[a] = identity[a] /\ identity[a] = <<identity[a][1], w[a]>>
  <2>1. TAKE a \in Addrs
  <2>2. CASE a \in S
    BY <1>1, <1>2, <2>2
  <2>3. CASE kind'[a] = "free"
    <3>1. identity'[a] = NoIdentity
      BY <1>2, <1>3, <2>3
    <3>2. QED
      BY <2>3, <3>1 DEF NoIdentity
  <2>4. CASE kind[a] # "free" /\ kind'[a] # "free"
    <3>1. identity'[a] = identity[a]
      BY <1>2, <2>4
    <3>2. identity[a] = <<identity[a][1], w[a]>>
      BY <1>3, <2>4
    <3>3. QED
      BY <2>4, <3>1, <3>2
  <2>5. QED
    BY <2>2, <2>3, <2>4
<1>5. \A a \in Addrs : kind[a] # "free" => identity[a][1] \in 1 .. created
  BY DEF IdentityInv
<1>6. identity' = [a \in Addrs |-> IF kind'[a] = "free" THEN NoIdentity
                                   ELSE <<identity'[a][1], w[a]>>]
  <2>1. \A a \in Addrs : identity'[a] = IF kind'[a] = "free" THEN NoIdentity
                                        ELSE <<identity'[a][1], w[a]>>
    BY <1>4
  <2>2. QED
    BY <1>2, <2>1
<1>7. \A a \in Addrs : kind'[a] # "free" => identity'[a][1] \in 1 .. created'
  BY <1>1, <1>4, <1>5
<1>8. ASSUME NEW a \in Addrs, NEW b \in Addrs, kind'[a] # "free", identity'[a][1] = identity'[b][1]
      PROVE  a = b
  <2>1. kind'[b] # "free"
    BY <1>4, <1>7, <1>8
  <2>2. CASE a \in S /\ b \in S
    BY <2>2
  <2>3. CASE a \notin S /\ b \notin S
    BY <1>4, <1>8, <2>1, <2>3 DEF IdentityInv
  <2>4. CASE a \in S /\ b \notin S
    BY <1>1, <1>4, <1>5, <1>8, <2>1, <2>4
  <2>5. CASE a \notin S /\ b \in S
    BY <1>1, <1>4, <1>5, <1>8, <2>1, <2>5
  <2>6. QED
    BY <2>2, <2>3, <2>4, <2>5
<1>9. ASSUME NEW i \in retired'
      PROVE  i[1] \in 1 .. created' /\ \A a \in Addrs : identity'[a][1] # i[1]
  <2>1. i[1] \in 1 .. created /\ \A a \in Addrs : identity[a][1] = i[1] => a \in freed
    <3>1. CASE i \in retired
      BY <3>1 DEF IdentityInv
    <3>2. CASE i \notin retired
      <4>1. PICK b \in freed : i = identity[b]
        BY <1>2, <1>9, <3>2
      <4>2. QED
        BY <1>5, <4>1 DEF IdentityInv
    <3>3. QED
      BY <3>1, <3>2
  <2>2. QED
    BY <1>1, <1>4, <2>1
<1>10. QED
  BY <1>6, <1>7, <1>8, <1>9 DEF IdentityInv

-----------------------------------------------------------------------------
(* What a step that creates and frees no task does to the history.         *)
LEMMA HistoryKept ==
  ASSUME NEW v, NEW w, IdentityInv(v), HistoryNext(w), kind' = kind
  PROVE  /\ identity' = identity /\ retired' = retired
         /\ ended' = ended \cup {task[u] : u \in {x \in Threads : pc'[x] = "end"}}
<1>1. identity = [a \in Addrs |-> identity[a]]
  BY DEF IdentityInv
<1>2. identity' = [a \in Addrs |-> identity[a]]
  BY DEF HistoryNext
<1>3. QED
  BY <1>1, <1>2 DEF HistoryNext

(* Two tasks that exist are not the same.                                  *)
LEMMA IdentityIsOwn ==
  ASSUME NEW v, IdentityInv(v), NEW a \in Addrs, NEW b \in Addrs, kind[a] # "free",
         identity[a] = identity[b]
  PROVE  a = b
BY DEF IdentityInv

(* A task is closed by a thread that ends its chunk loop, no other step    *)
(* closes one.                                                             *)
LEMMA EndedKept ==
  ASSUME ProtocolTypeOK, EndedInv, NEW v, NEW w, IdentityInv(v), HistoryNext(w), kind' = kind,
         NEW t \in Threads, ThreadStep(t)
  PROVE  /\ pc'[t] # "end" \/ pc[t] = "end" => ended' = ended
         /\ pc'[t] = "end" => ended' = ended \cup {task[t]}
<1>1. ended' = ended \cup {task[u] : u \in {x \in Threads : pc'[x] = "end"}}
  BY HistoryKept
<1>2. \A u \in Threads \ {t} : pc'[u] = "end" => task[u] \in ended
  BY OwnLocals DEF EndedInv
<1>3. pc[t] = "end" => task[t] \in ended
  BY DEF EndedInv
<1>4. QED
  BY <1>1, <1>2, <1>3

(* The client sees nothing but the thread itself.                          *)
LEMMA UnseenEffect ==
  ASSUME ProtocolTypeOK, EndedInv, NEW v, NEW w, IdentityInv(v), HistoryNext(w), kind' = kind,
         NEW t \in Threads, ThreadStep(t),
         \A a \in Addrs : Fresh(a)' <=> Fresh(a), pc'[t] = "end" => pc[t] = "end"
  PROVE  /\ identity' = identity /\ retired' = retired /\ Started' = Started
         /\ queued' = queued /\ open' = open
<1>1. identity' = identity /\ retired' = retired /\ ended' = ended
  BY HistoryKept, EndedKept
<1>2. Started' = Started /\ {b \in Addrs : Fresh(b)'} = {b \in Addrs : Fresh(b)}
  BY DEF Started
<1>3. QED
  BY <1>1, <1>2 DEF queued, open

(* The thread ends its chunk loop: the task is closed.                     *)
LEMMA CloseEffect ==
  ASSUME ProtocolInv, EndedInv, NEW v, NEW w, IdentityInv(v), HistoryNext(w), kind' = kind,
         NEW t \in Threads, ThreadStep(t), task[t] \in Addrs, kind[task[t]] # "free",
         \A a \in Addrs : Fresh(a)' <=> Fresh(a), pc'[t] = "end"
  PROVE  /\ identity' = identity /\ retired' = retired /\ Started' = Started
         /\ queued' = queued /\ open' = open \ {identity[task[t]]}
<1>1. /\ identity' = identity /\ retired' = retired
      /\ ended' = ended \cup {task[t]}
  BY HistoryKept, EndedKept DEF ProtocolInv
<1>2. Started' = Started /\ {b \in Addrs : Fresh(b)'} = {b \in Addrs : Fresh(b)}
  BY DEF Started
<1>3. queued' = queued
  BY <1>1, <1>2 DEF queued
<1>4. \A b \in Addrs : identity[b] = identity[task[t]] => b = task[t]
  BY IdentityIsOwn
<1>5. open' = {identity[b] : b \in {c \in Started : kind[c] = "loop" /\ c \notin ended /\ c # task[t]}}
  BY <1>1, <1>2 DEF open
<1>6. Started \subseteq Addrs
  BY DEF Started
<1>7. open' = open \ {identity[task[t]]}
  BY <1>4, <1>5, <1>6 DEF open
<1>8. QED
  BY <1>1, <1>2, <1>3, <1>7

(* A thread with a task that nobody has entered starts it.                 *)
LEMMA StartsFresh ==
  ASSUME ProtocolInv, NEW t \in Threads, pc[t] = "start", pc'[t] # "start", task' = task,
         deque' = deque, \A u \in Threads \ {t} : pc'[u] = pc[u]
  PROVE  /\ task[t] \in Addrs /\ kind[task[t]] # "free" /\ Fresh(task[t])
         /\ \A a \in Addrs : Fresh(a)' <=> Fresh(a) /\ a # task[t]
<1>1. task[t] \in Addrs /\ task[t] # Null
  BY TaskIsAddress, ProtocolAssumption DEF ProtocolInv
<1>2. kind[task[t]] # "free" /\ \A u \in Threads \ {t} : task[u] # task[t]
  BY <1>1 DEF ProtocolInv, ExclusiveFinish
<1>3. ~Queued(task[t])
  BY <1>1 DEF ProtocolInv, QueueInv
<1>4. QED
  BY <1>1, <1>2, <1>3 DEF Fresh, Queued

(* The task that is started leaves the queue; a loop is open then.         *)
LEMMA StartEffect ==
  ASSUME ProtocolInv, EndedInv, NEW v, NEW w, IdentityInv(v), HistoryNext(w),
         NEW t \in Threads, ThreadStep(t), StartSingle(t) \/ StartLoop(t)
  PROVE  /\ task[t] \in Addrs /\ kind[task[t]] # "free" /\ Fresh(task[t])
         /\ identity' = identity /\ retired' = retired
         /\ Started' = Started \cup {task[t]}
         /\ identity[task[t]] \in queued
         /\ queued' = queued \ {identity[task[t]]}
         /\ StartSingle(t) => open' = open
         /\ StartLoop(t) => open' = open \cup {identity[task[t]]}
<1>1. /\ pc[t] = "start" /\ pc'[t] \in {"finish", "enter"}
      /\ kind' = kind /\ task' = task /\ deque' = deque
      /\ \A u \in Threads \ {t} : pc'[u] = pc[u]
  BY DEF StartSingle, StartLoop, Goto, ProtocolInv, ProtocolTypeOK, shared
<1>2. /\ task[t] \in Addrs /\ kind[task[t]] # "free" /\ Fresh(task[t])
      /\ \A a \in Addrs : Fresh(a)' <=> Fresh(a) /\ a # task[t]
  BY <1>1, StartsFresh
<1>3. identity' = identity /\ retired' = retired /\ ended' = ended
  BY <1>1, HistoryKept, EndedKept DEF ProtocolInv
<1>4. Started' = Started \cup {task[t]} /\ Started \subseteq Addrs
  BY <1>1, <1>2 DEF Started
<1>5. \A b \in Addrs : identity[b] = identity[task[t]] => b = task[t]
  BY <1>2, IdentityIsOwn
<1>6. identity[task[t]] \in queued
  BY <1>2 DEF queued
<1>7. queued' = queued \ {identity[task[t]]}
  <2>1. queued' = {identity[a] : a \in {b \in Addrs : Fresh(b) /\ b # task[t]}}
    BY <1>2, <1>3 DEF queued
  <2>2. QED
    BY <1>5, <2>1 DEF queued
<1>8. task[t] \notin ended
  BY <1>2 DEF EndedInv
<1>9. open' = {identity[a] : a \in {b \in Started \cup {task[t]} : kind[b] = "loop" /\ b \notin ended}}
  BY <1>1, <1>3, <1>4 DEF open
<1>10. StartSingle(t) => open' = open
  <2>1. StartSingle(t) => kind[task[t]] # "loop"
    BY DEF StartSingle
  <2>2. QED
    BY <1>9, <2>1 DEF open
<1>11. StartLoop(t) => open' = open \cup {identity[task[t]]}
  <2>1. StartLoop(t) => kind[task[t]] = "loop"
    BY DEF StartLoop
  <2>2. QED
    BY <1>8, <1>9, <2>1 DEF open
<1>12. QED
  BY <1>2, <1>3, <1>4, <1>6, <1>7, <1>10, <1>11

(* The task that finishes is freed: it is retired.                         *)
LEMMA RetireEffect ==
  ASSUME ProtocolInv, EndedInv, NEW v, NEW w, IdentityInv(v), HistoryNext(w),
         NEW t \in Threads, ThreadStep(t), Frees(t)
  PROVE  /\ Started' = Started \ {task[t]} /\ task[t] \in Started
         /\ retired' = retired \cup {identity[task[t]]}
         /\ \A a \in Started' : identity'[a] = identity[a]
         /\ \A a \in Addrs : kind[a] # "free" /\ a # task[t] => identity'[a] = identity[a]
         /\ queued' = queued /\ open' = open
<1> DEFINE b == task[t]
<1>1. /\ b \in Addrs /\ pc[t] = "finish" /\ pc'[t] = "after"
      /\ kind' = [kind EXCEPT ![b] = "free"] /\ ~Fresh(b)
      /\ \A e \in Addrs : Fresh(e)' <=> Fresh(e)
  BY DEF Frees
<1>2. ProtocolTypeOK /\ kind[b] # "free"
  BY <1>1, ProtocolAssumption DEF ProtocolInv, ExclusiveFinish
<1>3. \A a \in Addrs : kind'[a] = IF a = b THEN "free" ELSE kind[a]
  BY <1>1, <1>2 DEF ProtocolTypeOK
<1>4. {a \in Addrs : kind[a] # "free" /\ kind'[a] = "free"} = {b}
      /\ \A a \in Addrs : ~(kind[a] = "free" /\ kind'[a] # "free")
  BY <1>1, <1>2, <1>3
<1>5. /\ retired' = retired \cup {identity[b]}
      /\ \A a \in Addrs \ {b} : identity'[a] = identity[a]
      /\ ended' = (ended \cup {task[u] : u \in {x \in Threads : pc'[x] = "end"}}) \ {b}
  BY <1>4 DEF HistoryNext
<1>6. Started' = Started \ {b} /\ b \in Started
  BY <1>1, <1>2, <1>3 DEF Started
<1>7. {a \in Addrs : Fresh(a)'} = {a \in Addrs : Fresh(a)} /\ \A a \in Addrs : Fresh(a) => a # b
  BY <1>1
<1>8. queued' = queued
  <2>1. queued' = {identity'[a] : a \in {e \in Addrs : Fresh(e)}}
    BY <1>7 DEF queued
  <2>2. QED
    BY <1>5, <1>7, <2>1 DEF queued
<1>9. open' = open
  <2>1. \A a \in Started : a # b => (a \in ended' <=> a \in ended)
    <3>1. \A u \in Threads : pc'[u] = "end" => pc[u] = "end"
      BY <1>1, <1>2, OwnLocals
    <3>2. QED
      BY <1>5, <3>1 DEF EndedInv
  <2>2. kind[b] = "loop" => b \in ended
    BY <1>1 DEF EndedInv
  <2>3. \A a \in Addrs : a # b => kind'[a] = kind[a]
    BY <1>3
  <2>4. Started \subseteq Addrs
    BY DEF Started
  <2>5. {a \in Started' : kind'[a] = "loop" /\ a \notin ended'}
          = {a \in Started : kind[a] = "loop" /\ a \notin ended}
    BY <1>6, <2>1, <2>2, <2>3, <2>4
  <2>6. QED
    BY <1>5, <1>6, <2>4, <2>5 DEF open
<1>10. QED
  BY <1>5, <1>6, <1>8, <1>9 DEF Started

(* A new task is queued under the next number.                             *)
LEMMA QueueEffect ==
  ASSUME ProtocolInv, EndedInv, NEW v, NEW w, IdentityInv(v), HistoryNext(w),
         NEW t \in Threads, NEW b \in Addrs, NEW k \in {"single", "loop"}, Spawns(t, b, k)
  PROVE  /\ retired' = retired /\ Started' = Started
         /\ \A a \in Addrs : kind[a] # "free" => identity'[a] = identity[a]
         /\ queued' = queued \cup {<<created', w[b]>>} /\ open' = open
<1>1. /\ kind[b] = "free" /\ kind' = [kind EXCEPT ![b] = k] /\ pc' = pc /\ task' = task
      /\ \A e \in Addrs : Fresh(e)' <=> Fresh(e) \/ e = b
  BY DEF Spawns
<1>2. \A a \in Addrs : kind'[a] = IF a = b THEN k ELSE kind[a]
  BY <1>1 DEF ProtocolInv, ProtocolTypeOK
<1>3. {a \in Addrs : kind[a] # "free" /\ kind'[a] = "free"} = {}
      /\ \A a \in Addrs : kind[a] = "free" /\ kind'[a] # "free" <=> a = b
  BY <1>1, <1>2
<1>4. /\ retired' = retired
      /\ identity'[b] = <<created', w[b]>>
      /\ \A a \in Addrs \ {b} : identity'[a] = identity[a]
      /\ ended' = ended \cup {task[u] : u \in {x \in Threads : pc[x] = "end"}}
  BY <1>1, <1>3 DEF HistoryNext
<1>5. ended' = ended
  BY <1>4 DEF EndedInv
<1>6. Started' = Started /\ Started \subseteq Addrs /\ b \notin Started
  BY <1>1, <1>2 DEF Started
<1>7. queued' = queued \cup {<<created', w[b]>>}
  <2>1. \A a \in Addrs : Fresh(a) => kind[a] # "free"
    BY ProtocolAssumption DEF ProtocolInv, QueueInv, ExclusiveFinish, Fresh
  <2>2. ~Fresh(b)
    BY <1>1, <2>1
  <2>3. queued' = {identity'[a] : a \in {e \in Addrs : Fresh(e) \/ e = b}}
    BY <1>1 DEF queued
  <2>4. queued' = {identity'[a] : a \in {e \in Addrs : Fresh(e)}} \cup {identity'[b]}
    BY <2>3
  <2>5. QED
    BY <1>4, <2>2, <2>4 DEF queued
<1>8. open' = open
  <2>1. {a \in Started' : kind'[a] = "loop" /\ a \notin ended'}
          = {a \in Started : kind[a] = "loop" /\ a \notin ended}
    BY <1>2, <1>5, <1>6
  <2>2. QED
    BY <1>4, <1>6, <2>1 DEF open
<1>9. QED
  BY <1>1, <1>4, <1>6, <1>7, <1>8
=============================================================================
