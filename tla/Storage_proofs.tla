--------------------------- MODULE Storage_proofs ---------------------------
(***************************************************************************)
(* Theorems about Storage, for every pool of workers, number of streams    *)
(* and segments, and every registry.                                       *)
(***************************************************************************)
EXTENDS Storage, SequenceTheorems, FiniteSetTheorems, TLAPS

-----------------------------------------------------------------------------
(* Types. *)

\* The steps of ~Storage.
MainStep == Shutdown \/ Destroy

\* Notifying the workers moves those that wait, and no other.
LEMMA NotifyTypes ==
  ASSUME TypeOK, pc' = NotifyAll, held' = held
  PROVE  /\ pc' \in [Workers -> {"loop", "take", "query", "remote", "write",
                                 "reset", "check", "blocked", "done"}]
         /\ \A w \in Workers :
              held'[w] # NoTask <=> pc'[w] \in {"query", "remote", "write"}
BY DEF TypeOK, NotifyAll

\* Every step keeps the types.
LEMMA TypeStep ==
  ASSUME TypeOK, [Next]_vars
  PROVE  TypeOK'
<1>1. CASE Receive
  BY <1>1 DEF Receive, TypeOK, cache, files, ending
<1>2. ASSUME NEW s \in Streams, AddPush(s) PROVE TypeOK'
  <2>1. received + 1 \in 1..MaxSegments /\ received + 1 \in 0..MaxSegments
    BY <1>2, StorageAssumption DEF AddPush, TypeOK
  <2>2. [n |-> received + 1, stream |-> s] \in Task
    BY <2>1 DEF Task
  <2>3. tasks' \in Seq(Task)
    BY <1>2, <2>2, AppendProperties DEF AddPush, TypeOK
  <2>. QED
    BY <1>2, <2>1, <2>3 DEF AddPush, TypeOK, cache, files, ending
<1>3. CASE AddFlag
  BY <1>3 DEF AddFlag, TypeOK, cache, files, ending
<1>4. CASE AddNotify
  <2>1. pc' = NotifyAll /\ held' = held
    BY <1>4 DEF AddNotify
  <2>2. lateNotify' \in BOOLEAN
    BY <1>4 DEF AddNotify, TypeOK
  <2>. QED
    BY <1>4, <2>1, <2>2, NotifyTypes DEF AddNotify, TypeOK, cache, files, ending
<1>5. ASSUME NEW w \in Workers, Take(w) PROVE TypeOK'
  <2>1. Head(tasks) \in Task /\ Tail(tasks) \in Seq(Task)
    BY <1>5, HeadTailProperties DEF Take, TypeOK
  <2>2. Head(tasks) # NoTask
    BY <2>1, NoTaskAssumption
  <2>. QED
    BY <1>5, <2>1, <2>2 DEF Take, Goto, TypeOK, queue, cache, files, ending
<1>6. ASSUME NEW w \in Workers, Write(w) PROVE TypeOK'
  <2>1. held[w] \in Task
    BY <1>6 DEF Write, TypeOK
  <2>. QED
    BY <1>6, <2>1 DEF Write, Goto, TypeOK, queue, cache, ending
<1>7. ASSUME NEW w \in Workers, Query(w) PROVE TypeOK'
  <2>1. held[w].stream \in Streams
    BY <1>7 DEF Query, TypeOK, Task
  <2>2. queries' \in [Streams -> Nat] /\ cacheOwner' \subseteq Workers
    BY <1>7, <2>1 DEF Query, TypeOK, cache
  <2>3. jobCache' = jobCache
    BY <1>7 DEF Query, cache
  <2>. QED
    BY <1>7, <2>2, <2>3 DEF Query, Goto, TypeOK, queue, files, ending
<1>8. ASSUME NEW w \in Workers, Reply(w) PROVE TypeOK'
  <2>1. held[w].stream \in Streams
    BY <1>8 DEF Reply, TypeOK, Task
  <2>. QED
    BY <1>8, <2>1 DEF Reply, Goto, TypeOK, queue, files, ending
<1>9. ASSUME NEW w \in Workers,
             Test(w) \/ TakeNothing(w) \/ Reset(w) \/ Check(w) \/ Spurious(w)
      PROVE  TypeOK'
  <2>1. /\ pc[w] \notin {"query", "remote", "write"}
        /\ \E l \in {"loop", "take", "reset", "check", "blocked", "done"} :
             pc' = [pc EXCEPT ![w] = l]
    BY <1>9 DEF Test, TakeNothing, Reset, Check, Spurious, Goto
  <2>2. /\ UNCHANGED <<queue, tasks, held, cache, files, ending>>
        /\ moreWork' \in BOOLEAN
    BY <1>9 DEF Test, TakeNothing, Reset, Check, Spurious, TypeOK
  <2>. QED
    BY <2>1, <2>2 DEF TypeOK, queue, cache, files, ending
<1>10. CASE Shutdown \/ CloseSubscriber \/ Join
  BY <1>10 DEF Shutdown, CloseSubscriber, Join, TypeOK, queue, cache, files
<1>11. CASE Wake
  <2>1. pc' = NotifyAll /\ held' = held
    BY <1>11 DEF Wake
  <2>. QED
    BY <1>11, <2>1, NotifyTypes DEF Wake, TypeOK, queue, cache, files
<1>12. CASE UNCHANGED vars
  BY <1>12 DEF vars, TypeOK, queue, cache, files, ending
<1>. QED
  BY <1>1, <1>2, <1>3, <1>4, <1>5, <1>6, <1>7, <1>8, <1>9, <1>10, <1>11, <1>12
  DEF Next, Work, AddEnds, Destroy

\* Every reachable state of the service is of the right type, and a worker has
\* a task in its hands just where process() has one.
THEOREM TypeCorrect == Spec => []TypeOK
<1>1. Init => TypeOK
  <2>. SUFFICES ASSUME Init PROVE TypeOK
    OBVIOUS
  <2>1. 0 \in 0..MaxSegments /\ <<>> \in Seq(Task)
    BY StorageAssumption
  <2>2. pc \in [Workers -> {"loop"}] /\ held \in [Workers -> {NoTask}]
    BY DEF Init
  <2>3. \A w \in Workers : held[w] = NoTask /\ pc[w] = "loop"
    BY DEF Init
  <2>. QED
    BY <2>1, <2>2, <2>3 DEF Init, TypeOK
<1>. QED
  BY <1>1, TypeStep, PTL DEF Spec

-----------------------------------------------------------------------------
(* Where a segment is. *)

\* Only add(), the pop and the end of process() move a segment.
LEMMA Movers ==
  ASSUME [Next]_vars
  PROVE  \/ \E s \in Streams : AddPush(s)
         \/ \E w \in Workers : Take(w) \/ Write(w)
         \/ UNCHANGED <<received, tasks, held, stored, dropped>>
BY DEF Next, Receive, AddEnds, AddFlag, AddNotify, Work, Test, TakeNothing,
       Query, Reply, Reset, Check, Spurious, Shutdown, Destroy, CloseSubscriber,
       Wake, Join, vars, queue, cache, files, ending

Holds(w) == held[w] # NoTask

\* How many segments have left the queue.
Taken == received - Len(tasks)

\* The queue holds the youngest segments, in the order they came; all others
\* are out of it, and none of them twice.
Numbered ==
  /\ Taken \in Nat
  /\ \A i \in 1..Len(tasks) : tasks[i].n = Taken + i
  /\ \A x \in stored \cup dropped : x.n <= Taken
  /\ \A w \in Workers : Holds(w) => /\ held[w].n <= Taken
                                    /\ held[w] \notin stored \cup dropped
  /\ \A v, w \in Workers : Holds(v) /\ Holds(w) /\ held[v] = held[w] => v = w

\* The queue is first in, first out, and no two workers ever hold the same
\* segment, however many workers there are.
THEOREM NumberCorrect == Spec => []Numbered
<1>1. Init => Numbered
  <2>. SUFFICES ASSUME Init PROVE Numbered
    OBVIOUS
  <2>1. Taken = 0 /\ Len(tasks) = 0
    <3>1. tasks = <<>> /\ received = 0
      BY DEF Init
    <3>2. Len(tasks) = 0 /\ received = 0
      BY <3>1
    <3>. QED
      BY <3>2 DEF Taken
  <2>2. \A w \in Workers : ~Holds(w)
    BY DEF Init, Holds
  <2>. QED
    BY <2>1, <2>2 DEF Init, Numbered
<1>2. TypeOK /\ Numbered /\ [Next]_vars => Numbered'
  <2>. SUFFICES ASSUME TypeOK, Numbered, [Next]_vars PROVE Numbered'
    OBVIOUS
  <2>. DEFINE out == stored \cup dropped
  <2>0. /\ Taken \in Nat /\ Len(tasks) \in Nat /\ received \in Nat
        /\ received = Taken + Len(tasks)
    BY DEF Numbered, Taken, TypeOK
  <2>1. ASSUME NEW s \in Streams, AddPush(s) PROVE Numbered'
    <3>. PICK t \in Task : t = [n |-> received + 1, stream |-> s]
      <4>1. received + 1 \in 1..MaxSegments
        BY <2>1, StorageAssumption DEF AddPush, TypeOK
      <4>. QED
        BY <4>1 DEF Task
    <3>1. /\ received' = received + 1 /\ tasks' = Append(tasks, t)
          /\ UNCHANGED <<held, stored, dropped>>
      BY <2>1 DEF AddPush, files
    <3>2. /\ Len(tasks') = Len(tasks) + 1 /\ tasks'[Len(tasks) + 1] = t
          /\ \A i \in 1..Len(tasks) : tasks'[i] = tasks[i]
      BY <3>1, AppendProperties DEF TypeOK
    <3>3. Taken' = Taken
      BY <2>0, <3>1, <3>2 DEF Taken
    <3>4. \A i \in 1..Len(tasks') : tasks'[i].n = Taken' + i
      <4>. SUFFICES ASSUME NEW i \in 1..Len(tasks')
                    PROVE  tasks'[i].n = Taken' + i
        OBVIOUS
      <4>1. CASE i = Len(tasks) + 1
        BY <2>0, <3>2, <3>3, <4>1
      <4>2. CASE i # Len(tasks) + 1
        <5>1. i \in 1..Len(tasks)
          BY <2>0, <3>2, <4>2
        <5>. QED
          BY <3>2, <3>3, <5>1 DEF Numbered
      <4>. QED
        BY <4>1, <4>2
    <3>. QED
      BY <3>1, <3>3, <3>4 DEF Numbered, Holds
  <2>2. ASSUME NEW w \in Workers, Take(w) PROVE Numbered'
    <3>1. /\ tasks # <<>> /\ tasks' = Tail(tasks) /\ pc[w] = "take"
          /\ held' = [held EXCEPT ![w] = Head(tasks)]
          /\ UNCHANGED <<received, stored, dropped>>
      BY <2>2 DEF Take, queue, files
    <3>2. PICK h \in Task : h = Head(tasks)
      BY <3>1, HeadTailProperties DEF TypeOK
    <3>3. /\ Len(tasks) > 0 /\ Len(tasks') = Len(tasks) - 1 /\ h = tasks[1]
          /\ \A i \in 1..Len(tasks') : tasks'[i] = tasks[i + 1]
      BY <3>1, <3>2, HeadTailProperties, EmptySeq DEF TypeOK
    <3>4. Taken' = Taken + 1 /\ h.n = Taken + 1
      BY <2>0, <3>1, <3>3 DEF Taken, Numbered
    <3>5. \A i \in 1..Len(tasks') : tasks'[i].n = Taken' + i
      <4>. SUFFICES ASSUME NEW i \in 1..Len(tasks')
                    PROVE  tasks'[i].n = Taken' + i
        OBVIOUS
      <4>1. i + 1 \in 1..Len(tasks) /\ Taken + (i + 1) = (Taken + 1) + i
        BY <2>0, <3>3
      <4>2. tasks[i + 1].n = Taken + (i + 1)
        BY <4>1 DEF Numbered
      <4>. QED
        BY <3>3, <3>4, <4>1, <4>2
    <3>6. \A x \in out : x.n \in Nat /\ x.n <= Taken
      BY DEF Numbered, TypeOK, Task
    <3>7. \A v \in Workers : Holds(v) => held[v].n \in Nat /\ held[v].n <= Taken
      BY DEF Numbered, TypeOK, Task, Holds
    <3>8. held'[w] = h /\ \A v \in Workers \ {w} : held'[v] = held[v]
      BY <3>1, <3>2 DEF TypeOK
    <3>9. \A x \in out' : x.n <= Taken'
      BY <2>0, <3>1, <3>4, <3>6
    <3>10. \A v \in Workers : Holds(v)' => held'[v].n <= Taken' /\ held'[v] \notin out'
      <4>1. h.n <= Taken' /\ h \notin out'
        BY <2>0, <3>1, <3>4, <3>6
      <4>2. \A v \in Workers \ {w} :
              Holds(v) => held[v].n <= Taken' /\ held[v] \notin out'
        BY <2>0, <3>1, <3>4, <3>7 DEF Numbered
      <4>. QED
        BY <3>8, <4>1, <4>2 DEF Holds
    <3>11. \A v \in Workers \ {w} : Holds(v) => held[v] # h
      BY <2>0, <3>4, <3>7
    <3>12. \A u, v \in Workers :
             Holds(u)' /\ Holds(v)' /\ held'[u] = held'[v] => u = v
      BY <3>8, <3>11 DEF Holds, Numbered
    <3>13. Taken' \in Nat
      BY <2>0, <3>4
    <3>. QED
      BY <3>5, <3>9, <3>10, <3>12, <3>13 DEF Numbered
  <2>3. ASSUME NEW w \in Workers, Write(w) PROVE Numbered'
    <3>1. /\ held' = [held EXCEPT ![w] = NoTask] /\ Holds(w)
          /\ out' = out \cup {held[w]}
          /\ UNCHANGED <<received, tasks>>
      BY <2>3 DEF Write, queue, TypeOK, Holds
    <3>2. Taken' = Taken
      BY <3>1 DEF Taken
    <3>3. \A v \in Workers : Holds(v)' => v # w /\ held'[v] = held[v] /\ Holds(v)
      BY <3>1 DEF TypeOK, Holds
    <3>. QED
      BY <3>1, <3>2, <3>3 DEF Numbered
  <2>4. CASE UNCHANGED <<received, tasks, held, stored, dropped>>
    BY <2>4 DEF Numbered, Taken, Holds
  <2>. QED
    BY <2>1, <2>2, <2>3, <2>4, Movers
<1>. QED
  BY <1>1, <1>2, TypeCorrect, PTL DEF Spec

-----------------------------------------------------------------------------
(* No segment is lost or stored twice. *)

Holding == {w \in Workers : Holds(w)}

\* The queue, the workers, the store and the bin add up to what was received,
\* in finite sets.
Places ==
  /\ IsFiniteSet(stored) /\ IsFiniteSet(dropped) /\ IsFiniteSet(Holding)
  /\ received = Len(tasks) + Cardinality(Holding) + Cardinality(stored)
                + Cardinality(dropped)

\* Every segment received is in exactly one place, for every number of workers
\* and segments: add(), the pop under taskMutex and process() each move it from
\* one place to the next, and what is written was not there before.
THEOREM PlaceCorrect == Spec => []OnePlace
<1>1. Init => Places
  <2>. SUFFICES ASSUME Init PROVE Places
    OBVIOUS
  <2>1. Holding = {} /\ stored = {} /\ dropped = {} /\ received = 0 /\ tasks = <<>>
    BY DEF Init, Holding, Holds
  <2>2. Len(tasks) = 0
    BY <2>1
  <2>. QED
    BY <2>1, <2>2, FS_EmptySet DEF Places
<1>2. TypeOK /\ Numbered /\ Places /\ [Next]_vars => Places'
  <2>. SUFFICES ASSUME TypeOK, Numbered, Places, [Next]_vars PROVE Places'
    OBVIOUS
  <2>0. /\ Len(tasks) \in Nat /\ Cardinality(Holding) \in Nat
        /\ Cardinality(stored) \in Nat /\ Cardinality(dropped) \in Nat
        /\ received \in Nat
    BY FS_CardinalityType DEF Places, TypeOK
  <2>1. ASSUME NEW s \in Streams, AddPush(s) PROVE Places'
    <3>. DEFINE t == [n |-> received + 1, stream |-> s]
    <3>1. t \in Task
      <4>1. received + 1 \in 1..MaxSegments
        BY <2>1, StorageAssumption DEF AddPush, TypeOK
      <4>. QED
        BY <4>1 DEF Task
    <3>2. /\ received' = received + 1 /\ tasks' = Append(tasks, t)
          /\ Holding' = Holding /\ UNCHANGED <<stored, dropped>>
      BY <2>1 DEF AddPush, files, Holding, Holds
    <3>3. Len(tasks') = Len(tasks) + 1
      BY <3>1, <3>2, AppendProperties DEF TypeOK
    <3>. QED
      BY <2>0, <3>2, <3>3 DEF Places
  <2>2. ASSUME NEW w \in Workers, Take(w) PROVE Places'
    <3>1. /\ tasks # <<>> /\ tasks' = Tail(tasks) /\ ~Holds(w)
          /\ held' = [held EXCEPT ![w] = Head(tasks)]
          /\ UNCHANGED <<received, stored, dropped>>
      BY <2>2 DEF Take, queue, files, TypeOK, Holds
    <3>2. Len(tasks') = Len(tasks) - 1 /\ Head(tasks) \in Task
      BY <3>1, HeadTailProperties DEF TypeOK
    <3>3. Holding' = Holding \cup {w} /\ w \notin Holding
      BY <3>1, <3>2, NoTaskAssumption DEF Holding, Holds, TypeOK
    <3>4. IsFiniteSet(Holding') /\ Cardinality(Holding') = Cardinality(Holding) + 1
      BY <3>3, FS_AddElement DEF Places
    <3>. QED
      BY <2>0, <3>1, <3>2, <3>4 DEF Places
  <2>3. ASSUME NEW w \in Workers, Write(w) PROVE Places'
    <3>1. /\ held' = [held EXCEPT ![w] = NoTask] /\ Holds(w)
          /\ UNCHANGED <<received, tasks>>
          /\ \/ stored' = stored \cup {held[w]} /\ dropped' = dropped
             \/ dropped' = dropped \cup {held[w]} /\ stored' = stored
      BY <2>3 DEF Write, queue, TypeOK, Holds
    <3>2. held[w] \notin stored \cup dropped
      BY <3>1 DEF Numbered
    <3>3. Holding' = Holding \ {w} /\ w \in Holding
      BY <3>1 DEF Holding, Holds, TypeOK
    <3>4. IsFiniteSet(Holding') /\ Cardinality(Holding') = Cardinality(Holding) - 1
      BY <3>3, FS_RemoveElement DEF Places
    <3>5. /\ IsFiniteSet(stored') /\ IsFiniteSet(dropped')
          /\ \/ /\ Cardinality(stored') = Cardinality(stored) + 1
                /\ Cardinality(dropped') = Cardinality(dropped)
             \/ /\ Cardinality(stored') = Cardinality(stored)
                /\ Cardinality(dropped') = Cardinality(dropped) + 1
      <4>1. CASE stored' = stored \cup {held[w]} /\ dropped' = dropped
        <5>1. IsFiniteSet(stored') /\ Cardinality(stored') = Cardinality(stored) + 1
          BY <3>2, <4>1, FS_AddElement DEF Places
        <5>. QED
          BY <2>0, <4>1, <5>1 DEF Places
      <4>2. CASE dropped' = dropped \cup {held[w]} /\ stored' = stored
        <5>1. /\ IsFiniteSet(dropped')
              /\ Cardinality(dropped') = Cardinality(dropped) + 1
          BY <3>2, <4>2, FS_AddElement DEF Places
        <5>. QED
          BY <2>0, <4>2, <5>1 DEF Places
      <4>. QED
        BY <3>1, <4>1, <4>2
    <3>6. received' = received /\ tasks' = tasks
      BY <3>1
    <3>. QED
      BY <2>0, <3>4, <3>5, <3>6 DEF Places
  <2>4. CASE UNCHANGED <<received, tasks, held, stored, dropped>>
    <3>1. Holding' = Holding
      BY <2>4 DEF Holding, Holds
    <3>. QED
      BY <2>4, <3>1 DEF Places
  <2>. QED
    BY <2>1, <2>2, <2>3, <2>4, Movers
<1>3. Places => OnePlace
  BY DEF Places, OnePlace, Holding, Holds
<1>. QED
  BY <1>1, <1>2, <1>3, TypeCorrect, NumberCorrect, PTL DEF Spec

-----------------------------------------------------------------------------
(* Shutting down. *)

\* A worker that is done saw the queue empty after shutdown() was called: what
\* came before that has left the queue.
Drain ==
  /\ main = "running" <=> ~shutdownRequest
  /\ early <= received
  /\ \A w \in Workers : pc[w] = "done" => shutdownRequest /\ early <= Taken
  /\ main = "joined" => \A w \in Workers : pc[w] = "done"

\* What has left the queue stays out of it, and is never more than was received.
LEMMA TakenGrows ==
  ASSUME TypeOK, Numbered, [Next]_vars
  PROVE  /\ Taken \in Nat /\ Taken' \in Nat /\ Taken <= Taken'
         /\ received \in Nat /\ received' \in Nat /\ received <= received'
<1>1. /\ Taken \in Nat /\ Len(tasks) \in Nat /\ received \in Nat
      /\ received = Taken + Len(tasks)
  BY DEF Numbered, Taken, TypeOK
<1>2. ASSUME NEW s \in Streams, AddPush(s) PROVE Taken' = Taken /\ received' >= received
  <2>. DEFINE t == [n |-> received + 1, stream |-> s]
  <2>1. t \in Task
    <3>1. received + 1 \in 1..MaxSegments
      BY <1>2, StorageAssumption DEF AddPush, TypeOK
    <3>. QED
      BY <3>1 DEF Task
  <2>2. Len(Append(tasks, t)) = Len(tasks) + 1
    BY <2>1, AppendProperties DEF TypeOK
  <2>3. received' = received + 1 /\ tasks' = Append(tasks, t)
    BY <1>2 DEF AddPush
  <2>. QED
    BY <1>1, <2>2, <2>3 DEF Taken
<1>3. ASSUME NEW w \in Workers, Take(w) PROVE Taken' = Taken + 1 /\ received' >= received
  <2>1. /\ received' = received /\ tasks' = Tail(tasks) /\ tasks # <<>>
    BY <1>3 DEF Take, queue
  <2>2. Len(Tail(tasks)) = Len(tasks) - 1
    BY <2>1, HeadTailProperties DEF TypeOK
  <2>. QED
    BY <1>1, <2>1, <2>2 DEF Taken
<1>4. ASSUME NEW w \in Workers, Write(w) PROVE Taken' = Taken /\ received' >= received
  BY <1>1, <1>4 DEF Write, queue, Taken
<1>5. ASSUME UNCHANGED <<received, tasks, held, stored, dropped>>
      PROVE  Taken' = Taken /\ received' >= received
  BY <1>1, <1>5 DEF Taken
<1>6. Taken' \in {Taken, Taken + 1} /\ received' >= received /\ received' \in Nat
  BY <1>2, <1>3, <1>4, <1>5, Movers, TypeStep DEF TypeOK
<1>. QED
  BY <1>1, <1>6

\* A ~Storage that returns has drained what was received before shutdown(), for
\* every pool: no worker ends while such a segment is in the queue, and one that
\* has ended stays ended.
THEOREM DrainCorrect == Spec => []EarlyDrained
<1>1. Init => Drain
  BY DEF Init, Drain
<1>2. TypeOK /\ Numbered /\ Drain /\ [Next]_vars => Drain'
  <2>. SUFFICES ASSUME TypeOK, Numbered, Drain, [Next]_vars PROVE Drain'
    OBVIOUS
  <2>0. /\ Taken \in Nat /\ Taken' \in Nat /\ Taken <= Taken'
        /\ received \in Nat /\ received' \in Nat /\ received <= received'
        /\ early \in Nat
    BY TakenGrows DEF TypeOK
  <2>1. CASE Shutdown
    <3>1. /\ main = "running" /\ main' = "shutdown" /\ shutdownRequest' = TRUE
          /\ early' = received /\ UNCHANGED <<received, pc>>
      BY <2>1 DEF Shutdown, queue
    <3>. QED
      BY <2>0, <3>1 DEF Drain
  <2>2. CASE CloseSubscriber \/ Wake \/ Join
    <3>1. early' = early /\ shutdownRequest' = shutdownRequest
      BY <2>2 DEF CloseSubscriber, Wake, Join
    <3>2. main' = "running" <=> ~shutdownRequest'
      BY <2>2, <3>1 DEF CloseSubscriber, Wake, Join, Drain
    <3>3. \A w \in Workers : pc'[w] = "done" => pc[w] = "done"
      BY <2>2 DEF CloseSubscriber, Wake, Join, NotifyAll
    <3>4. main' = "joined" => \A w \in Workers : pc'[w] = "done"
      BY <2>2 DEF CloseSubscriber, Wake, Join, NotifyAll
    <3>. QED
      BY <2>0, <3>1, <3>2, <3>3, <3>4 DEF Drain
  <2>3. ASSUME NEW w \in Workers, Test(w) PROVE Drain'
    <3>1. /\ pc' = [pc EXCEPT ![w] = IF shutdownRequest /\ tasks = <<>>
                                     THEN "done" ELSE "take"]
          /\ UNCHANGED <<main, shutdownRequest, early>> /\ pc[w] = "loop"
      BY <2>3 DEF Test, Goto, ending
    <3>2. tasks = <<>> => Taken = received
      BY DEF Taken, TypeOK
    <3>. QED
      BY <2>0, <3>1, <3>2 DEF Drain, TypeOK
  <2>4. ASSUME NEW w \in Workers,
               \/ Take(w) \/ TakeNothing(w) \/ Query(w) \/ Reply(w) \/ Write(w)
               \/ Reset(w) \/ Check(w) \/ Spurious(w)
        PROVE  Drain'
    <3>1. /\ \E l \in {"query", "reset", "write", "remote", "loop", "check",
                       "blocked"} : pc' = [pc EXCEPT ![w] = l]
          /\ UNCHANGED <<main, shutdownRequest, early>> /\ pc[w] # "done"
      BY <2>4 DEF Take, TakeNothing, Query, Reply, Write, Reset, Check, Spurious,
                  Goto, ending
    <3>. QED
      BY <2>0, <3>1 DEF Drain, TypeOK
  <2>5. CASE \/ Receive \/ (\E s \in Streams : AddPush(s)) \/ AddFlag \/ AddNotify
             \/ UNCHANGED vars
    <3>1. /\ UNCHANGED <<main, shutdownRequest, early>>
          /\ \A w \in Workers : pc'[w] = "done" <=> pc[w] = "done"
      BY <2>5 DEF Receive, AddPush, AddFlag, AddNotify, NotifyAll, vars, ending
    <3>. QED
      BY <2>0, <3>1 DEF Drain
  <2>. QED
    BY <2>1, <2>2, <2>3, <2>4, <2>5 DEF Next, Work, AddEnds, Destroy
<1>3. TypeOK /\ Numbered /\ Drain => EarlyDrained
  <2>. SUFFICES ASSUME TypeOK, Numbered, Drain, main = "joined" PROVE
         /\ \A i \in 1..Len(tasks) : tasks[i].n > early
         /\ \A w \in Workers : held[w] = NoTask
    BY DEF EarlyDrained
  <2>1. \A w \in Workers : pc[w] = "done" /\ early <= Taken
    BY DEF Drain
  <2>2. early <= Taken /\ Taken \in Nat /\ early \in Nat
    BY <2>1, StorageAssumption DEF Numbered, TypeOK
  <2>3. \A i \in 1..Len(tasks) : tasks[i].n = Taken + i
    BY DEF Numbered
  <2>4. \A i \in 1..Len(tasks) : tasks[i].n > early
    BY <2>2, <2>3
  <2>. QED
    BY <2>1, <2>4 DEF TypeOK
<1>. QED
  BY <1>1, <1>2, <1>3, TypeCorrect, NumberCorrect, PTL DEF Spec

-----------------------------------------------------------------------------
(* The lookups. *)

\* cacheMutex is held by the worker that waits for the registry, and a stream
\* that was asked about is cached or the one it asks about.
Lookup ==
  /\ cacheOwner = {w \in Workers : pc[w] = "remote"}
  /\ \A v, w \in cacheOwner : v = w
  /\ \A s \in Streams :
       /\ queries[s] \in 0..1
       /\ queries[s] = 1 => \/ s \in jobCache
                            \/ \E w \in cacheOwner : held[w].stream = s

\* A step that leaves the cache, its mutex and the worker that holds it alone.
LEMMA LookupKept ==
  ASSUME TypeOK, Lookup, UNCHANGED cache,
         \A w \in Workers : /\ pc[w] = "remote" <=> pc'[w] = "remote"
                            /\ pc[w] = "remote" => held'[w] = held[w]
  PROVE  Lookup'
<1>1. cacheOwner' = cacheOwner /\ jobCache' = jobCache /\ queries' = queries
  BY DEF cache
<1>2. cacheOwner = {w \in Workers : pc'[w] = "remote"}
  BY DEF Lookup
<1>3. \A w \in cacheOwner : held'[w] = held[w]
  BY DEF Lookup
<1>. QED
  BY <1>1, <1>2, <1>3 DEF Lookup

\* The registry is asked at most once about a stream, however many workers hold
\* its segments at the same time (queryJob() looks in the cache and asks under
\* one lock).
THEOREM QueryCorrect == Spec => []OneQuery
<1>1. Init => Lookup
  BY DEF Init, Lookup
<1>2. TypeOK /\ Lookup /\ [Next]_vars => Lookup'
  <2>. SUFFICES ASSUME TypeOK, Lookup, [Next]_vars PROVE Lookup'
    OBVIOUS
  <2>1. ASSUME NEW w \in Workers, Query(w) PROVE Lookup'
    <3>. DEFINE s == held[w].stream
    <3>1. /\ pc[w] = "query" /\ cacheOwner = {} /\ held' = held /\ s \in Streams
      BY <2>1 DEF Query, TypeOK, Task
    <3>2. CASE s \in jobCache
      <4>1. pc' = [pc EXCEPT ![w] = "write"] /\ UNCHANGED cache
        BY <2>1, <3>2 DEF Query, Goto
      <4>2. \A v \in Workers : pc[v] = "remote" <=> pc'[v] = "remote"
        BY <3>1, <4>1 DEF TypeOK
      <4>. QED
        BY <3>1, <4>1, <4>2, LookupKept
    <3>3. CASE s \notin jobCache
      <4>1. /\ pc' = [pc EXCEPT ![w] = "remote"] /\ cacheOwner' = {w}
            /\ queries' = [queries EXCEPT ![s] = @ + 1] /\ jobCache' = jobCache
        BY <2>1, <3>3 DEF Query, Goto
      <4>2. cacheOwner' = {v \in Workers : pc'[v] = "remote"}
        BY <3>1, <4>1 DEF Lookup, TypeOK
      <4>3. queries[s] = 0
        BY <3>1, <3>3 DEF Lookup
      <4>4. ASSUME NEW t \in Streams
            PROVE  /\ queries'[t] \in 0..1
                   /\ queries'[t] = 1 => \/ t \in jobCache'
                                         \/ \E v \in cacheOwner' : held'[v].stream = t
        <5>1. CASE t = s
          BY <3>1, <4>1, <4>3, <5>1 DEF TypeOK
        <5>2. CASE t # s
          <6>1. queries'[t] = queries[t]
            BY <4>1, <5>2 DEF TypeOK
          <6>. QED
            BY <3>1, <4>1, <6>1 DEF Lookup
        <5>. QED
          BY <5>1, <5>2
      <4>. QED
        BY <4>1, <4>2, <4>4 DEF Lookup
    <3>. QED
      BY <3>2, <3>3
  <2>2. ASSUME NEW w \in Workers, Reply(w) PROVE Lookup'
    <3>1. /\ pc[w] = "remote" /\ pc' = [pc EXCEPT ![w] = "write"]
          /\ cacheOwner' = {} /\ jobCache' = jobCache \cup {held[w].stream}
          /\ UNCHANGED <<held, queries>>
      BY <2>2 DEF Reply, Goto
    <3>2. cacheOwner = {w}
      BY <3>1 DEF Lookup
    <3>3. cacheOwner' = {v \in Workers : pc'[v] = "remote"}
      BY <3>1, <3>2 DEF Lookup, TypeOK
    <3>4. \A t \in Streams : /\ queries'[t] \in 0..1
                             /\ queries'[t] = 1 => t \in jobCache'
      BY <3>1, <3>2 DEF Lookup
    <3>. QED
      BY <3>1, <3>3, <3>4 DEF Lookup
  <2>3. ASSUME NEW w \in Workers, Take(w) \/ Write(w) PROVE Lookup'
    <3>1. /\ pc[w] \in {"take", "write"}
          /\ \E l \in {"query", "loop"} : pc' = [pc EXCEPT ![w] = l]
          /\ \E t : held' = [held EXCEPT ![w] = t]
          /\ UNCHANGED cache
      BY <2>3 DEF Take, Write, Goto
    <3>2. \A v \in Workers : /\ pc[v] = "remote" <=> pc'[v] = "remote"
                             /\ pc[v] = "remote" => held'[v] = held[v]
      BY <3>1 DEF TypeOK
    <3>. QED
      BY <3>1, <3>2, LookupKept
  <2>4. ASSUME NEW w \in Workers,
               Test(w) \/ TakeNothing(w) \/ Reset(w) \/ Check(w) \/ Spurious(w)
        PROVE  Lookup'
    <3>1. /\ pc[w] # "remote" /\ held' = held /\ UNCHANGED cache
          /\ \E l \in {"loop", "take", "reset", "check", "blocked", "done"} :
               pc' = [pc EXCEPT ![w] = l]
      BY <2>4 DEF Test, TakeNothing, Reset, Check, Spurious, Goto
    <3>2. \A v \in Workers : pc[v] = "remote" <=> pc'[v] = "remote"
      BY <3>1 DEF TypeOK
    <3>. QED
      BY <3>1, <3>2, LookupKept
  <2>5. CASE \/ Receive \/ (\E s \in Streams : AddPush(s)) \/ AddFlag \/ AddNotify
             \/ MainStep \/ UNCHANGED vars
    <3>1. UNCHANGED cache /\ held' = held /\ (pc' = pc \/ pc' = NotifyAll)
      <4>1. CASE Receive \/ (\E s \in Streams : AddPush(s)) \/ AddFlag \/ AddNotify
        BY <4>1 DEF Receive, AddPush, AddFlag, AddNotify
      <4>2. CASE MainStep
        BY <4>2 DEF MainStep, Shutdown, Destroy, CloseSubscriber, Wake, Join
      <4>. QED
        BY <2>5, <4>1, <4>2 DEF vars, cache
    <3>2. \A w \in Workers : pc[w] = "remote" <=> pc'[w] = "remote"
      BY <3>1 DEF NotifyAll
    <3>. QED
      BY <3>1, <3>2, LookupKept
  <2>. QED
    BY <2>1, <2>2, <2>3, <2>4, <2>5 DEF Next, Work, AddEnds, MainStep
<1>3. TypeOK /\ Lookup => OneQuery
  BY DEF Lookup, OneQuery
<1>. QED
  BY <1>1, <1>2, <1>3, TypeCorrect, PTL DEF Spec

-----------------------------------------------------------------------------
(* The end of add(). *)

\* Past shutdown() the subscriber is closed, unless there was none to close.
Closed ==
  main \in {"closed", "joining", "joined"} => receiver = "closed" \/ skipped

\* add() meets the destroyed condition_variable only if shutdown() overtook the
\* receiver thread: a subscriber that shutdown() did close is joined there, and
\* calls add() no more.
THEOREM LateCorrect == Spec => []LateOnlyIfSkipped
<1>1. Init => Closed /\ LateOnlyIfSkipped
  BY DEF Init, Closed, LateOnlyIfSkipped
<1>2. Closed /\ LateOnlyIfSkipped /\ [Next]_vars => Closed' /\ LateOnlyIfSkipped'
  <2>. SUFFICES ASSUME Closed, LateOnlyIfSkipped, [Next]_vars
                PROVE  Closed' /\ LateOnlyIfSkipped'
    OBVIOUS
  <2>1. CASE Receive \/ (\E s \in Streams : AddPush(s)) \/ AddFlag
    <3>1. receiver # "closed" /\ UNCHANGED <<main, skipped, lateNotify>>
      BY <2>1 DEF Receive, AddPush, AddFlag, ending
    <3>. QED
      BY <3>1 DEF Closed, LateOnlyIfSkipped
  <2>2. CASE AddNotify
    BY <2>2 DEF AddNotify, ending, Closed, LateOnlyIfSkipped
  <2>3. ASSUME NEW w \in Workers, Work(w) \/ Spurious(w)
        PROVE  Closed' /\ LateOnlyIfSkipped'
    <3>1. UNCHANGED <<queue, ending>>
      BY <2>3 DEF Work, Test, Take, TakeNothing, Query, Reply, Write, Reset,
                  Check, Spurious
    <3>. QED
      BY <3>1 DEF queue, ending, Closed, LateOnlyIfSkipped
  <2>4. CASE Shutdown \/ CloseSubscriber
    BY <2>4 DEF Shutdown, CloseSubscriber, queue, Closed, LateOnlyIfSkipped
  <2>5. CASE Wake \/ Join
    BY <2>5 DEF Wake, Join, queue, Closed, LateOnlyIfSkipped
  <2>6. CASE UNCHANGED vars
    BY <2>6 DEF vars, queue, ending, Closed, LateOnlyIfSkipped
  <2>. QED
    BY <2>1, <2>2, <2>3, <2>4, <2>5, <2>6 DEF Next, AddEnds, Destroy
<1>. QED
  BY <1>1, <1>2, PTL DEF Spec
=============================================================================
