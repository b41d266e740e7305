------------------------ MODULE PacketReader_proofs ------------------------
(***************************************************************************)
(* Theorems about PacketReader, for every file, layout and user.           *)
(***************************************************************************)
EXTENDS PacketReader, FiniteSetTheorems, SequenceTheorems, TLAPS

\* What SetupStreams appends is a sequence of stream entries.
LEMMA PushedType ==
  ASSUME NEW layout \in Layouts, gen \in Nat
  PROVE  /\ Pushed(layout) \in Seq(StreamEntry)
         /\ Len(Pushed(layout)) = Len(layout)
<1>1. layout \in Seq(LayoutEntry)
  BY ReaderAssumption
<1>2. \A i \in 1..Len(layout) : layout[i] \in LayoutEntry
  BY <1>1
<1>3. \A i \in 1..Len(layout) :
        [av |-> layout[i].av, live |-> layout[i].live, gen |-> gen]
          \in StreamEntry
  BY <1>2 DEF LayoutEntry, StreamEntry
<1>4. Len(layout) \in Nat
  BY <1>1
<1>. QED
  BY <1>3, <1>4 DEF Pushed

\* A reader that was never opened has no streams.
LEMMA NoStreams == <<>> \in Seq(StreamEntry)
  OBVIOUS

\* Every reachable state is of the right type.
THEOREM TypeCorrect == Spec => []TypeOK
<1>1. Init => TypeOK
  <2>. SUFFICES ASSUME Init PROVE TypeOK
    OBVIOUS
  <2>1. streams \in Seq(StreamEntry)
    BY NoStreams DEF Init
  <2>2. /\ unread \in 0..NumPackets /\ packet \in 1..NumAv
        /\ gen \in Nat /\ pausedReads \in 0..2
    BY ReaderAssumption DEF Init
  <2>3. smHeld \in BOOLEAN /\ ctx \in BOOLEAN /\ unjoined \in BOOLEAN
    BY DEF Init
  <2>. QED
    BY <2>1, <2>2, <2>3 DEF Init, TypeOK
<1>2. TypeOK /\ [Next]_vars => TypeOK'
  <2>. SUFFICES ASSUME TypeOK, [Next]_vars PROVE TypeOK'
    OBVIOUS
  <2>. USE ReaderAssumption DEF TypeOK
  <2>1. CASE InCall
    <3>. USE DEF source, input, ghosts
    <3>1. CASE SetupStreams
      <4>1. PICK layout \in Layouts :
              /\ streams' = streams \o Pushed(layout)
              /\ decoders' = {layout[i].av : i \in 1..Len(layout)}
              /\ sm' = IF \E i \in 1..Len(layout) : layout[i].live
                       THEN "opened" ELSE "failed"
        BY <3>1 DEF SetupStreams
      <4>2. streams' \in Seq(StreamEntry)
        BY <4>1, PushedType
      <4>3. sm' \in {"opened", "failed"}
        BY <4>1
      <4>4. decoders' \subseteq 1..NumAv
        <5>1. layout \in Seq(LayoutEntry)
          OBVIOUS
        <5>2. \A i \in 1..Len(layout) : layout[i] \in LayoutEntry
          BY <5>1
        <5>. QED
          BY <4>1, <5>2 DEF LayoutEntry
      <4>. QED
        BY <3>1, <4>2, <4>3, <4>4, ZenonT(60) DEF SetupStreams
    <3>2. CASE OpenFormatFails
      BY <3>2 DEF OpenFormatFails
    <3>3. CASE OpenFormat
      BY <3>3 DEF OpenFormat
    <3>4. CASE ProbeFails
      BY <3>4 DEF ProbeFails
    <3>5. CASE JoinReturns
      BY <3>5 DEF JoinReturns
    <3>6. CASE CloseLock
      BY <3>6 DEF CloseLock
    <3>7. CASE CloseFinish
      BY <3>7, NoStreams DEF CloseFinish
    <3>. QED
      BY <2>1, <3>1, <3>2, <3>3, <3>4, <3>5, <3>6, <3>7 DEF InCall
  <2>2. CASE UserCall
    <3>. USE DEF Call, Event, user, source, input, ghosts
    <3>1. CASE SendOpen
      BY <3>1 DEF SendOpen
    <3>2. CASE SendPlay
      BY <3>2 DEF SendPlay, StartWorker
    <3>3. CASE ProcessElsewhere
      BY <3>3 DEF ProcessElsewhere, StartWorker
    <3>4. CASE SendPause
      BY <3>4 DEF SendPause, Toggle
    <3>5. CASE SendUnpause
      BY <3>5 DEF SendUnpause
    <3>6. CASE CallJoin
      BY <3>6 DEF CallJoin
    <3>7. CASE SendReset
      BY <3>7 DEF SendReset
    <3>8. CASE Destroy
      BY <3>8 DEF Destroy
    <3>. QED
      BY <2>2, <3>1, <3>2, <3>3, <3>4, <3>5, <3>6, <3>7, <3>8 DEF UserCall
  <2>3. CASE Worker
    <3>. USE DEF Work, user, source, input, ghosts
    <3>1. CASE WorkerStart
      BY <3>1 DEF WorkerStart
    <3>2. CASE WorkerCheck
      BY <3>2 DEF WorkerCheck
    <3>3. CASE WorkerPause
      BY <3>3 DEF WorkerPause
    <3>4. CASE WorkerRead
      BY <3>4 DEF WorkerRead
    <3>5. CASE WorkerEof
      BY <3>5 DEF WorkerEof
    <3>6. CASE WorkerLock
      BY <3>6 DEF WorkerLock
    <3>7. CASE WorkerForward
      BY <3>7 DEF WorkerForward
    <3>8. CASE WorkerCallback
      BY <3>8 DEF WorkerCallback, Toggle
    <3>9. CASE WorkerCallbackReset
      BY <3>9 DEF WorkerCallbackReset
    <3>10. CASE WorkerEofReset
      BY <3>10 DEF WorkerEofReset
    <3>. QED
      BY <2>3, <3>1, <3>2, <3>3, <3>4, <3>5, <3>6, <3>7, <3>8, <3>9, <3>10
         DEF Worker
  <2>4. UNCHANGED vars => TypeOK'
    BY DEF vars
  <2>5. Terminated => UNCHANGED vars
    BY DEF Terminated
  <2>. QED
    BY <2>1, <2>2, <2>3, <2>4, <2>5 DEF Next
<1>. QED
  BY <1>1, <1>2, PTL DEF Spec

\* Where the threads are decides who holds the two mutexes.
THEOREM LockSafety == Spec => []LockInv
<1>1. Init => LockInv
  BY DEF Init, LockInv
<1>2. TypeOK /\ LockInv /\ [Next]_vars => LockInv'
  <2>. SUFFICES ASSUME TypeOK, LockInv, [Next]_vars PROVE LockInv'
    OBVIOUS
  <2>. USE DEF TypeOK, LockInv, Call, Event, Work, user, source, input, ghosts
  <2>1. CASE OpenFormatFails
    BY <2>1 DEF OpenFormatFails
  <2>2. CASE OpenFormat
    BY <2>2 DEF OpenFormat
  <2>3. CASE ProbeFails
    BY <2>3 DEF ProbeFails
  <2>4. CASE SetupStreams
    BY <2>4 DEF SetupStreams
  <2>5. CASE JoinReturns
    BY <2>5 DEF JoinReturns
  <2>6. CASE CloseLock
    BY <2>6 DEF CloseLock
  <2>7. CASE CloseFinish
    BY <2>7 DEF CloseFinish
  <2>8. CASE SendOpen
    BY <2>8 DEF SendOpen
  <2>9. CASE SendPlay
    BY <2>9 DEF SendPlay, StartWorker
  <2>10. CASE ProcessElsewhere
    BY <2>10 DEF ProcessElsewhere, StartWorker
  <2>11. CASE SendPause
    BY <2>11 DEF SendPause, Toggle
  <2>12. CASE SendUnpause
    BY <2>12 DEF SendUnpause
  <2>13. CASE CallJoin
    BY <2>13 DEF CallJoin
  <2>14. CASE SendReset
    BY <2>14 DEF SendReset
  <2>15. CASE Destroy
    BY <2>15 DEF Destroy
  <2>16. CASE WorkerStart
    BY <2>16 DEF WorkerStart
  <2>17. CASE WorkerCheck
    BY <2>17 DEF WorkerCheck
  <2>18. CASE WorkerPause
    BY <2>18 DEF WorkerPause
  <2>19. CASE WorkerRead
    BY <2>19 DEF WorkerRead
  <2>20. CASE WorkerEof
    BY <2>20 DEF WorkerEof
  <2>21. CASE WorkerLock
    BY <2>21 DEF WorkerLock
  <2>22. CASE WorkerForward
    BY <2>22 DEF WorkerForward
  <2>23. CASE WorkerCallback
    BY <2>23 DEF WorkerCallback, Toggle
  <2>24. CASE WorkerCallbackReset
    BY <2>24 DEF WorkerCallbackReset
  <2>25. CASE WorkerEofReset
    BY <2>25 DEF WorkerEofReset
  <2>26. CASE Terminated \/ UNCHANGED vars
    BY <2>26 DEF Terminated, vars
  <2>. QED
    BY <2>1, <2>2, <2>3, <2>4, <2>5, <2>6, <2>7, <2>8, <2>9, <2>10, <2>11,
       <2>12, <2>13, <2>14, <2>15, <2>16, <2>17, <2>18, <2>19, <2>20,
       <2>21, <2>22, <2>23, <2>24, <2>25, <2>26
       DEF Next, InCall, UserCall, Worker
<1>. QED
  BY <1>1, <1>2, TypeCorrect, PTL DEF Spec

\* The two threads block each other only inside close(): join() never
\* deadlocks, a destroy does on streamMutex alone.
THEOREM HangSafety == Spec => []HangShape
<1>1. TypeOK /\ LockInv => HangShape
  BY DEF TypeOK, LockInv, HangShape, UserBlocked, WorkerBlocked
<1>. QED
  BY <1>1, TypeCorrect, LockSafety, PTL

-----------------------------------------------------------------------------
(* The disciplined user. *)

\* Induction on the natural numbers, for sets: the numbers up to m that are not
\* in T would be mapped one to one into themselves by n |-> n - 1, so onto
\* themselves, m too.
LEMMA Induction ==
  ASSUME NEW T, 0 \in T, \A n \in Nat : n \in T => n + 1 \in T, NEW m \in Nat
  PROVE  m \in T
<1>. SUFFICES ASSUME m \notin T PROVE FALSE
  OBVIOUS
<1>. DEFINE U == {n \in 0..m : n \notin T}
            down == [n \in U |-> n - 1]
<1>1. m \in U
  OBVIOUS
<1>2. IsFiniteSet(U)
  <2>1. IsFiniteSet(0..m)
    BY FS_Interval
  <2>. QED
    BY <2>1, FS_Subset
<1>3. ASSUME NEW n \in U PROVE n - 1 \in U
  <2>1. n \in 0..m /\ n # 0 /\ n - 1 \in Nat /\ (n - 1) + 1 = n
    OBVIOUS
  <2>. QED
    BY <2>1
<1>4. down \in Injection(U, U)
  <2>1. down \in [U -> U]
    BY <1>3
  <2>2. \A a, b \in U : down[a] = down[b] => a = b
    OBVIOUS
  <2>. QED
    BY <2>1, <2>2, Zenon DEF Injection, IsInjective
<1>5. down \in Surjection(U, U)
  <2>. HIDE DEF U, down
  <2>. QED
  BY <1>2, <1>4, FS_Injection
<1>6. PICK n \in U : down[n] = m
  BY <1>1, <1>5, Zenon DEF Surjection
<1>. QED
  BY <1>6

\* In a layout, which keeps the order of the file, the streams up to one before
\* which none is missing are at their index.
LEMMA InPlace ==
  ASSUME NEW layout \in Layouts, NEW p \in Nat,
         1..p \subseteq {layout[i].av : i \in 1..Len(layout)}
  PROVE  p <= Len(layout) /\ (p > 0 => layout[p].av = p)
<1>. DEFINE D == {layout[i].av : i \in 1..Len(layout)}
            Placed(n) == n <= Len(layout) /\ (n > 0 => layout[n].av = n)
            T == {n \in Nat : n <= p => Placed(n)}
<1>1. Len(layout) \in Nat /\ \A i \in 1..Len(layout) : layout[i].av \in Nat
  <2>1. layout \in Seq(LayoutEntry)
    BY ReaderAssumption
  <2>2. \A i \in 1..Len(layout) : layout[i] \in LayoutEntry
    BY <2>1
  <2>3. \A i \in 1..Len(layout) : layout[i].av \in 1..NumAv
    BY <2>2 DEF LayoutEntry
  <2>. QED
    BY <2>1, <2>3, ReaderAssumption
<1>2. \A i, j \in 1..Len(layout) : i < j => layout[i].av < layout[j].av
  BY ReaderAssumption
<1>3. 0 \in T
  BY <1>1
<1>4. ASSUME NEW n \in Nat, n \in T PROVE n + 1 \in T
  <2>. SUFFICES ASSUME n + 1 <= p PROVE Placed(n + 1)
    OBVIOUS
  <2>1. Placed(n)
    BY <1>4
  <2>2. PICK k \in 1..Len(layout) : layout[k].av = n + 1
    <3>1. n + 1 \in 1..p
      OBVIOUS
    <3>. QED
      BY <3>1
  <2>3. k > n
    <3>1. CASE n = 0
      BY <3>1
    <3>2. CASE n > 0 /\ k <= n
      <4>1. n \in 1..Len(layout) /\ (k = n \/ k < n) /\ layout[n].av = n
        BY <1>1, <2>1, <3>2
      <4>2. layout[k].av <= n
        BY <1>1, <1>2, <4>1
      <4>. QED
        BY <2>2, <4>2
    <3>. QED
      BY <3>1, <3>2
  <2>4. k = n + 1
    <3>. SUFFICES ASSUME k > n + 1 PROVE FALSE
      BY <2>3
    <3>1. n + 1 \in 1..Len(layout)
      BY <1>1
    <3>2. layout[n + 1].av < n + 1
      BY <1>2, <2>2, <3>1
    <3>3. layout[n + 1].av > n
      <4>1. CASE n = 0
        <5>1. layout[1].av \in 1..NumAv
          <6>1. layout \in Seq(LayoutEntry) /\ 1 \in 1..Len(layout)
            BY <3>1, <4>1, ReaderAssumption
          <6>2. layout[1] \in LayoutEntry
            BY <6>1
          <6>. QED
            BY <6>2 DEF LayoutEntry
        <5>. QED
          BY <4>1, <5>1
      <4>2. CASE n > 0
        <5>1. n \in 1..Len(layout) /\ layout[n].av = n
          BY <1>1, <2>1, <4>2
        <5>. QED
          BY <1>2, <3>1, <5>1
      <4>. QED
        BY <4>1, <4>2
    <3>. QED
      BY <1>1, <3>1, <3>2, <3>3
  <2>. QED
    BY <1>1, <2>2, <2>4
<1>5. p \in T
  <2>. HIDE DEF T
  <2>. QED
    BY <1>3, <1>4, Induction
<1>. QED
  BY <1>5

\* The streams are those of the current open.
StreamsOfFile == \A i \in 1..Len(streams) : streams[i].gen = gen

\* Those behind no stream without a decoder are at their index in the file.
StreamsInPlace ==
  \A p \in 1..NumAv :
    1..p \subseteq decoders => p <= Len(streams) /\ streams[p].av = p

\* The inductive invariant: the process ends in one way only; a worker exists
\* only while unjoined and never during an open or a close; it reads only in
\* "playing" and "paused"; and in the states that lead there the source is open
\* and its streams in place.
DisciplineInv ==
  /\ aborted = "no" \/ (aborted = "outOfRange" /\ MovedUp)
  /\ wpc # "none" => unjoined /\ upc \in {"idle", "joining"}
  /\ wpc \in {"start", "check"} => sm \in {"playing", "paused", "done"}
  /\ wpc \in {"pause", "read", "eof", "lock", "forward", "callback"}
       => sm \in {"playing", "paused"}
  /\ sm \in {"opened", "playing", "paused"} /\ upc # "destroyed"
       => ctx /\ StreamsInPlace
  /\ upc = "opening" => ~ctx
  /\ upc = "probing" => ctx
  /\ upc \in {"closing", "closeJoin"}
       => \/ caller \in {"open", "destroy"}
          \/ caller = "reset" /\ sm = "done"
  /\ upc = "probing" \/ ~ctx => streams = <<>>
  /\ upc \in {"opening", "probing"} => sm = "opening"
  /\ StreamsOfFile

\* A vector filled by one open, from empty, is the file's.
LEMMA FreshStreams ==
  ASSUME NEW layout \in Layouts, gen \in Nat
  PROVE  LET s == <<>> \o Pushed(layout)
             D == {layout[i].av : i \in 1..Len(layout)}
         IN  /\ \A i \in 1..Len(s) : s[i].gen = gen
             /\ \A p \in 1..NumAv : 1..p \subseteq D => p <= Len(s) /\ s[p].av = p
<1>1. Pushed(layout) \in Seq(StreamEntry) /\ Len(Pushed(layout)) = Len(layout)
  BY PushedType
<1>2. <<>> \o Pushed(layout) = Pushed(layout)
  BY <1>1, ConcatEmptySeq
<1>3. \A i \in 1..Len(layout) :
        Pushed(layout)[i].av = layout[i].av /\ Pushed(layout)[i].gen = gen
  BY DEF Pushed
<1>4. ASSUME NEW p \in 1..NumAv,
             1..p \subseteq {layout[i].av : i \in 1..Len(layout)}
      PROVE  p <= Len(layout) /\ Pushed(layout)[p].av = p
  <2>1. p \in Nat /\ p > 0 /\ NumAv \in Nat
    BY ReaderAssumption
  <2>2. p <= Len(layout) /\ layout[p].av = p
    BY <1>4, <2>1, InPlace
  <2>3. Len(layout) \in Nat
    BY ReaderAssumption
  <2>. QED
    BY <1>3, <2>1, <2>2, <2>3
<1>. QED
  BY <1>1, <1>2, <1>3, <1>4

\* The opens of a disciplined user fill an empty vector.
LEMMA SetupStep ==
  ASSUME TypeOK, DisciplineInv, SetupStreams
  PROVE  DisciplineInv'
<1>1. PICK layout \in Layouts :
        /\ streams' = streams \o Pushed(layout)
        /\ decoders' = {layout[i].av : i \in 1..Len(layout)}
        /\ sm' \in {"opened", "failed"}
  BY DEF SetupStreams
<1>2. streams = <<>> /\ gen \in Nat /\ ctx /\ wpc = "none"
  <2>1. upc = "probing"
    BY DEF SetupStreams
  <2>. QED
    BY <2>1 DEF DisciplineInv, TypeOK
<1>3. StreamsInPlace' /\ StreamsOfFile'
  <2>1. streams' = <<>> \o Pushed(layout) /\ gen' = gen
    BY <1>1, <1>2 DEF SetupStreams
  <2>. QED
    BY <1>1, <1>2, <2>1, FreshStreams DEF StreamsInPlace, StreamsOfFile
<1>4. aborted' = "no"
  BY DEF SetupStreams, ghosts
<1>. QED
  BY <1>1, <1>2, <1>3, <1>4 DEF DisciplineInv, SetupStreams, input, ghosts

\* A user stays disciplined or not.
LEMMA UserKind ==
  ASSUME [Next]_vars
  PROVE  disciplined' = disciplined
BY DEF Next, InCall, UserCall, Worker, Terminated, vars, input,
   OpenFormatFails, OpenFormat, ProbeFails, SetupStreams, JoinReturns,
   CloseLock, CloseFinish, SendOpen, SendPlay, ProcessElsewhere, SendPause,
   SendUnpause, CallJoin, SendReset, Destroy, WorkerStart, WorkerCheck,
   WorkerPause, WorkerRead, WorkerEof, WorkerLock, WorkerForward,
   WorkerCallback, WorkerCallbackReset, WorkerEofReset

\* The invariant of a disciplined user.
THEOREM Discipline == Spec => [](disciplined => DisciplineInv)
<1>1. Init => DisciplineInv
  BY DEF Init, DisciplineInv, StreamsOfFile
<1>2. TypeOK /\ (disciplined => DisciplineInv) /\ [Next]_vars
        => (disciplined => DisciplineInv)'
  <2>. SUFFICES ASSUME TypeOK, disciplined => DisciplineInv, [Next]_vars,
                       disciplined'
                PROVE DisciplineInv'
    OBVIOUS
  <2>a. disciplined /\ DisciplineInv
    BY UserKind
  <2>0. streams' = streams /\ gen' = gen => StreamsOfFile'
    BY <2>a DEF DisciplineInv, StreamsOfFile
  <2>b. streams' = streams /\ decoders' = decoders /\ StreamsInPlace
          => StreamsInPlace'
    BY DEF StreamsInPlace
  <2>c. aborted' = "no" \/ UNCHANGED <<aborted, packet, decoders>>
          => aborted' = "no" \/ (aborted' = "outOfRange" /\ MovedUp')
    BY <2>a DEF DisciplineInv, MovedUp
  <2>. USE ReaderAssumption, <2>0, <2>a, <2>b, <2>c
       DEF TypeOK, DisciplineInv, Call, Event, Work, user, source, input, ghosts
  <2>1. CASE OpenFormatFails
    BY <2>1 DEF OpenFormatFails
  <2>2. CASE OpenFormat
    BY <2>2 DEF OpenFormat, StreamsOfFile
  <2>3. CASE ProbeFails
    BY <2>3 DEF ProbeFails
  <2>4. CASE SetupStreams
    BY <2>4, SetupStep
  <2>5. CASE JoinReturns
    BY <2>5 DEF JoinReturns
  <2>6. CASE CloseLock
    BY <2>6 DEF CloseLock
  <2>7. CASE CloseFinish
    BY <2>7 DEF CloseFinish, StreamsOfFile
  <2>8. CASE SendOpen
    BY <2>8 DEF SendOpen
  <2>9. CASE SendPlay
    BY <2>9 DEF SendPlay, StartWorker
  <2>10. CASE ProcessElsewhere
    BY <2>10 DEF ProcessElsewhere, StartWorker
  <2>11. CASE SendPause
    BY <2>11 DEF SendPause, Toggle
  <2>12. CASE SendUnpause
    BY <2>12 DEF SendUnpause
  <2>13. CASE CallJoin
    BY <2>13 DEF CallJoin
  <2>14. CASE SendReset
    BY <2>14 DEF SendReset
  <2>15. CASE Destroy
    BY <2>15 DEF Destroy
  <2>16. CASE WorkerStart
    BY <2>16 DEF WorkerStart
  <2>17. CASE WorkerCheck
    BY <2>17 DEF WorkerCheck
  <2>18. CASE WorkerPause
    BY <2>18 DEF WorkerPause
  <2>19. CASE WorkerRead
    BY <2>19 DEF WorkerRead
  <2>20. CASE WorkerEof
    BY <2>20 DEF WorkerEof
  <2>21. CASE WorkerLock
    BY <2>21 DEF WorkerLock
  <2>22. CASE WorkerForward
    <3>1. CASE packet > Len(streams)
      <4>1. MovedUp
        <5>1. packet \in 1..NumAv /\ StreamsInPlace /\ Len(streams) \in Nat
          BY <2>22 DEF WorkerForward, LockInv
        <5>2. ~(1..packet \subseteq decoders)
          BY <3>1, <5>1 DEF StreamsInPlace
        <5>. QED
          BY <5>2 DEF MovedUp
      <4>2. MovedUp'
        BY <2>22, <4>1 DEF WorkerForward, MovedUp
      <4>. QED
        BY <2>22, <3>1, <4>2 DEF WorkerForward
    <3>2. CASE packet <= Len(streams)
      BY <2>22, <3>2 DEF WorkerForward
    <3>. QED
      BY <2>22, <3>1, <3>2 DEF WorkerForward
  <2>23. CASE WorkerCallback
    BY <2>23 DEF WorkerCallback, Toggle
  <2>24. CASE WorkerCallbackReset
    BY <2>24 DEF WorkerCallbackReset
  <2>25. CASE WorkerEofReset
    BY <2>25 DEF WorkerEofReset
  <2>26. CASE Terminated \/ UNCHANGED vars
    BY <2>26 DEF Terminated, vars
  <2>. QED
    BY <2>1, <2>2, <2>3, <2>4, <2>5, <2>6, <2>7, <2>8, <2>9, <2>10, <2>11,
       <2>12, <2>13, <2>14, <2>15, <2>16, <2>17, <2>18, <2>19, <2>20,
       <2>21, <2>22, <2>23, <2>24, <2>25, <2>26
       DEF Next, InCall, UserCall, Worker
<1>. QED
  BY <1>1, <1>2, TypeCorrect, PTL DEF Spec

\* A disciplined user never makes process() terminate the program, nor the
\* worker read a null context, whatever streams have a decoder; past the vector
\* it indexes only behind one that has none.
THEOREM DisciplinedSafety == Spec => []NoAbort
<1>1. TypeOK /\ (disciplined => DisciplineInv) => NoAbort
  BY DEF TypeOK, DisciplineInv, NoAbort
<1>. QED
  BY <1>1, TypeCorrect, Discipline, PTL

\* Every packet is forwarded to a stream of the current open, and behind no
\* stream without a decoder to the one it came from.
THEOREM DisciplinedStreams == Spec => []RightStream
<1>1. TypeOK /\ (disciplined => DisciplineInv) => RightStream
  <2>. SUFFICES ASSUME TypeOK, DisciplineInv, disciplined, wpc = "forward",
                       packet <= Len(streams)
                PROVE  /\ streams[packet].gen = gen
                       /\ streams[packet].av = packet \/ MovedUp
    BY DEF RightStream
  <2>1. packet \in 1..NumAv /\ Len(streams) \in Nat /\ NumAv \in Nat
    BY ReaderAssumption DEF TypeOK
  <2>2. streams[packet].gen = gen
    BY <2>1 DEF DisciplineInv, StreamsOfFile
  <2>3. StreamsInPlace
    BY DEF DisciplineInv
  <2>4. ~MovedUp => 1..packet \subseteq decoders
    BY DEF MovedUp
  <2>. QED
    BY <2>1, <2>2, <2>3, <2>4 DEF StreamsInPlace
<1>. QED
  BY <1>1, TypeCorrect, Discipline, PTL

\* Nor is the source closed or reopened under a read in flight.
THEOREM DisciplinedSource == Spec => SourceStable
<1>1. (disciplined => DisciplineInv) /\ [Next]_vars
        => [(disciplined
             /\ wpc \in {"pause", "read", "eof", "lock", "forward", "callback"})
              => UNCHANGED source]_vars
  <2>. SUFFICES
         ASSUME DisciplineInv, Next,
                wpc \in {"pause", "read", "eof", "lock", "forward", "callback"}
         PROVE  UNCHANGED source
    OBVIOUS
  <2>1. upc \in {"idle", "joining"}
    BY DEF DisciplineInv
  <2>. QED
    BY <2>1 DEF Next, InCall, UserCall, Worker, Terminated, vars, source,
       OpenFormatFails, OpenFormat, ProbeFails, SetupStreams, JoinReturns,
       CloseLock, CloseFinish, SendOpen, SendPlay, ProcessElsewhere, SendPause,
       SendUnpause, CallJoin, SendReset, Destroy, WorkerStart, WorkerCheck,
       WorkerPause, WorkerRead, WorkerEof, WorkerLock, WorkerForward,
       WorkerCallback, WorkerCallbackReset, WorkerEofReset
<1>. QED
  BY <1>1, Discipline, PTL DEF Spec, SourceStable

\* What HangShape lists are deadlocks, not waits: once the two threads block
\* each other neither takes another step, and a reader that is destroyed then
\* is never gone (close() joins holding the locks the worker waits for).
THEOREM HangsForEver == Spec => [][~(UserBlocked /\ WorkerBlocked)]_vars
<1>1. UserBlocked /\ WorkerBlocked => ~Next \/ UNCHANGED vars
  <2>. SUFFICES ASSUME UserBlocked, WorkerBlocked, Next PROVE UNCHANGED vars
    OBVIOUS
  <2>1. ~UserCall
    BY DEF UserBlocked, UserCall, Call, Event, SendOpen, SendPlay,
       ProcessElsewhere, SendPause, SendUnpause, CallJoin, SendReset, Destroy
  <2>2. ~InCall
    BY DEF UserBlocked, InCall, OpenFormatFails, OpenFormat, ProbeFails,
       SetupStreams, JoinReturns, CloseLock, CloseFinish
  <2>3. ~Worker
    BY DEF WorkerBlocked, Worker, Work, WorkerStart, WorkerCheck, WorkerPause,
       WorkerRead, WorkerEof, WorkerLock, WorkerForward, WorkerCallback,
       WorkerCallbackReset, WorkerEofReset
  <2>. QED
    BY <2>1, <2>2, <2>3, Zenon DEF Next, Terminated
<1>. QED
  BY <1>1, PTL DEF Spec
=============================================================================
