----------------------- MODULE SegmentUnpacker_proofs -----------------------
(***************************************************************************)
(* Theorems about SegmentUnpacker, for every pool of workers, every set of *)
(* jobs and every length of segments, and about the StreamCache beside it. *)
(***************************************************************************)
EXTENDS SegmentUnpacker, StreamCache, FiniteSetTheorems, SequenceTheorems, TLAPS

\* A segment that was received: segments are numbered from 1.
Received == [job : Jobs, n : Nat \ {0}]

\* Where a worker has a segment, and a Stream, in hand.
Unpacking == {"lookup", "create", "setup", "forward"}
Streaming == {"setup", "forward"}

-----------------------------------------------------------------------------
(* Types, and what a worker has in hand at each point of its loop. *)

InputTypes == /\ received \in [Jobs -> Nat] /\ connected \in BOOLEAN
              /\ arriving \in Received \cup {NoSegment}
              /\ work \in Seq(Received)

WorkerTypes ==
  /\ pc \in [Workers -> {"check", "take", "exited"} \cup Unpacking]
  /\ seg \in [Workers -> Received \cup {NoSegment}]
  /\ packet \in [Workers -> Nat]

StreamTypes == /\ made \in Nat /\ cache \in [Jobs -> 0..made]
               /\ stream \in [Workers -> 0..made]
               /\ subscribed \in Seq(Nat) /\ Len(subscribed) = made
               /\ out \in [Jobs -> Seq(Nat)]

\* A worker has a segment in hand while it unpacks it, a Stream for it before it
\* forwards, and starts each segment at its first packet.
InHand ==
  \A w \in Workers :
    /\ pc[w] \in Unpacking <=> seg[w] # NoSegment
    /\ pc[w] \in Streaming => stream[w] # 0
    /\ packet[w] < PacketsPerSegment /\ (packet[w] # 0 => pc[w] = "forward")

\* The sequence that joins the output of a job, when a packet is forwarded.
Copies(w) == [i \in 1..subscribed[stream[w]] |-> Position(seg[w], packet[w] + 1)]

\* The segment that is none is not one that was received.
LEMMA NoneReceived == NoSegment \notin Received
BY UnpackerAssumption DEF NoSegment, Received

\* No step of the unpacker is taken by a worker that is not of its pool.
LEMMA PoolFixed ==
  ASSUME pool \in Pools, [Next]_vars
  PROVE  pool' = pool /\ pool \subseteq Workers
BY UnpackerAssumption
DEF Next, Work, Arrive, Push, Expire, Check, Take, Lookup, Create, Setup, Forward,
    Close, CloseDrained, CloseJoin, closing, vars

\* The steps that are no worker's.
Outer == \/ \E j \in Jobs : Arrive(j) \/ Expire(j)
         \/ Push \/ Close \/ CloseDrained \/ CloseJoin

\* The unpacker's steps: a publisher's, a timer's, the user's and the workers'.
LEMMA Steps ==
  ASSUME pool \in Pools, [Next]_vars
  PROVE  Outer \/ (\E w \in Workers : w \in pool /\ Work(w)) \/ UNCHANGED vars
BY PoolFixed DEF Next, Outer

\* Every step keeps the types of the deque and what comes before it.
LEMMA InputStep ==
  ASSUME InputTypes, pool \in Pools, [Next]_vars
  PROVE  InputTypes'
<1>1. ASSUME NEW j \in Jobs, Arrive(j) PROVE InputTypes'
  <2>1. received[j] \in Nat /\ received[j] + 1 \in Nat \ {0}
    BY DEF InputTypes
  <2>2. arriving' \in Received /\ received' \in [Jobs -> Nat]
    BY <1>1, <2>1 DEF Arrive, Received, InputTypes
  <2>. QED
    BY <1>1, <2>2 DEF Arrive, InputTypes
<1>2. CASE Push
  <2>1. work \in Seq(Received) /\ arriving \in Received
    BY <1>2 DEF Push, InputTypes
  <2>2. Append(work, arriving) \in Seq(Received)
    BY <2>1, AppendProperties
  <2>. QED
    BY <1>2, <2>2 DEF Push, InputTypes
<1>3. ASSUME NEW w \in Workers, Take(w) PROVE InputTypes'
  <2>1. work \in Seq(Received)
    BY DEF InputTypes
  <2>2. work # <<>> => Tail(work) \in Seq(Received)
    BY <2>1, HeadTailProperties
  <2>. QED
    BY <1>3, <2>1, <2>2 DEF Take, InputTypes, input
<1>4. ASSUME NEW w \in Workers,
             Check(w) \/ Lookup(w) \/ Create(w) \/ Setup(w) \/ Forward(w)
      PROVE  InputTypes'
  BY <1>4 DEF Check, Lookup, Create, Setup, Forward, InputTypes, input
<1>5. CASE Close \/ CloseDrained \/ CloseJoin \/ \E j \in Jobs : Expire(j)
  BY <1>5 DEF Close, CloseDrained, CloseJoin, Expire, InputTypes, input
<1>6. CASE UNCHANGED vars
  BY <1>6 DEF vars, InputTypes
<1>. QED
  BY <1>1, <1>2, <1>3, <1>4, <1>5, <1>6, Steps DEF Outer, Work

\* Every step keeps the types of the workers, and what they have in hand.
LEMMA WorkerStep ==
  ASSUME InputTypes, WorkerTypes, InHand, StreamTypes, pool \in Pools, [Next]_vars
  PROVE  WorkerTypes' /\ InHand'
<1>0. PacketsPerSegment \in Nat /\ 0 < PacketsPerSegment
  BY UnpackerAssumption
<1>1. ASSUME NEW w \in Workers, Check(w) PROVE WorkerTypes' /\ InHand'
  BY <1>1 DEF Check, At, Goto, WorkerTypes, InHand, Unpacking, Streaming
<1>2. ASSUME NEW w \in Workers, Take(w) PROVE WorkerTypes' /\ InHand'
  <2>1. CASE work = <<>>
    BY <1>2, <2>1 DEF Take, WorkerTypes, InHand
  <2>2. CASE work # <<>>
    <3>1. Head(work) \in Received /\ Head(work) # NoSegment
      BY <2>2, HeadTailProperties, NoneReceived DEF InputTypes
    <3>2. /\ pc[w] = "take" /\ pc' = [pc EXCEPT ![w] = "lookup"]
          /\ seg' = [seg EXCEPT ![w] = Head(work)] /\ UNCHANGED <<stream, packet>>
      BY <1>2, <2>2 DEF Take, At, Goto
    <3>3. WorkerTypes'
      BY <3>1, <3>2 DEF WorkerTypes, Unpacking
    <3>4. InHand'
      BY <3>1, <3>2 DEF WorkerTypes, InHand, Unpacking, Streaming
    <3>. QED
      BY <3>3, <3>4
  <2>. QED
    BY <2>1, <2>2
<1>3. ASSUME NEW w \in Workers, Lookup(w) PROVE WorkerTypes' /\ InHand'
  <2>1. PICK x : stream' = [stream EXCEPT ![w] = x] /\ x = cache[seg[w].job]
    BY <1>3 DEF Lookup
  <2>2. /\ pc[w] = "lookup" /\ UNCHANGED <<seg, packet>>
        /\ pc' = [pc EXCEPT ![w] = IF x = 0 THEN "create" ELSE "forward"]
    BY <1>3, <2>1 DEF Lookup, At, Goto
  <2>3. WorkerTypes'
    BY <2>2 DEF WorkerTypes, Unpacking
  <2>4. InHand'
    BY <2>1, <2>2 DEF WorkerTypes, StreamTypes, InHand, Unpacking, Streaming
  <2>. QED
    BY <2>3, <2>4
<1>4. ASSUME NEW w \in Workers, Create(w) PROVE WorkerTypes' /\ InHand'
  <2>1. made \in Nat
    BY DEF StreamTypes
  <2>2. PICK x : stream' = [stream EXCEPT ![w] = x] /\ x # 0
    <3>1. CASE cache[seg[w].job] # 0
      BY <1>4, <3>1 DEF Create
    <3>2. CASE cache[seg[w].job] = 0
      <4>1. stream' = [stream EXCEPT ![w] = made + 1] /\ made + 1 # 0
        BY <1>4, <2>1, <3>2 DEF Create
      <4>. QED
        BY <4>1
    <3>. QED
      BY <3>1, <3>2
  <2>3. /\ pc[w] = "create" /\ UNCHANGED <<seg, packet>>
        /\ pc' = [pc EXCEPT ![w] = "setup"]
    BY <1>4 DEF Create, At, Goto
  <2>4. WorkerTypes'
    BY <2>3 DEF WorkerTypes, Unpacking
  <2>5. InHand'
    BY <2>2, <2>3 DEF WorkerTypes, StreamTypes, InHand, Unpacking, Streaming
  <2>. QED
    BY <2>4, <2>5
<1>5. ASSUME NEW w \in Workers, Setup(w) PROVE WorkerTypes' /\ InHand'
  BY <1>5 DEF Setup, At, Goto, WorkerTypes, InHand, Unpacking, Streaming
<1>6. ASSUME NEW w \in Workers, Forward(w) PROVE WorkerTypes' /\ InHand'
  <2>0. pc[w] = "forward" /\ packet[w] \in Nat /\ packet[w] < PacketsPerSegment
    BY <1>6 DEF Forward, At, WorkerTypes, InHand
  <2>1. CASE packet[w] + 1 = PacketsPerSegment
    <3>1. /\ pc' = [pc EXCEPT ![w] = "check"] /\ packet' = [packet EXCEPT ![w] = 0]
          /\ seg' = [seg EXCEPT ![w] = NoSegment]
          /\ stream' = [stream EXCEPT ![w] = 0]
      BY <1>6, <2>1 DEF Forward, Goto
    <3>2. WorkerTypes'
      BY <3>1 DEF WorkerTypes
    <3>3. InHand'
      BY <1>0, <3>1 DEF WorkerTypes, StreamTypes, InHand, Unpacking, Streaming
    <3>. QED
      BY <3>2, <3>3
  <2>2. CASE packet[w] + 1 # PacketsPerSegment
    <3>1. /\ packet' = [packet EXCEPT ![w] = packet[w] + 1]
          /\ UNCHANGED <<pc, seg, stream>>
      BY <1>6, <2>2 DEF Forward
    <3>2. WorkerTypes'
      BY <2>0, <3>1 DEF WorkerTypes
    <3>3. packet[w] + 1 < PacketsPerSegment
      BY <1>0, <2>0, <2>2
    <3>4. InHand'
      BY <2>0, <3>1, <3>3 DEF WorkerTypes, InHand
    <3>. QED
      BY <3>2, <3>4
  <2>. QED
    BY <2>1, <2>2
<1>7. CASE Outer
  BY <1>7 DEF Outer, Arrive, Expire, Push, Close, CloseDrained, CloseJoin,
              WorkerTypes, InHand
<1>8. CASE UNCHANGED vars
  BY <1>8 DEF vars, WorkerTypes, InHand
<1>. QED
  BY <1>1, <1>2, <1>3, <1>4, <1>5, <1>6, <1>7, <1>8, Steps DEF Work

\* Every step keeps the types of the streams and of their subscribers.
LEMMA StreamStep ==
  ASSUME WorkerTypes, InHand, StreamTypes, pool \in Pools, [Next]_vars
  PROVE  StreamTypes'
<1>1. ASSUME NEW w \in Workers, Check(w) \/ Take(w) PROVE StreamTypes'
  BY <1>1 DEF Check, Take, StreamTypes, streams
<1>2. ASSUME NEW w \in Workers, Lookup(w) PROVE StreamTypes'
  <2>1. seg[w].job \in Jobs
    BY <1>2, NoneReceived DEF Lookup, At, InHand, WorkerTypes, Unpacking, Received
  <2>. QED
    BY <1>2, <2>1 DEF Lookup, StreamTypes, streams
<1>3. ASSUME NEW w \in Workers, Create(w) PROVE StreamTypes'
  <2>1. seg[w].job \in Jobs
    BY <1>3, NoneReceived DEF Create, At, InHand, WorkerTypes, Unpacking, Received
  <2>2. CASE cache[seg[w].job] # 0
    BY <1>3, <2>1, <2>2 DEF Create, StreamTypes, streams
  <2>3. CASE cache[seg[w].job] = 0
    <3>1. /\ stream' = [stream EXCEPT ![w] = made + 1] /\ made' = made + 1
          /\ cache' = [cache EXCEPT ![seg[w].job] = made + 1]
          /\ subscribed' = Append(subscribed, 0) /\ out' = out
      BY <1>3, <2>3 DEF Create
    <3>2. made \in Nat /\ 0..made \subseteq 0..made + 1 /\ made + 1 \in 0..made + 1
      BY DEF StreamTypes
    <3>3. cache' \in [Jobs -> 0..made'] /\ stream' \in [Workers -> 0..made']
      BY <3>1, <3>2 DEF StreamTypes
    <3>4. subscribed' \in Seq(Nat) /\ Len(subscribed') = made'
      BY <3>1, AppendProperties DEF StreamTypes
    <3>. QED
      BY <3>1, <3>2, <3>3, <3>4 DEF StreamTypes
  <2>. QED
    BY <2>2, <2>3
<1>4. ASSUME NEW w \in Workers, Setup(w) PROVE StreamTypes'
  <2>1. stream[w] \in 1..Len(subscribed)
    BY <1>4 DEF Setup, At, InHand, Streaming, StreamTypes
  <2>2. subscribed[stream[w]] + 1 \in Nat
    BY <2>1, ElementOfSeq DEF StreamTypes
  <2>3. subscribed' = [subscribed EXCEPT ![stream[w]] = subscribed[stream[w]] + 1]
    BY <1>4 DEF Setup
  <2>4. subscribed' \in Seq(Nat) /\ Len(subscribed') = Len(subscribed)
    BY <2>1, <2>2, <2>3, ExceptSeq DEF StreamTypes
  <2>. QED
    BY <1>4, <2>4 DEF Setup, StreamTypes, streams
<1>5. ASSUME NEW w \in Workers, Forward(w) PROVE StreamTypes'
  <2>1. seg[w] \in Received /\ packet[w] \in Nat
    BY <1>5, NoneReceived DEF Forward, At, InHand, WorkerTypes, Unpacking
  <2>2. stream[w] \in 1..Len(subscribed)
    BY <1>5 DEF Forward, At, InHand, Streaming, StreamTypes
  <2>3. subscribed[stream[w]] \in Nat
    BY <2>2, ElementOfSeq DEF StreamTypes
  <2>4. Position(seg[w], packet[w] + 1) \in Nat
    BY <2>1, UnpackerAssumption DEF Position, Received
  <2>5. Copies(w) \in Seq(Nat)
    BY <2>3, <2>4 DEF Copies
  <2>6. seg[w].job \in Jobs /\ out[seg[w].job] \in Seq(Nat)
    BY <2>1 DEF Received, StreamTypes
  <2>7. out' = [out EXCEPT ![seg[w].job] = out[seg[w].job] \o Copies(w)]
    BY <1>5 DEF Forward, Copies
  <2>8. out' \in [Jobs -> Seq(Nat)]
    BY <2>5, <2>6, <2>7, ConcatProperties DEF StreamTypes
  <2>9. made' = made /\ cache' = cache /\ subscribed' = subscribed
        /\ (stream' = stream \/ stream' = [stream EXCEPT ![w] = 0])
    BY <1>5 DEF Forward, streams
  <2>10. stream' \in [Workers -> 0..made]
    <3>1. 0 \in 0..made
      BY DEF StreamTypes
    <3>. DEFINE T == 0..made
    <3>. HIDE DEF T
    <3>2. stream \in [Workers -> T] /\ 0 \in T
      BY <3>1 DEF StreamTypes, T
    <3>3. stream' \in [Workers -> T]
      BY <2>9, <3>2
    <3>. QED
      BY <3>3 DEF T
  <2>. QED
    BY <2>8, <2>9, <2>10 DEF StreamTypes
<1>6. CASE Outer
  <2>1. ASSUME NEW j \in Jobs, Expire(j) PROVE StreamTypes'
    BY <2>1 DEF Expire, StreamTypes
  <2>. QED
    BY <1>6, <2>1 DEF Outer, Arrive, Push, Close, CloseDrained, CloseJoin, StreamTypes,
                      streams
<1>7. CASE UNCHANGED vars
  BY <1>7 DEF vars, StreamTypes
<1>. QED
  BY <1>1, <1>2, <1>3, <1>4, <1>5, <1>6, <1>7, Steps DEF Work

\* Types, as far as they depend on each other.
Typed == pool \in Pools /\ InputTypes /\ WorkerTypes /\ StreamTypes /\ InHand

\* Every reachable state is so typed.
LEMMA TypedInv == Spec => []Typed
<1>1. Init => Typed
  <2>. SUFFICES ASSUME Init PROVE Typed
    OBVIOUS
  <2>0. 0 < PacketsPerSegment
    BY UnpackerAssumption
  <2>1. InputTypes
    BY DEF Init, InputTypes
  <2>2. WorkerTypes /\ InHand
    BY <2>0 DEF Init, WorkerTypes, InHand, Unpacking, Streaming
  <2>3. StreamTypes
    <3>1. <<>> \in Seq(Nat) /\ Len(<<>>) = 0
      OBVIOUS
    <3>. QED
      BY <3>1 DEF Init, StreamTypes
  <2>. QED
    BY <2>1, <2>2, <2>3 DEF Init, Typed
<1>2. Typed /\ [Next]_vars => Typed'
  BY PoolFixed, InputStep, WorkerStep, StreamStep DEF Typed
<1>. QED
  BY <1>1, <1>2, PTL DEF Spec

\* Every reachable state of the unpacker is of the right type, for every pool.
THEOREM UnpackerTypes == Spec => []TypeOK
<1>. DEFINE Few == received \in [Jobs -> 0..MaxSegments]
            Flags == /\ shutdownFlag \in BOOLEAN /\ crashed \in {"no", "null", "sweep"}
                     /\ closer \in {"open", "flagged", "joining", "closed"}
                     /\ late \in Received \cup {NoSegment}
<1>1. Init => Few /\ Flags
  <2>1. 0 \in 0..MaxSegments
    BY UnpackerAssumption
  <2>. QED
    BY <2>1 DEF Init
<1>2. Few /\ [Next]_vars => Few'
  <2>. SUFFICES ASSUME Few, [Next]_vars PROVE Few'
    OBVIOUS
  <2>1. ASSUME NEW j \in Jobs, Arrive(j) PROVE Few'
    <3>1. received[j] + 1 \in 0..MaxSegments
      BY <2>1, UnpackerAssumption DEF Arrive
    <3>. QED
      BY <2>1, <3>1 DEF Arrive
  <2>2. CASE received' = received
    BY <2>2
  <2>. QED
    BY <2>1, <2>2 DEF Next, Work, Expire, Push, Check, Take, Lookup, Create, Setup,
       Forward, Close, CloseDrained, CloseJoin, input, vars
<1>3. Flags /\ Typed /\ [Next]_vars => Flags'
  <2>. SUFFICES ASSUME Flags, Typed, [Next]_vars PROVE Flags'
    OBVIOUS
  <2>1. ASSUME NEW w \in pool, Work(w) PROVE Flags'
    BY <2>1 DEF Work, Check, Take, Lookup, Create, Setup, Forward, input, closing
  <2>2. ASSUME NEW j \in Jobs, Arrive(j) \/ Expire(j) PROVE Flags'
    BY <2>2 DEF Arrive, Expire, closing
  <2>3. CASE Push \/ Close \/ CloseDrained \/ CloseJoin \/ UNCHANGED vars
    BY <2>3 DEF Push, Close, CloseDrained, CloseJoin, closing, vars, Typed, InputTypes
  <2>. QED
    BY <2>1, <2>2, <2>3 DEF Next
<1>4. Typed /\ Few /\ Flags => TypeOK
  <2>. SUFFICES ASSUME Typed, Few, Flags PROVE TypeOK
    OBVIOUS
  <2>1. Received \subseteq Segment
    BY DEF Received, Segment
  <2>2. work \in Seq(Segment)
    <3>1. \A i \in 1..Len(work) : work[i] \in Segment
      BY <2>1, ElementOfSeq DEF Typed, InputTypes
    <3>2. work = [i \in 1..Len(work) |-> work[i]] /\ Len(work) \in Nat
      BY LenProperties DEF Typed, InputTypes
    <3>. QED
      BY <3>1, <3>2
  <2>3. \A w \in Workers : packet[w] \in 0..PacketsPerSegment
    BY UnpackerAssumption DEF Typed, InHand, WorkerTypes
  <2>4. packet \in [Workers -> 0..PacketsPerSegment]
    BY <2>3 DEF Typed, WorkerTypes
  <2>5. subscribed \in [1..made -> Nat]
    BY DEF Typed, StreamTypes
  <2>6. seg \in [Workers -> Segment \cup {NoSegment}]
    BY <2>1 DEF Typed, WorkerTypes
  <2>7. /\ pc \in [Workers -> {"check", "take", "lookup", "create", "setup",
                               "forward", "exited"}]
        /\ {arriving, late} \subseteq Segment \cup {NoSegment}
    BY <2>1 DEF Typed, WorkerTypes, InputTypes, Unpacking
  <2>. QED
    BY <2>2, <2>4, <2>5, <2>6, <2>7 DEF TypeOK, Typed, InputTypes, WorkerTypes, StreamTypes
<1>. HIDE DEF Few, Flags
<1>. QED
  BY <1>1, <1>2, <1>3, <1>4, TypedInv, PTL DEF Spec

-----------------------------------------------------------------------------
(* The order in which segments are taken. *)

\* A segment s is older than another one t, unless they are of two jobs.
Before(s, t) == s.job = t.job => s.n < t.n

\* On their way segments stay in the order they were received: those in workers'
\* hands are the oldest, then come the queue and the one in receive(), which is
\* the last one received.
InTurn ==
  /\ arriving # NoSegment => arriving.n = received[arriving.job]
  /\ \A i \in 1..Len(work) :
       /\ work[i].n <= received[work[i].job] /\ Before(work[i], arriving)
       /\ \A k \in 1..Len(work) : k < i => Before(work[k], work[i])
  /\ \A w \in Workers :
       seg[w] # NoSegment =>
         /\ seg[w].n <= received[seg[w].job] /\ Before(seg[w], arriving)
         /\ \A i \in 1..Len(work) : Before(seg[w], work[i])
         /\ \A v \in Workers : v # w => seg[v] # seg[w]

\* No segment is that of the job that is none.
LEMMA ReceivedParts ==
  ASSUME NEW s \in Received
  PROVE  /\ s # NoSegment /\ s.job \in Jobs /\ s.n \in Nat /\ 0 < s.n
         /\ s.job # NoSegment.job /\ s = [job |-> s.job, n |-> s.n]
BY UnpackerAssumption DEF Received, NoSegment

\* No step takes a segment before one of its job that arrived earlier.
LEMMA InTurnStep ==
  ASSUME Typed, Typed', InTurn, [Next]_vars
  PROVE  InTurn'
<1>1. /\ \A i \in 1..Len(work) : work[i] \in Received
      /\ work \in Seq(Received) /\ Len(work) \in Nat
      /\ \A w \in Workers : seg[w] # NoSegment => seg[w] \in Received
      /\ \A j \in Jobs : received[j] \in Nat
      /\ arriving # NoSegment => arriving \in Received
  BY ElementOfSeq, LenProperties DEF Typed, InputTypes, WorkerTypes
<1>2. ASSUME NEW j \in Jobs, Arrive(j) PROVE InTurn'
  <2>1. /\ arriving = NoSegment /\ UNCHANGED <<work, seg>>
        /\ received' = [received EXCEPT ![j] = received[j] + 1]
        /\ arriving' = [job |-> j, n |-> received[j] + 1]
    BY <1>2 DEF Arrive
  <2>2. /\ arriving'.job = j /\ arriving'.n = received[j] + 1
        /\ received'[j] = received[j] + 1 /\ received[j] \in Nat
        /\ \A k \in Jobs : k # j => received'[k] = received[k]
    BY <1>1, <2>1 DEF Typed, InputTypes
  <2>3. ASSUME NEW s \in Received, s.n <= received[s.job]
        PROVE  s.n <= received'[s.job] /\ Before(s, arriving')
    <3>1. s.job \in Jobs /\ s.n \in Nat
      BY ReceivedParts
    <3>2. CASE s.job = j
      BY <2>2, <2>3, <3>1, <3>2 DEF Before
    <3>3. CASE s.job # j
      BY <2>2, <2>3, <3>1, <3>3 DEF Before
    <3>. QED
      BY <3>2, <3>3
  <2>4. \A i \in 1..Len(work) :
          work[i].n <= received'[work[i].job] /\ Before(work[i], arriving')
    BY <1>1, <2>3 DEF InTurn
  <2>5. \A w \in Workers :
          seg[w] # NoSegment => /\ seg[w].n <= received'[seg[w].job]
                                /\ Before(seg[w], arriving')
    BY <1>1, <2>3 DEF InTurn
  <2>6. arriving'.n = received'[arriving'.job]
    BY <2>2
  <2>. QED
    BY <2>1, <2>4, <2>5, <2>6 DEF InTurn, Before
<1>3. CASE Push
  <2>1. /\ arriving # NoSegment /\ arriving \in Received
        /\ work' = Append(work, arriving) /\ arriving' = NoSegment
        /\ UNCHANGED <<received, seg>>
    BY <1>1, <1>3 DEF Push
  <2>2. /\ Len(work') = Len(work) + 1 /\ work'[Len(work) + 1] = arriving
        /\ \A i \in 1..Len(work) : work'[i] = work[i]
    BY <1>1, <2>1, AppendProperties
  <2>3. \A i \in 1..Len(work') : i \in 1..Len(work) \/ i = Len(work) + 1
    BY <1>1, <2>2
  <2>4. \A s \in Received : Before(s, arriving')
    BY <2>1, ReceivedParts DEF Before
  <2>5. ASSUME NEW i \in 1..Len(work')
        PROVE  /\ work'[i].n <= received[work'[i].job] /\ Before(work'[i], arriving')
               /\ \A k \in 1..Len(work') : k < i => Before(work'[k], work'[i])
    <3>1. CASE i \in 1..Len(work)
      <4>1. work'[i] = work[i] /\ work[i] \in Received
        BY <1>1, <2>2, <3>1
      <4>2. \A k \in 1..Len(work') : k < i => k \in 1..Len(work)
        BY <1>1, <2>3, <3>1
      <4>. QED
        BY <2>2, <2>4, <3>1, <4>1, <4>2 DEF InTurn
    <3>2. CASE i = Len(work) + 1
      <4>1. work'[i] = arriving
        BY <2>2, <3>2
      <4>2. \A k \in 1..Len(work') : k < i => k \in 1..Len(work)
        BY <1>1, <2>3, <3>2
      <4>3. arriving.n \in Nat /\ arriving.n = received[arriving.job]
        BY <2>1, ReceivedParts DEF InTurn
      <4>. QED
        BY <2>1, <2>2, <2>4, <4>1, <4>2, <4>3 DEF InTurn
    <3>. QED
      BY <2>3, <3>1, <3>2
  <2>6. ASSUME NEW w \in Workers, seg[w] # NoSegment
        PROVE  /\ seg[w].n <= received[seg[w].job] /\ Before(seg[w], arriving')
               /\ \A i \in 1..Len(work') : Before(seg[w], work'[i])
               /\ \A v \in Workers : v # w => seg[v] # seg[w]
    BY <1>1, <2>2, <2>3, <2>4, <2>6 DEF InTurn
  <2>. QED
    BY <2>1, <2>5, <2>6 DEF InTurn
<1>4. ASSUME NEW w \in Workers, Take(w) PROVE InTurn'
  <2>1. CASE work = <<>>
    BY <1>4, <2>1 DEF Take, input, InTurn, Before
  <2>2. CASE work # <<>>
    <3>1. PICK h \in Received : h = Head(work)
      BY <1>1, <2>2, HeadTailProperties
    <3>2. /\ h = work[1] /\ 1 \in 1..Len(work) /\ Len(work') = Len(work) - 1
          /\ \A i \in 1..Len(work') : /\ work'[i] = work[i + 1]
                                      /\ i + 1 \in 1..Len(work) /\ 1 < i + 1
      <4>1. work' = Tail(work)
        BY <1>4, <2>2 DEF Take
      <4>2. /\ Head(work) = work[1] /\ Len(work) > 0
            /\ Len(Tail(work)) = Len(work) - 1
            /\ \A i \in 1..Len(Tail(work)) : Tail(work)[i] = work[i + 1]
        BY <1>1, <2>2, HeadTailProperties, EmptySeq
      <4>. QED
        BY <1>1, <3>1, <4>1, <4>2
    <3>3. seg' = [seg EXCEPT ![w] = h] /\ UNCHANGED <<arriving, received>>
      BY <1>4, <2>2, <3>1 DEF Take, input
    <3>4. seg'[w] = h /\ \A v \in Workers : v # w => seg'[v] = seg[v]
      BY <3>3 DEF Typed, WorkerTypes
    <3>5. ASSUME NEW i \in 1..Len(work')
          PROVE  /\ work'[i].n <= received[work'[i].job] /\ Before(work'[i], arriving)
                 /\ \A k \in 1..Len(work') : k < i => Before(work'[k], work'[i])
                 /\ Before(h, work'[i])
      <4>1. \A k \in 1..Len(work') : k < i => k + 1 < i + 1
        OBVIOUS
      <4>. QED
        BY <3>2, <4>1 DEF InTurn
    <3>6. h.n <= received[h.job] /\ Before(h, arriving)
      BY <3>2 DEF InTurn
    <3>7. ASSUME NEW v \in Workers, v # w, seg[v] # NoSegment
          PROVE  /\ seg[v] # h
                 /\ \A i \in 1..Len(work') : Before(seg[v], work'[i])
      <4>1. Before(seg[v], h) /\ seg[v] \in Received
        BY <1>1, <3>2, <3>7 DEF InTurn
      <4>2. seg[v] # h
        BY <4>1, ReceivedParts DEF Before
      <4>. QED
        BY <3>2, <3>7, <4>2 DEF InTurn
    <3>8. ASSUME NEW v \in Workers, seg'[v] # NoSegment
          PROVE  /\ seg'[v].n <= received[seg'[v].job] /\ Before(seg'[v], arriving)
                 /\ \A i \in 1..Len(work') : Before(seg'[v], work'[i])
                 /\ \A u \in Workers : u # v => seg'[u] # seg'[v]
      <4>1. h # NoSegment
        BY ReceivedParts
      <4>2. CASE v = w
        BY <3>4, <3>5, <3>6, <3>7, <4>1, <4>2
      <4>3. CASE v # w
        BY <3>4, <3>7, <3>8, <4>3 DEF InTurn
      <4>. QED
        BY <4>2, <4>3
    <3>. QED
      BY <3>3, <3>5, <3>8 DEF InTurn, Before
  <2>. QED
    BY <2>1, <2>2
<1>5. ASSUME NEW w \in Workers, Forward(w) PROVE InTurn'
  <2>1. /\ seg' = seg \/ seg' = [seg EXCEPT ![w] = NoSegment]
        /\ UNCHANGED <<arriving, received, work>>
    BY <1>5 DEF Forward, input
  <2>2. \A v \in Workers : seg'[v] # NoSegment => seg'[v] = seg[v]
    BY <2>1 DEF Typed, WorkerTypes
  <2>3. \A v \in Workers : seg'[v] = seg[v] \/ seg'[v] = NoSegment
    BY <2>1 DEF Typed, WorkerTypes
  <2>. QED
    BY <2>1, <2>2, <2>3 DEF InTurn, Before
<1>6. CASE UNCHANGED <<arriving, received, work, seg>>
  BY <1>6 DEF InTurn, Before
<1>. QED
  BY <1>2, <1>3, <1>4, <1>5, <1>6, Steps
  DEF Outer, Work, Expire, Check, Lookup, Create, Setup, Close, CloseDrained, CloseJoin,
      input, vars, Typed

\* Every reachable deque, and every worker, has its segments in turn.
LEMMA InTurnInv == Spec => []InTurn
<1>1. Init => InTurn
  BY DEF Init, InTurn
<1>. QED
  BY <1>1, InTurnStep, TypedInv, PTL DEF Spec

\* Whatever the pool, each segment goes to one worker, and those of a job in the
\* order they were received.
THEOREM TakenCorrect == Spec => []TakenInOrder
<1>1. Typed /\ InTurn => TakenInOrder
  <2>. SUFFICES ASSUME Typed, InTurn PROVE TakenInOrder
    OBVIOUS
  <2>1. /\ \A i \in 1..Len(work) : work[i] \in Received /\ work[i].job # NoSegment.job
        /\ \A w \in Workers : seg[w] \in Received \cup {NoSegment}
        /\ Len(work) \in Nat
    BY ElementOfSeq, LenProperties, ReceivedParts DEF Typed, InputTypes, WorkerTypes
  <2>2. ASSUME NEW b \in 1..Len(work)
        PROVE  /\ arriving.job = work[b].job => work[b].n < arriving.n
               /\ \A a \in 1..(b - 1) : work[a].job = work[b].job => work[a].n < work[b].n
               /\ \A w \in Workers : seg[w].job = work[b].job => seg[w].n < work[b].n
    <3>1. \A a \in 1..(b - 1) : a \in 1..Len(work) /\ a < b
      BY <2>1
    <3>. QED
      BY <2>1, <3>1 DEF InTurn, Before
  <2>3. ASSUME NEW v \in Workers, NEW w \in Workers, v # w, seg[v] # NoSegment
        PROVE  seg[v] # seg[w] /\ seg[v] # arriving
    <3>1. seg[v] \in Received /\ Before(seg[v], arriving)
      BY <2>1, <2>3 DEF InTurn
    <3>2. seg[v] # arriving
      BY <3>1, ReceivedParts DEF Before
    <3>. QED
      BY <2>3, <3>2 DEF InTurn
  <2>. QED
    BY <2>2, <2>3 DEF TakenInOrder
<1>. QED
  BY <1>1, InTurnInv, TypedInv, PTL

-----------------------------------------------------------------------------
(* close(). *)

\* What close() has waited for: the flag, the subscription, the deque and the
\* workers, which have no segment in hand once they have left. The one segment
\* that was in receive() may enter the deque after that, once.
Closing ==
  /\ \A w \in Workers : w \notin pool => seg[w] = NoSegment
  /\ closer # "open" => ~connected /\ arriving \in {NoSegment, late}
  /\ closer \in {"joining", "closed"} =>
       work = <<>> \/ (work = <<late>> /\ arriving = NoSegment)
  /\ closer = "closed" => \A w \in pool : pc[w] = "exited"

\* No step undoes what close() has waited for.
LEMMA ClosingStep ==
  ASSUME Typed, Closing, [Next]_vars
  PROVE  Closing'
<1>1. ASSUME NEW j \in Jobs, Arrive(j) \/ Expire(j) PROVE Closing'
  BY <1>1 DEF Arrive, Expire, closing, input, Closing
<1>2. CASE Push
  <2>1. /\ arriving # NoSegment /\ arriving' = NoSegment
        /\ work' = Append(work, arriving)
        /\ UNCHANGED <<pool, closer, connected, late, seg, pc>>
    BY <1>2 DEF Push, closing
  <2>2. closer \in {"joining", "closed"} => work' = <<late>>
    <3>1. SUFFICES ASSUME closer \in {"joining", "closed"} PROVE work' = <<late>>
      OBVIOUS
    <3>2. work = <<>> /\ arriving = late
      BY <2>1, <3>1 DEF Closing
    <3>. QED
      BY <2>1, <3>2
  <2>. QED
    BY <2>1, <2>2 DEF Closing
<1>3. CASE Close
  BY <1>3 DEF Close, Closing
<1>4. CASE CloseDrained \/ CloseJoin
  BY <1>4 DEF CloseDrained, CloseJoin, input, Closing
<1>5. ASSUME NEW w \in Workers, w \in pool, Work(w) PROVE Closing'
  <2>1. /\ \A v \in Workers : v # w => seg'[v] = seg[v]
        /\ UNCHANGED <<pool, closer, connected, arriving, late>>
    BY <1>5 DEF Work, Check, Take, Lookup, Create, Setup, Forward, closing, input,
                Typed, WorkerTypes
  <2>2. work' = work \/ (work # <<>> /\ work' = Tail(work))
    BY <1>5 DEF Work, Check, Take, Lookup, Create, Setup, Forward
  <2>3. pc[w] # "exited"
    BY <1>5 DEF Work, Check, Take, Lookup, Create, Setup, Forward, At
  <2>4. work = <<late>> => Tail(work) = <<>>
    OBVIOUS
  <2>. QED
    BY <1>5, <2>1, <2>2, <2>3, <2>4 DEF Closing
<1>6. CASE UNCHANGED vars
  BY <1>6 DEF vars, Closing
<1>. QED
  BY <1>1, <1>2, <1>3, <1>4, <1>5, <1>6, Steps DEF Outer, Typed

\* close() returns only when everything that was received has been unpacked, but
\* for the one segment that was in receive() when it began, whatever the pool and
\* whatever the subscriber does meanwhile.
THEOREM DrainCorrect == Spec => []CloseDrains
<1>1. Init => Closing
  BY DEF Init, Closing
<1>2. Typed /\ Closing /\ [Next]_vars => Closing'
  BY ClosingStep
<1>3. Typed /\ Closing => CloseDrains
  <2>. SUFFICES ASSUME Typed, Closing, closer = "closed"
                PROVE  /\ work \in {<<>>, <<late>>} /\ arriving \in {NoSegment, late}
                       /\ \A w \in Workers : seg[w] = NoSegment
    BY DEF CloseDrains
  <2>1. \A w \in pool : w \in Workers => seg[w] = NoSegment
    BY DEF Closing, Typed, InHand, Unpacking
  <2>. QED
    BY <2>1 DEF Closing
<1>. QED
  BY <1>1, <1>2, <1>3, TypedInv, PTL DEF Spec

-----------------------------------------------------------------------------
(* One worker: the packets of each job come out in their order. *)

\* The only worker finds a Stream that no other one has set up meanwhile.
SetUp ==
  \A w \in Workers : pool = {w} =>
    /\ pc[w] = "create" => cache[seg[w].job] = 0
    /\ \A x \in 1..made :
         subscribed[x] = IF pc[w] = "setup" /\ stream[w] = x THEN 0 ELSE 1

\* A pool of one worker finds the map as it left it: the whole of its
\* Lookup-Create-Setup is as good as atomic.
LEMMA SetUpStep ==
  ASSUME Typed, SetUp, [Next]_vars, NEW w \in Workers, pool' = {w}
  PROVE  /\ pc'[w] = "create" => cache'[seg'[w].job] = 0
         /\ \A x \in 1..made' :
              subscribed'[x] = IF pc'[w] = "setup" /\ stream'[w] = x THEN 0 ELSE 1
<1>. DEFINE Goal ==
       /\ pc'[w] = "create" => cache'[seg'[w].job] = 0
       /\ \A x \in 1..made' :
            subscribed'[x] = IF pc'[w] = "setup" /\ stream'[w] = x THEN 0 ELSE 1
<1>1. pool = {w}
  BY PoolFixed DEF Typed
<1>2. /\ pc[w] = "create" => cache[seg[w].job] = 0
      /\ \A x \in 1..made :
           subscribed[x] = IF pc[w] = "setup" /\ stream[w] = x THEN 0 ELSE 1
  BY <1>1 DEF SetUp
<1>3. /\ pc \in [Workers -> {"check", "take", "exited"} \cup Unpacking]
      /\ seg \in [Workers -> Received \cup {NoSegment}]
      /\ made \in Nat /\ cache \in [Jobs -> 0..made] /\ stream \in [Workers -> 0..made]
      /\ subscribed \in Seq(Nat) /\ Len(subscribed) = made
      /\ pc[w] \in Unpacking => seg[w].job \in Jobs
      /\ pc[w] = "setup" => stream[w] \in 1..made
  BY ReceivedParts
  DEF Typed, WorkerTypes, StreamTypes, InHand, Unpacking, Streaming
<1>4. CASE Check(w) \/ Take(w)
  <2>1. /\ UNCHANGED <<cache, made, subscribed, stream>>
        /\ pc[w] \in {"check", "take"} /\ pc'[w] \in {"take", "exited", "lookup"}
    BY <1>3, <1>4 DEF Check, Take, At, Goto, streams
  <2>. QED
    BY <1>2, <2>1
<1>5. CASE Lookup(w)
  <2>1. /\ UNCHANGED <<cache, made, subscribed, seg>> /\ pc[w] = "lookup"
        /\ pc'[w] = IF cache[seg[w].job] = 0 THEN "create" ELSE "forward"
    BY <1>3, <1>5 DEF Lookup, At, Goto, streams
  <2>. QED
    BY <1>2, <2>1
<1>6. CASE Create(w)
  <2>1. /\ pc[w] = "create" /\ cache[seg[w].job] = 0
    BY <1>2, <1>6 DEF Create, At
  <2>2. /\ pc'[w] = "setup" /\ stream'[w] = made + 1 /\ made' = made + 1
        /\ subscribed' = Append(subscribed, 0)
    BY <1>3, <1>6, <2>1 DEF Create, Goto
  <2>3. /\ subscribed'[made + 1] = 0
        /\ \A x \in 1..made : subscribed'[x] = subscribed[x]
    BY <1>3, <2>2, AppendProperties
  <2>4. \A x \in 1..made + 1 : (x \in 1..made /\ x # made + 1) \/ x = made + 1
    BY <1>3
  <2>. QED
    BY <1>2, <2>1, <2>2, <2>3, <2>4
<1>7. CASE Setup(w)
  <2>1. /\ pc[w] = "setup" /\ pc'[w] = "forward" /\ made' = made
        /\ subscribed' = [subscribed EXCEPT ![stream[w]] = subscribed[stream[w]] + 1]
    BY <1>3, <1>7 DEF Setup, At, Goto, streams
  <2>2. stream[w] \in 1..Len(subscribed) /\ subscribed[stream[w]] = 0
    BY <1>2, <1>3, <2>1
  <2>3. \A x \in 1..made : subscribed'[x] = IF x = stream[w] THEN 1 ELSE subscribed[x]
    BY <1>3, <2>1, <2>2, ExceptSeq
  <2>. QED
    BY <1>2, <2>1, <2>3
<1>8. CASE Forward(w)
  <2>1. /\ UNCHANGED <<cache, made, subscribed>> /\ pc[w] = "forward"
        /\ pc'[w] \in {"check", "forward"}
    BY <1>3, <1>8 DEF Forward, At, Goto, streams
  <2>. QED
    BY <1>2, <2>1
<1>9. CASE Outer
  <2>1. /\ UNCHANGED <<pc, seg, stream, made, subscribed>>
        /\ \A j \in Jobs : cache[j] = 0 => cache'[j] = 0
    BY <1>3, <1>9 DEF Outer, Arrive, Expire, Push, Close, CloseDrained, CloseJoin, streams
  <2>. QED
    BY <1>2, <1>3, <2>1 DEF Unpacking
<1>10. CASE UNCHANGED vars
  BY <1>2, <1>10 DEF vars
<1>11. Outer \/ Work(w) \/ UNCHANGED vars
  BY <1>1, Steps DEF Typed
<1>. QED
  BY <1>4, <1>5, <1>6, <1>7, <1>8, <1>9, <1>10, <1>11 DEF Work

\* What the only worker has forwarded to is subscribed to, once.
LEMMA SetUpInv == Spec => []SetUp
<1>1. Init => SetUp
  BY DEF Init, SetUp
<1>2. Typed /\ SetUp /\ [Next]_vars => SetUp'
  BY SetUpStep DEF SetUp
<1>. QED
  BY <1>1, <1>2, TypedInv, PTL DEF Spec

\* A segment that was received and not wholly forwarded.
OnWay(s) == \/ s = arriving
            \/ \E i \in 1..Len(work) : s = work[i]
            \/ \E w \in pool : s = seg[w]

\* d segments of job j have been forwarded, all those received after them are on
\* their way, and of the one in hand so many packets.
Forwarded(j, d) ==
  /\ d <= received[j]
  /\ \A n \in Nat : d < n /\ n <= received[j] <=> OnWay([job |-> j, n |-> n])
  /\ \A w \in pool : Len(out[j]) = d * PacketsPerSegment
                                     + (IF seg[w].job = j THEN packet[w] ELSE 0)

\* So it is for every job, as long as the unpacker works linearly.
Gapless == Linearly => \A j \in Jobs : \E d \in Nat : Forwarded(j, d)

\* To work linearly is to have a pool of one worker.
LEMMA OneWorker ==
  ASSUME Typed, Linearly
  PROVE  \E w \in Workers : pool = {w}
<1>1. pool \subseteq Workers /\ IsFiniteSet(pool)
  BY UnpackerAssumption, FS_Subset DEF Typed
<1>2. \E w : pool = {w}
  BY <1>1, FS_Singleton DEF Linearly
<1>. QED
  BY <1>1, <1>2

\* Segments on their way were received.
LEMMA OnWayTypes ==
  ASSUME Typed, NEW j \in Jobs, NEW n \in Nat, OnWay([job |-> j, n |-> n])
  PROVE  [job |-> j, n |-> n] \in Received /\ n # 0
<1>. DEFINE s == [job |-> j, n |-> n]
<1>1. s # NoSegment
  BY UnpackerAssumption DEF NoSegment
<1>2. \A i \in 1..Len(work) : work[i] \in Received
  BY ElementOfSeq DEF Typed, InputTypes
<1>3. \A w \in pool : w \in Workers
  BY UnpackerAssumption DEF Typed
<1>4. s \in Received
  BY <1>1, <1>2, <1>3 DEF OnWay, Typed, InputTypes, WorkerTypes
<1>. QED
  BY <1>4 DEF Received

\* The step of the only worker that forwards a packet: it is the next one of its
\* job, and goes to the job's consumer once.
LEMMA NextPacket ==
  ASSUME Typed, InTurn, SetUp, NEW w \in Workers, pool = {w}, Forward(w),
         NEW d \in Nat, Forwarded(seg[w].job, d)
  PROVE  /\ seg[w] \in Received /\ seg[w].job \in Jobs /\ seg[w].n = d + 1
         /\ seg[w].n <= received[seg[w].job]
         /\ packet[w] \in Nat /\ packet[w] < PacketsPerSegment
         /\ out[seg[w].job] \in Seq(Nat)
         /\ Len(out[seg[w].job]) = d * PacketsPerSegment + packet[w]
         /\ out' = [out EXCEPT ![seg[w].job] =
                      Append(out[seg[w].job], Len(out[seg[w].job]) + 1)]
<1>1. /\ pc[w] = "forward" /\ packet[w] \in Nat /\ packet[w] < PacketsPerSegment
      /\ seg[w] # NoSegment /\ seg[w] \in Received
  BY DEF Forward, At, Typed, WorkerTypes, InHand, Unpacking
<1>2. PICK s \in Received : s = seg[w]
  BY <1>1
<1>3. s.job \in Jobs /\ s.n \in Nat /\ 0 < s.n /\ s = [job |-> s.job, n |-> s.n]
  BY ReceivedParts
<1>4. received[s.job] \in Nat /\ out[s.job] \in Seq(Nat)
  BY <1>3 DEF Typed, InputTypes, StreamTypes
<1>5. d < s.n /\ s.n <= received[s.job]
  BY <1>2, <1>3 DEF Forwarded, OnWay
<1>6. s.n = d + 1
  <2>1. OnWay([job |-> s.job, n |-> d + 1])
    BY <1>2, <1>3, <1>4, <1>5 DEF Forwarded
  <2>. DEFINE t == [job |-> s.job, n |-> d + 1]
  <2>2. t.job = s.job /\ t.n = d + 1
    OBVIOUS
  <2>3. t = s \/ Before(s, t)
    <3>1. CASE t = arriving
      BY <1>1, <1>2, <3>1 DEF InTurn
    <3>2. CASE \E i \in 1..Len(work) : t = work[i]
      BY <1>1, <1>2, <3>2 DEF InTurn
    <3>3. CASE t = seg[w]
      BY <1>2, <3>3
    <3>. QED
      BY <2>1, <3>1, <3>2, <3>3 DEF OnWay
  <2>. HIDE DEF t
  <2>4. s.n <= d + 1
    BY <1>3, <2>2, <2>3 DEF Before
  <2>. QED
    BY <1>3, <1>5, <2>4
<1>7. Len(out[s.job]) = d * PacketsPerSegment + packet[w]
  BY <1>2 DEF Forwarded
<1>8. subscribed[stream[w]] = 1
  <2>1. stream[w] \in 1..made
    BY <1>1 DEF Typed, InHand, StreamTypes, Streaming
  <2>. QED
    BY <1>1, <2>1 DEF SetUp
<1>9. Position(s, packet[w] + 1) = Len(out[s.job]) + 1
  <2>1. (s.n - 1) = d
    BY <1>6
  <2>2. d * PacketsPerSegment \in Nat
    BY UnpackerAssumption
  <2>3. Position(s, packet[w] + 1) = d * PacketsPerSegment + (packet[w] + 1)
    BY <2>1 DEF Position
  <2>. QED
    BY <1>1, <1>7, <2>2, <2>3
<1>10. out' = [out EXCEPT ![s.job] = out[s.job] \o [i \in 1..1 |-> Len(out[s.job]) + 1]]
  <2>1. out' = [out EXCEPT ![s.job] = out[s.job] \o Copies(w)]
    BY <1>2 DEF Forward, Copies
  <2>2. Copies(w) = [i \in 1..1 |-> Len(out[s.job]) + 1]
    BY <1>2, <1>8, <1>9 DEF Copies
  <2>. QED
    BY <2>1, <2>2
<1>11. out[s.job] \o [i \in 1..1 |-> Len(out[s.job]) + 1]
         = Append(out[s.job], Len(out[s.job]) + 1)
  BY <1>4
<1>. QED
  BY <1>1, <1>2, <1>3, <1>4, <1>5, <1>6, <1>7, <1>10, <1>11

\* Segments that are on their way stay so until their last packet is forwarded.
LEMMA GaplessStep ==
  ASSUME Typed, InTurn, SetUp, [Next]_vars, NEW w \in Workers, pool = {w},
         NEW j \in Jobs, NEW d \in Nat, Forwarded(j, d)
  PROVE  \E e \in Nat : Forwarded(j, e)'
<1>. DEFINE Way(n) == OnWay([job |-> j, n |-> n])
<1>1. /\ d <= received[j] /\ received[j] \in Nat
      /\ \A n \in Nat : d < n /\ n <= received[j] <=> Way(n)
      /\ Len(out[j]) = d * PacketsPerSegment
                         + (IF seg[w].job = j THEN packet[w] ELSE 0)
  BY DEF Forwarded, Typed, InputTypes
<1>2. pool' = {w}
  BY PoolFixed DEF Typed
<1>3. /\ \A n \in Nat : [job |-> j, n |-> n] # NoSegment
      /\ NoSegment.job # j
      /\ \A n \in Nat : [job |-> j, n |-> n].job = j /\ [job |-> j, n |-> n].n = n
  BY UnpackerAssumption DEF NoSegment
<1>4. work \in Seq(Received) /\ Len(work) \in Nat
  BY LenProperties DEF Typed, InputTypes
<1>5. ASSUME received'[j] = received[j], out'[j] = out[j],
             \A n \in Nat : Way(n)' <=> Way(n),
             (IF seg'[w].job = j THEN packet'[w] ELSE 0)
               = (IF seg[w].job = j THEN packet[w] ELSE 0)
      PROVE  Forwarded(j, d)'
  <2>1. \A n \in Nat : d < n /\ n <= received'[j] <=> Way(n)'
    BY <1>1, <1>5
  <2>2. Len(out'[j]) = d * PacketsPerSegment
                         + (IF seg'[w].job = j THEN packet'[w] ELSE 0)
    BY <1>1, <1>5
  <2>. QED
    BY <1>1, <1>2, <1>5, <2>1, <2>2 DEF Forwarded
<1>6. ASSUME NEW k \in Jobs, Arrive(k) PROVE Forwarded(j, d)'
  <2>1. /\ arriving = NoSegment /\ UNCHANGED <<work, seg, packet, out>>
        /\ received' = [received EXCEPT ![k] = received[k] + 1]
        /\ arriving' = [job |-> k, n |-> received[k] + 1]
    BY <1>6 DEF Arrive
  <2>2. CASE k # j
    <3>1. received'[j] = received[j]
      BY <2>1, <2>2 DEF Typed, InputTypes
    <3>2. ASSUME NEW n \in Nat PROVE Way(n)' <=> Way(n)
      <4>1. arriving' # [job |-> j, n |-> n] /\ arriving # [job |-> j, n |-> n]
        BY <1>3, <2>1, <2>2
      <4>. QED
        BY <1>2, <2>1, <4>1 DEF OnWay
    <3>. QED
      BY <1>5, <2>1, <3>1, <3>2
  <2>3. CASE k = j
    <3>1. received'[j] = received[j] + 1
      BY <2>1, <2>3 DEF Typed, InputTypes
    <3>2. ASSUME NEW n \in Nat PROVE Way(n)' <=> Way(n) \/ n = received[j] + 1
      <4>1. /\ arriving' = [job |-> j, n |-> n] <=> n = received[j] + 1
            /\ arriving # [job |-> j, n |-> n]
        BY <1>3, <2>1, <2>3
      <4>. QED
        BY <1>2, <2>1, <4>1 DEF OnWay
    <3>3. \A n \in Nat : d < n /\ n <= received'[j] <=> Way(n)'
      BY <1>1, <3>1, <3>2
    <3>. QED
      BY <1>1, <1>2, <2>1, <3>1, <3>3 DEF Forwarded
  <2>. QED
    BY <2>2, <2>3
<1>7. CASE Push
  <2>1. /\ arriving \in Received /\ arriving' = NoSegment
        /\ work' = Append(work, arriving)
        /\ UNCHANGED <<received, seg, packet, out>>
    BY <1>7 DEF Push, Typed, InputTypes
  <2>2. /\ Len(work') = Len(work) + 1 /\ work'[Len(work) + 1] = arriving
        /\ \A i \in 1..Len(work) : work'[i] = work[i]
        /\ \A i \in 1..Len(work') : i \in 1..Len(work) \/ i = Len(work) + 1
        /\ Len(work) + 1 \in 1..Len(work') /\ 1..Len(work) \subseteq 1..Len(work')
    <3>1. /\ Len(work') = Len(work) + 1 /\ work'[Len(work) + 1] = arriving
          /\ \A i \in 1..Len(work) : work'[i] = work[i]
      BY <1>4, <2>1, AppendProperties
    <3>. QED
      BY <1>4, <3>1
  <2>3. ASSUME NEW n \in Nat PROVE Way(n)' <=> Way(n)
    <3>1. (\E i \in 1..Len(work') : [job |-> j, n |-> n] = work'[i])
            <=> \/ \E i \in 1..Len(work) : [job |-> j, n |-> n] = work[i]
                \/ [job |-> j, n |-> n] = arriving
      BY <2>2
    <3>. QED
      BY <1>2, <1>3, <2>1, <3>1 DEF OnWay
  <2>. QED
    BY <1>5, <2>1, <2>3
<1>8. CASE Take(w) /\ work # <<>>
  <2>1. PICK h \in Received : h = Head(work)
    BY <1>4, <1>8, HeadTailProperties
  <2>2. /\ h = work[1] /\ 1 \in 1..Len(work)
        /\ \A i \in 1..Len(work') : work'[i] = work[i + 1] /\ i + 1 \in 1..Len(work)
        /\ \A i \in 1..Len(work) : i # 1 => \E k \in 1..Len(work') : work'[k] = work[i]
    <3>1. /\ Head(work) = work[1] /\ Len(work) > 0 /\ work' = Tail(work)
          /\ Len(Tail(work)) = Len(work) - 1
          /\ \A i \in 1..Len(Tail(work)) : Tail(work)[i] = work[i + 1]
      BY <1>4, <1>8, HeadTailProperties, EmptySeq DEF Take
    <3>2. ASSUME NEW i \in 1..Len(work), i # 1
          PROVE  \E k \in 1..Len(work') : work'[k] = work[i]
      <4>1. i - 1 \in 1..Len(work') /\ (i - 1) + 1 = i
        BY <1>4, <3>1, <3>2
      <4>2. work'[i - 1] = work[i]
        BY <3>1, <4>1
      <4>. QED
        BY <4>1, <4>2
    <3>3. ASSUME NEW i \in 1..Len(work')
          PROVE  work'[i] = work[i + 1] /\ i + 1 \in 1..Len(work)
      BY <1>4, <3>1, <3>3
    <3>4. h = work[1] /\ 1 \in 1..Len(work)
      BY <1>4, <2>1, <3>1
    <3>. QED
      BY <3>2, <3>3, <3>4
  <2>3. /\ pc[w] = "take" /\ seg' = [seg EXCEPT ![w] = h]
        /\ UNCHANGED <<received, arriving, packet, out>>
    BY <1>8, <2>1 DEF Take, At, input
  <2>4. seg[w] = NoSegment /\ packet[w] = 0 /\ seg'[w] = h
    BY <2>3 DEF Typed, InHand, WorkerTypes, Unpacking
  <2>5. ASSUME NEW n \in Nat PROVE Way(n)' <=> Way(n)
    <3>1. (\E i \in 1..Len(work) : [job |-> j, n |-> n] = work[i])
            <=> \/ \E i \in 1..Len(work') : [job |-> j, n |-> n] = work'[i]
                \/ [job |-> j, n |-> n] = h
      <4>. DEFINE x == [job |-> j, n |-> n]
      <4>. HIDE DEF x
      <4>1. (\E i \in 1..Len(work) : x = work[i])
              <=> (\E i \in 1..Len(work') : x = work'[i]) \/ x = h
        BY <2>2
      <4>. QED
        BY <4>1 DEF x
    <3>. QED
      BY <1>2, <1>3, <2>3, <2>4, <3>1 DEF OnWay
  <2>. QED
    BY <1>3, <1>5, <2>3, <2>4, <2>5
<1>9. CASE Forward(w) /\ seg[w].job # j
  <2>1. /\ seg[w].job \in Jobs /\ out' = [out EXCEPT ![seg[w].job] = out'[seg[w].job]]
        /\ UNCHANGED <<received, arriving, work>>
        /\ seg' = seg \/ seg' = [seg EXCEPT ![w] = NoSegment]
    BY <1>9, ReceivedParts DEF Forward, At, input, Typed, WorkerTypes, InHand, Unpacking,
       StreamTypes
  <2>2. out'[j] = out[j] /\ seg'[w].job # j
    BY <1>3, <1>9, <2>1 DEF Typed, WorkerTypes, StreamTypes
  <2>3. ASSUME NEW n \in Nat PROVE Way(n)' <=> Way(n)
    <3>1. seg[w] # [job |-> j, n |-> n] /\ seg'[w] # [job |-> j, n |-> n]
      BY <1>3, <1>9, <2>2
    <3>. QED
      BY <1>2, <2>1, <3>1 DEF OnWay
  <2>. QED
    BY <1>5, <1>9, <2>1, <2>2, <2>3
<1>10. CASE Forward(w) /\ seg[w].job = j
  <2>1. /\ seg[w] \in Received /\ seg[w].n = d + 1 /\ seg[w].n <= received[j]
        /\ packet[w] \in Nat /\ packet[w] < PacketsPerSegment
        /\ out[j] \in Seq(Nat) /\ Len(out[j]) = d * PacketsPerSegment + packet[w]
        /\ out' = [out EXCEPT ![j] = Append(out[j], Len(out[j]) + 1)]
    BY <1>10, NextPacket
  <2>2. /\ out'[j] = Append(out[j], Len(out[j]) + 1)
        /\ Len(out'[j]) = Len(out[j]) + 1 /\ Len(out[j]) \in Nat
    <3>1. out'[j] = Append(out[j], Len(out[j]) + 1)
      BY <2>1 DEF Typed, StreamTypes
    <3>. QED
      BY <2>1, <3>1, AppendProperties, LenProperties
  <2>3. UNCHANGED <<received, arriving, work>>
    BY <1>10 DEF Forward, input
  <2>4. CASE packet[w] + 1 # PacketsPerSegment
    <3>1. UNCHANGED seg /\ packet'[w] = packet[w] + 1
      BY <1>10, <2>4 DEF Forward, Typed, WorkerTypes
    <3>2. \A n \in Nat : Way(n)' <=> Way(n)
      BY <1>2, <2>3, <3>1 DEF OnWay
    <3>3. \A n \in Nat : d < n /\ n <= received'[j] <=> Way(n)'
      BY <1>1, <2>3, <3>2
    <3>4. Len(out'[j]) = d * PacketsPerSegment + packet'[w] /\ seg'[w].job = j
      <4>1. d * PacketsPerSegment \in Nat
        BY UnpackerAssumption
      <4>. QED
        BY <1>10, <2>1, <2>2, <3>1, <4>1
    <3>5. Forwarded(j, d)'
      BY <1>1, <1>2, <2>3, <3>3, <3>4 DEF Forwarded
    <3>. QED
      BY <3>5
  <2>5. CASE packet[w] + 1 = PacketsPerSegment
    <3>1. seg'[w] = NoSegment
      BY <1>10, <2>5 DEF Forward, Typed, WorkerTypes
    <3>2. ASSUME NEW n \in Nat PROVE Way(n)' <=> Way(n) /\ n # d + 1
      <4>1. seg[w] = [job |-> j, n |-> n] <=> n = d + 1
        BY <1>10, <2>1, ReceivedParts
      <4>2. /\ arriving # seg[w]
            /\ \A i \in 1..Len(work) : work[i] # seg[w]
        BY <2>1, ReceivedParts DEF InTurn, Before
      <4>3. Way(n) <=> \/ [job |-> j, n |-> n] = arriving
                       \/ \E i \in 1..Len(work) : [job |-> j, n |-> n] = work[i]
                       \/ [job |-> j, n |-> n] = seg[w]
        BY DEF OnWay
      <4>4. Way(n)' <=> \/ [job |-> j, n |-> n] = arriving
                        \/ \E i \in 1..Len(work) : [job |-> j, n |-> n] = work[i]
        BY <1>2, <1>3, <2>3, <3>1 DEF OnWay
      <4>. QED
        BY <4>1, <4>2, <4>3, <4>4
    <3>3. \A n \in Nat : d + 1 < n /\ n <= received'[j] <=> Way(n)'
      BY <1>1, <2>3, <3>2
    <3>4. Len(out'[j]) = (d + 1) * PacketsPerSegment
      <4>1. (d + 1) * PacketsPerSegment = d * PacketsPerSegment + PacketsPerSegment
            /\ d * PacketsPerSegment \in Nat /\ PacketsPerSegment \in Nat
        BY UnpackerAssumption
      <4>. QED
        BY <2>1, <2>2, <2>5, <4>1
    <3>5. Len(out'[j]) = (d + 1) * PacketsPerSegment
                           + (IF seg'[w].job = j THEN packet'[w] ELSE 0)
      <4>1. (d + 1) * PacketsPerSegment \in Nat
        BY UnpackerAssumption
      <4>. QED
        BY <1>3, <3>1, <3>4, <4>1
    <3>6. Forwarded(j, d + 1)'
      BY <1>1, <1>2, <2>1, <2>3, <3>3, <3>5 DEF Forwarded
    <3>. QED
      BY <3>6
  <2>. QED
    BY <2>4, <2>5
<1>11. CASE UNCHANGED <<arriving, work, seg, received, out, packet>>
  <2>1. \A n \in Nat : Way(n)' <=> Way(n)
    BY <1>2, <1>11 DEF OnWay
  <2>. QED
    BY <1>5, <1>11, <2>1
<1>12. CASE Take(w) /\ work = <<>>
  BY <1>11, <1>12 DEF Take, input
<1>13. ASSUME NEW k \in Jobs, Expire(k) PROVE \E e \in Nat : Forwarded(j, e)'
  <2>1. UNCHANGED <<arriving, work, seg, received, out, packet>>
    BY <1>13 DEF Expire, input
  <2>. QED
    BY <1>11, <2>1
<1>14. CASE Check(w) \/ Lookup(w) \/ Create(w) \/ Setup(w)
  BY <1>11, <1>14 DEF Check, Lookup, Create, Setup, input
<1>15. CASE Close \/ CloseDrained \/ CloseJoin \/ UNCHANGED vars
  BY <1>11, <1>15 DEF Close, CloseDrained, CloseJoin, input, vars
<1>. QED
  BY <1>6, <1>7, <1>8, <1>9, <1>10, <1>12, <1>13, <1>14, <1>15, Steps
  DEF Outer, Work, Typed

\* An unpacker with one worker has forwarded whole segments and a part of one.
LEMMA GaplessInv == Spec => []Gapless
<1>1. Init /\ Typed => Gapless
  <2>. SUFFICES ASSUME Init, Typed, Linearly, NEW j \in Jobs PROVE Forwarded(j, 0)
    BY DEF Gapless
  <2>1. received[j] = 0 /\ Len(out[j]) = 0 /\ 0 * PacketsPerSegment = 0
    BY UnpackerAssumption DEF Init
  <2>2. \A n \in Nat : ~OnWay([job |-> j, n |-> n])
    BY OnWayTypes, UnpackerAssumption, NoneReceived DEF Init, OnWay, Typed
  <2>3. \A w \in pool : Len(out[j]) = 0 * PacketsPerSegment
                                        + (IF seg[w].job = j THEN packet[w] ELSE 0)
    BY <2>1, UnpackerAssumption DEF Init, Typed
  <2>. QED
    BY <2>1, <2>2, <2>3 DEF Forwarded
<1>2. Typed /\ Typed' /\ InTurn /\ SetUp /\ Gapless /\ [Next]_vars => Gapless'
  <2>. SUFFICES ASSUME Typed, InTurn, SetUp, Gapless, [Next]_vars, Linearly',
                       NEW j \in Jobs
                PROVE  \E e \in Nat : Forwarded(j, e)'
    BY DEF Gapless
  <2>1. Linearly
    BY PoolFixed DEF Linearly, Typed
  <2>. QED
    BY <2>1, OneWorker, GaplessStep DEF Gapless
<1>. QED
  BY <1>1, <1>2, TypedInv, InTurnInv, SetUpInv, PTL DEF Spec

\* More segments hold no fewer packets.
LEMMA Scales ==
  ASSUME NEW a \in Nat, NEW b \in Nat, NEW c \in Nat, a <= b
  PROVE  a * c <= b * c
OBVIOUS

\* An unpacker with one worker implements PacketStream: every packet of a job
\* that was received is handed to its consumer in order and once, whatever the
\* cache expires and whenever the unpacker is closed.
THEOREM LinearCorrect == Spec => Linear
<1>. DEFINE sent == [j \in Jobs |->
                       IF Linearly THEN received[j] * PacketsPerSegment ELSE 0]
            delivered == [j \in Jobs |-> IF Linearly THEN out[j] ELSE <<>>]
<1>1. Init => Packets!Init
  <2>1. Init => \A j \in Jobs : sent[j] = 0 /\ delivered[j] = <<>>
    BY UnpackerAssumption DEF Init
  <2>. QED
    BY <2>1 DEF Packets!Init
<1>2. Typed /\ Typed' /\ InTurn /\ SetUp /\ Gapless /\ [Next]_vars
        => [Packets!Next]_<<sent, delivered>>
  <2>. SUFFICES ASSUME Typed, Typed', InTurn, SetUp, Gapless, [Next]_vars
                PROVE  [Packets!Next]_<<sent, delivered>>
    OBVIOUS
  <2>1. pool' = pool /\ (Linearly' <=> Linearly)
    BY PoolFixed DEF Typed, Linearly
  <2>2. CASE ~Linearly
    BY <2>1, <2>2
  <2>3. CASE UNCHANGED <<received, out>>
    BY <2>1, <2>3
  <2>4. ASSUME Linearly, NEW j \in Jobs, Arrive(j) PROVE Packets!Send(j)
    <3>1. received' = [received EXCEPT ![j] = received[j] + 1] /\ out' = out
      BY <2>4 DEF Arrive
    <3>2. /\ received[j] \in Nat /\ received'[j] = received[j] + 1
          /\ \A k \in Jobs : k # j => received'[k] = received[k]
      BY <3>1 DEF Typed, InputTypes
    <3>3. /\ (received[j] + 1) * PacketsPerSegment
               = received[j] * PacketsPerSegment + PacketsPerSegment
          /\ received[j] * PacketsPerSegment \in Nat
          /\ PacketsPerSegment \in Nat /\ PacketsPerSegment > 0
      BY <3>2, UnpackerAssumption
    <3>4. sent'[j] > sent[j]
      BY <2>1, <2>4, <3>2, <3>3
    <3>5. \A k \in Jobs : k # j => sent'[k] = sent[k]
      BY <2>1, <3>2
    <3>6. sent' = [sent EXCEPT ![j] = sent'[j]]
      BY <3>5
    <3>7. delivered' = delivered
      BY <2>1, <3>1
    <3>. QED
      BY <3>4, <3>6, <3>7 DEF Packets!Send
  <2>5. ASSUME Linearly, NEW w \in Workers, w \in pool, Forward(w)
        PROVE  \E j \in Jobs : Packets!Deliver(j)
    <3>1. pool = {w}
      BY <2>5, OneWorker
    <3>2. PICK j : j = seg[w].job
      OBVIOUS
    <3>3. j \in Jobs
      BY <2>5, <3>2, ReceivedParts DEF Forward, At, Typed, InHand, WorkerTypes, Unpacking
    <3>4. PICK d \in Nat : Forwarded(j, d)
      BY <2>5, <3>3 DEF Gapless
    <3>5. /\ d + 1 <= received[j] /\ packet[w] \in Nat
          /\ packet[w] < PacketsPerSegment /\ out[j] \in Seq(Nat)
          /\ Len(out[j]) = d * PacketsPerSegment + packet[w]
          /\ out' = [out EXCEPT ![j] = Append(out[j], Len(out[j]) + 1)]
      BY <2>5, <3>1, <3>2, <3>4, NextPacket
    <3>6. Len(out[j]) < received[j] * PacketsPerSegment
      <4>1. received[j] \in Nat /\ PacketsPerSegment \in Nat
        BY <3>3, UnpackerAssumption DEF Typed, InputTypes
      <4>2. (d + 1) * PacketsPerSegment <= received[j] * PacketsPerSegment
        BY <3>5, <4>1, Scales, d + 1 \in Nat
      <4>3. /\ (d + 1) * PacketsPerSegment = d * PacketsPerSegment + PacketsPerSegment
            /\ d * PacketsPerSegment \in Nat
            /\ received[j] * PacketsPerSegment \in Nat
        BY <4>1
      <4>. QED
        BY <3>5, <4>1, <4>2, <4>3
    <3>7. /\ delivered[j] = out[j] /\ sent[j] = received[j] * PacketsPerSegment
      BY <2>5, <3>3
    <3>8. sent' = sent
      BY <2>1, <2>5 DEF Forward, input
    <3>9. /\ out'[j] = Append(out[j], Len(out[j]) + 1)
          /\ \A k \in Jobs : k # j => out'[k] = out[k]
      BY <3>3, <3>5 DEF Typed, StreamTypes
    <3>10. delivered' = [delivered EXCEPT ![j] = Append(delivered[j], Len(delivered[j]) + 1)]
      <4>1. \A k \in Jobs : delivered'[k] = IF k = j THEN Append(out[j], Len(out[j]) + 1)
                                                     ELSE delivered[k]
        BY <2>1, <2>5, <3>9
      <4>. QED
        BY <3>3, <3>7, <4>1
    <3>. QED
      BY <3>3, <3>6, <3>7, <3>8, <3>10 DEF Packets!Deliver
  <2>. QED
    BY <2>2, <2>3, <2>4, <2>5, Steps
    DEF Outer, Work, Expire, Push, Check, Take, Lookup, Create, Setup, Close,
        CloseDrained, CloseJoin, input, vars, Typed, Packets!Next
<1>. QED
  BY <1>1, <1>2, TypedInv, InTurnInv, SetUpInv, GaplessInv, PTL
  DEF Spec, Linear, Packets!Spec
-----------------------------------------------------------------------------
(* The cache that the unpacker gets its Streams from, over time, for every  *)
(* number of ids, lifetime, sweep period and clock.                         *)

\* cleanupFreq seconds, in ticks.
Period == CleanupFreq * TicksPerSecond

\* The product of naturals is one: the SMT solver needs it as a fact.
LEMMA Product == \A a, b \in Nat : a * b \in Nat
  OBVIOUS

\* The sweep period in ticks is a natural number.
LEMMA PeriodType == Period \in Nat
<1>1. CleanupFreq \in Nat /\ TicksPerSecond \in Nat
  BY CacheAssumption
<1>. QED
  BY <1>1, Product, Zenon DEF Period

\* Every reachable state of the cache is of the right type.
THEOREM CacheTypes == CacheSpec => []CacheTypeOK
<1>1. CacheInit => CacheTypeOK
  <2>. SUFFICES ASSUME CacheInit PROVE CacheTypeOK
    OBVIOUS
  <2>1. now \in 0..MaxTime /\ wake \in Nat
    BY CacheAssumption DEF CacheInit
  <2>2. cached \subseteq Ids
    BY DEF CacheInit
  <2>3. sweepCrashed \in BOOLEAN /\ ending = "no"
    BY Zenon DEF CacheInit
  <2>4. expires \in [Ids -> Nat] /\ used \in [Ids -> Nat]
    BY DEF CacheInit
  <2>. QED
    BY <2>1, <2>2, <2>3, <2>4, Zenon DEF CacheTypeOK
<1>2. CacheTypeOK /\ [CacheNext]_cacheVars => CacheTypeOK'
  <2>. SUFFICES ASSUME CacheTypeOK, [CacheNext]_cacheVars PROVE CacheTypeOK'
    OBVIOUS
  <2>. USE CacheAssumption DEF CacheTypeOK
  <2>1. CASE Tick
    BY <2>1 DEF Tick
  <2>2. CASE Sweep
    <3>1. wake' \in Nat
      BY <2>2, PeriodType DEF Sweep, Period
    <3>2. sweepCrashed' \in BOOLEAN
      BY <2>2, Zenon DEF Sweep
    <3>. QED
      BY <2>2, <3>1, <3>2 DEF Sweep
  <2>3. ASSUME NEW j \in Ids, GetSegment(j) PROVE CacheTypeOK'
    BY <2>3 DEF GetSegment, Refresh
  <2>4. ASSUME NEW j \in Ids, GetId(j) PROVE CacheTypeOK'
    BY <2>4 DEF GetId, Refresh
  <2>5. CASE Destroy
    BY <2>5 DEF Destroy
  <2>6. CASE Rejoin
    <3>1. sweepCrashed' \in BOOLEAN
      BY <2>6, Zenon DEF Rejoin
    <3>. QED
      BY <2>6, <3>1 DEF Rejoin
  <2>7. CASE UNCHANGED cacheVars
    BY <2>7 DEF cacheVars
  <2>. QED
    BY <2>1, <2>2, <2>3, <2>4, <2>5, <2>6, <2>7 DEF CacheNext
<1>. QED
  BY <1>1, <1>2, PTL DEF CacheSpec

-----------------------------------------------------------------------------
(* How expiry, use and the next sweep are related. *)

\* An entry's expiry is its lifetime after its last use, which is past.  The
\* next sweep is at most a period away, and at most a period after any entry's
\* expiry: the last sweep would have removed the entry otherwise.
TimeInv ==
  /\ now <= wake /\ wake <= now + Period
  /\ \A j \in cached : /\ used[j] <= now
                       /\ expires[j] = used[j] + ExpSeconds
                       /\ wake <= expires[j] + Period

\* The relations of TimeInv hold of every reachable state.
THEOREM TimeCorrect == CacheSpec => []TimeInv
<1>1. CacheInit => TimeInv
  BY PeriodType DEF CacheInit, TimeInv
<1>2. CacheTypeOK /\ TimeInv /\ [CacheNext]_cacheVars => TimeInv'
  <2>. SUFFICES ASSUME CacheTypeOK, TimeInv, [CacheNext]_cacheVars
                PROVE  TimeInv'
    OBVIOUS
  <2>. USE CacheAssumption, PeriodType DEF CacheTypeOK, TimeInv
  <2>1. CASE Tick
    BY <2>1 DEF Tick
  <2>2. CASE Sweep
    <3>1. /\ now >= wake /\ wake' = now + Period /\ now' = now
          /\ cached' = {j \in cached : ~(now > expires[j])}
          /\ used' = used /\ expires' = expires
      BY <2>2 DEF Sweep, Expired, Period
    <3>2. ASSUME NEW j \in cached'
          PROVE  /\ used'[j] <= now' /\ expires'[j] = used'[j] + ExpSeconds
                 /\ wake' <= expires'[j] + Period
      BY <3>1, <3>2
    <3>. QED
      BY <3>1, <3>2
  <2>3. ASSUME NEW j \in Ids, Refresh(j), cached' \subseteq cached \cup {j},
               now' = now, wake' = wake
        PROVE  TimeInv'
    <3>1. ASSUME NEW k \in cached'
          PROVE  /\ used'[k] <= now' /\ expires'[k] = used'[k] + ExpSeconds
                 /\ wake' <= expires'[k] + Period
      BY <2>3, <3>1 DEF Refresh
    <3>. QED
      BY <2>3, <3>1
  <2>4. ASSUME NEW j \in Ids, GetSegment(j) \/ GetId(j) PROVE TimeInv'
    BY <2>3, <2>4 DEF GetSegment, GetId
  <2>5. CASE Destroy
    BY <2>5 DEF Destroy
  <2>6. CASE Rejoin
    BY <2>6 DEF Rejoin
  <2>7. CASE UNCHANGED cacheVars
    BY <2>7 DEF cacheVars
  <2>. QED
    BY <2>1, <2>2, <2>4, <2>5, <2>6, <2>7 DEF CacheNext
<1>. QED
  BY <1>1, <1>2, CacheTypes, PTL DEF CacheSpec

\* No entry stays longer than one sweep period after its lifetime in ticks.
THEOREM TightCorrect == CacheSpec => []TightBound
<1>1. CacheTypeOK /\ TimeInv => TightBound
  <2>. SUFFICES ASSUME CacheTypeOK, TimeInv, NEW j \in cached
                PROVE  now <= used[j] + ExpSeconds + Period
    BY DEF TightBound, Period
  <2>1. used[j] \in Nat /\ now \in Nat /\ wake \in Nat
    BY DEF CacheTypeOK
  <2>2. now <= wake /\ wake <= used[j] + ExpSeconds + Period
    BY <2>1, CacheAssumption, PeriodType DEF TimeInv
  <2>. QED
    BY <2>1, <2>2, CacheAssumption, PeriodType
<1>. QED
  BY <1>1, CacheTypes, TimeCorrect, PTL

\* A number is no more than a multiple of it.
LEMMA Multiple == \A a \in Nat, b \in Nat \ {0} : a <= a * b /\ a * b \in Nat
<1>. SUFFICES ASSUME NEW a \in Nat, NEW b \in Nat \ {0}
              PROVE  a <= a * b /\ a * b \in Nat
  OBVIOUS
<1>1. b - 1 \in Nat /\ a * b = a * (b - 1) + a
  OBVIOUS
<1>2. a * (b - 1) \in Nat /\ a * b \in Nat
  BY <1>1, Product
<1>. QED
  BY <1>1, <1>2

\* So none is found a sweep period after the time it should last, in seconds.
THEOREM StaleCorrect == CacheSpec => []StaleBound
<1>1. CacheTypeOK /\ TightBound => StaleBound
  <2>. SUFFICES ASSUME CacheTypeOK, TightBound, NEW j \in cached
                PROVE  now <= used[j] + (ExpSeconds + CleanupFreq) * TicksPerSecond
    BY DEF StaleBound
  <2>. DEFINE last == ExpSeconds * TicksPerSecond
  <2>1. /\ ExpSeconds <= last /\ last \in Nat
        /\ ExpSeconds \in Nat /\ Period \in Nat
    BY CacheAssumption, Multiple, PeriodType
  <2>2. now <= used[j] + ExpSeconds + Period /\ used[j] \in Nat /\ now \in Nat
    BY DEF TightBound, Period, CacheTypeOK
  <2>3. (ExpSeconds + CleanupFreq) * TicksPerSecond = last + Period
    BY CacheAssumption DEF Period
  <2>. HIDE DEF last
  <2>. QED
    BY <2>1, <2>2, <2>3
<1>. QED
  BY <1>1, CacheTypes, TightCorrect, PTL

\* No entry goes before its lifetime since its last use is over, unless the
\* cache does.
THEOREM FreshCorrect == CacheSpec => Fresh
<1>1. CacheTypeOK /\ TimeInv /\ [CacheNext]_cacheVars
        => [\A j \in cached :
              j \notin cached' =>
                now > used[j] + ExpSeconds \/ ending' = "done"]_cacheVars
  <2>. SUFFICES ASSUME CacheTypeOK, TimeInv, [CacheNext]_cacheVars,
                       NEW j \in cached, j \notin cached', ending' # "done"
                PROVE  now > used[j] + ExpSeconds
    OBVIOUS
  <2>1. Sweep
    BY DEF CacheNext, Tick, GetSegment, GetId, Destroy, Rejoin, cacheVars
  <2>2. now > expires[j]
    BY <2>1 DEF Sweep, Expired
  <2>. QED
    BY <2>2 DEF TimeInv
<1>. QED
  BY <1>1, CacheTypes, TimeCorrect, PTL DEF CacheSpec, Fresh
=============================================================================
