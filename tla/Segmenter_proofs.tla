-------------------------- MODULE Segmenter_proofs --------------------------
(***************************************************************************)
(* Theorems about Segmenter, for every media type, nframes and stream, and *)
(* about its segments on the wire, for every length they have.             *)
(***************************************************************************)
EXTENDS MCSegmenter, FiniteSetTheorems, SequenceTheorems, TLAPS

\* A segmenter starts with no packets and no segments.
LEMMA NoPackets == <<>> \in Segment /\ <<>> \in Seq(Segment)
  BY EmptySeq DEF Segment

\* A packet more, or the first one, makes a segment again.
LEMMA GrowSegment ==
  ASSUME NEW segment \in Segment, NEW packet \in Packet
  PROVE  Append(segment, packet) \in Segment /\ <<packet>> \in Segment
  BY DEF Segment

\* Every reachable state is of the right type.
THEOREM TypeCorrect == Spec => []TypeOK
<1>1. Init => TypeOK
  <2>. SUFFICES ASSUME Init PROVE TypeOK
    OBVIOUS
  <2>1. current \in Segment /\ sent \in Seq(Segment)
    BY NoPackets DEF Init
  <2>2. seen \in Nat /\ currentFrames \in Nat /\ flushes \in Nat
    BY DEF Init
  <2>. QED
    BY <2>1, <2>2 DEF Init, TypeOK
<1>2. TypeOK /\ [Next]_vars => TypeOK'
  <2>. SUFFICES ASSUME TypeOK, [Next]_vars PROVE TypeOK'
    OBVIOUS
  <2>. USE DEF TypeOK
  <2>1. ASSUME NEW key \in BOOLEAN,
               FirstPacket(key) \/ NextSegment(key) \/ ExtendSegment(key)
        PROVE  TypeOK'
    <3>1. /\ seen' = seen + 1 /\ mediaType' = mediaType
          /\ Next1(key) \in Packet
      BY <2>1 DEF FirstPacket, NextSegment, ExtendSegment, Receive, Next1,
                  Packet
    <3>2. <<Next1(key)>> \in Segment
      BY <3>1, GrowSegment
    <3>3. Append(current, Next1(key)) \in Segment
      BY <3>1, GrowSegment
    <3>4. Append(sent, current) \in Seq(Segment)
      OBVIOUS
    <3>5. CASE FirstPacket(key)
      <4>1. /\ created' = TRUE /\ sent' = sent /\ flushes' = flushes
            /\ status' \in {"threw", "running"}
            /\ \/ current' = current /\ currentFrames' = currentFrames
               \/ /\ current' = Append(current, Next1(key))
                  /\ currentFrames' = currentFrames + 1
        BY <3>5 DEF FirstPacket, Receive
      <4>2. current' \in Segment
        BY <4>1, <3>3
      <4>3. currentFrames' \in Nat
        BY <4>1
      <4>4. sent' \in Seq(Segment)
        BY <4>1
      <4>5. /\ created' \in BOOLEAN /\ seen' \in Nat /\ flushes' \in Nat
            /\ mediaType' \in {"video", "audio"}
        BY <4>1, <3>1
      <4>6. status' \in {"running", "threw", "nullSegment", "destroyed"}
        BY <4>1
      <4>. QED
        BY <4>2, <4>3, <4>4, <4>5, <4>6
    <3>6. CASE NextSegment(key)
      BY <3>1, <3>2, <3>4, <3>6 DEF NextSegment
    <3>7. CASE ExtendSegment(key)
      BY <3>1, <3>3, <3>7 DEF ExtendSegment
    <3>. QED
      BY <2>1, <3>5, <3>6, <3>7
  <2>2. CASE Flush
    BY <2>2 DEF Flush, Signal
  <2>3. CASE Destroy
    BY <2>3 DEF Destroy, Signal
  <2>4. CASE MissingParameters
    BY <2>4 DEF MissingParameters, Receive
  <2>5. CASE UNCHANGED vars
    BY <2>5 DEF vars
  <2>. QED
    BY <2>1, <2>2, <2>3, <2>4, <2>5 DEF Next
<1>. QED
  BY <1>1, <1>2, PTL DEF Spec

-----------------------------------------------------------------------------
(* The shape of the segments. *)

\* What process() keeps of the current segment between two packets.
CurrentInv ==
  /\ ~created => current = <<>> /\ sent = <<>>
  /\ created /\ status = "running" => current # <<>>
  /\ currentFrames = Len(current)
  /\ mediaType = "audio" =>
       Len(current) <= (IF NFrames = 0 THEN 1 ELSE NFrames)

\* The segment process() is at: there is none before the first packet, it is
\* never empty afterwards, and currentFrames counts its packets.
THEOREM CurrentCorrect == Spec => []CurrentInv
<1>1. Init => CurrentInv
  BY SegmenterAssumption DEF Init, CurrentInv
<1>2. TypeOK /\ CurrentInv /\ [Next]_vars => CurrentInv'
  <2>. SUFFICES ASSUME TypeOK, CurrentInv, [Next]_vars PROVE CurrentInv'
    OBVIOUS
  <2>. USE SegmenterAssumption DEF TypeOK, CurrentInv
  <2>1. ASSUME NEW key \in BOOLEAN, FirstPacket(key) PROVE CurrentInv'
    <3>1. current = <<>> /\ currentFrames = 0 /\ created' = TRUE
      BY <2>1 DEF FirstPacket
    <3>2. CASE current' = current /\ currentFrames' = 0 /\ status' = "threw"
      BY <3>1, <3>2
    <3>3. CASE /\ current' = Append(current, Next1(key))
               /\ currentFrames' = currentFrames + 1
      <4>1. current' # <<>> /\ Len(current') = 1 /\ currentFrames' = 1
        BY <3>1, <3>3
      <4>. QED
        BY <3>1, <4>1
    <3>. QED
      BY <2>1, <3>1, <3>2, <3>3 DEF FirstPacket
  <2>2. ASSUME NEW key \in BOOLEAN, NextSegment(key) PROVE CurrentInv'
    BY <2>2 DEF NextSegment, Receive
  <2>3. ASSUME NEW key \in BOOLEAN, ExtendSegment(key) PROVE CurrentInv'
    BY <2>3 DEF ExtendSegment, Receive, Cut
  <2>4. CASE Flush
    BY <2>4 DEF Flush, Signal
  <2>5. CASE Destroy
    BY <2>5 DEF Destroy, Signal
  <2>6. CASE MissingParameters
    BY <2>6 DEF MissingParameters, Receive
  <2>7. CASE UNCHANGED vars
    BY <2>7 DEF vars
  <2>. QED
    BY <2>1, <2>2, <2>3, <2>4, <2>5, <2>6, <2>7 DEF Next
<1>. QED
  BY <1>1, <1>2, TypeCorrect, PTL DEF Spec

\* Appending to the list of segments leaves the ones already there.
LEMMA AppendSegment ==
  ASSUME NEW list \in Seq(Segment), NEW segment \in Segment
  PROVE  /\ Len(Append(list, segment)) = Len(list) + 1
         /\ \A k \in 1..Len(list) : Append(list, segment)[k] = list[k]
         /\ Append(list, segment)[Len(list) + 1] = segment
  OBVIOUS

\* A segmenter serves one stream.
LEMMA SameStream == [Next]_vars => mediaType' = mediaType
  BY DEF Next, MissingParameters, FirstPacket, NextSegment, ExtendSegment,
         Receive, Flush, Destroy, vars

\* Every video segment is one group of pictures.
THEOREM VideoCorrect == Spec => []VideoShape
<1>1. Init => VideoShape
  BY DEF Init, VideoShape, GroupOfPictures
<1>2. /\ TypeOK /\ CurrentInv /\ VideoShape /\ [Next]_vars => VideoShape'
  <2>. SUFFICES ASSUME TypeOK, CurrentInv, VideoShape, [Next]_vars,
                       mediaType = "video"
                PROVE  VideoShape'
    BY SameStream DEF VideoShape
  <2>1. ASSUME sent' = Append(sent, current)
        PROVE  \A k \in 1..Len(sent') : GroupOfPictures(sent'[k])
    BY <2>1, AppendSegment DEF TypeOK, VideoShape
  <2>2. ASSUME NEW key \in BOOLEAN, FirstPacket(key) PROVE VideoShape'
    <3>1. CASE current' = <<>>
      BY <2>2, <3>1 DEF FirstPacket, VideoShape, GroupOfPictures
    <3>2. CASE current' = Append(current, Next1(key)) /\ key
      <4>1. current = <<>>
        BY <2>2 DEF FirstPacket, CurrentInv
      <4>2. GroupOfPictures(current')
        BY <3>2, <4>1 DEF GroupOfPictures, Next1
      <4>. QED
        BY <2>2, <4>2 DEF FirstPacket, VideoShape
    <3>. QED
      BY <2>2, <3>1, <3>2 DEF FirstPacket, CurrentInv
  <2>3. ASSUME NEW key \in BOOLEAN, NextSegment(key) PROVE VideoShape'
    <3>1. GroupOfPictures(current')
      BY <2>3 DEF NextSegment, Cut, GroupOfPictures, Next1
    <3>. QED
      BY <2>1, <2>3, <3>1 DEF NextSegment, VideoShape
  <2>4. ASSUME NEW key \in BOOLEAN, ExtendSegment(key) PROVE VideoShape'
    <3>1. created /\ current # <<>> /\ ~key
      BY <2>4 DEF ExtendSegment, Cut, CurrentInv, Receive
    <3>2. GroupOfPictures(current')
      <4>1. current \in Seq(Packet) /\ GroupOfPictures(current)
        BY DEF TypeOK, Segment, VideoShape
      <4>2. current' = Append(current, Next1(key)) /\ ~Next1(key).key
        BY <2>4, <3>1 DEF ExtendSegment, Next1
      <4>. QED
        BY <3>1, <4>1, <4>2 DEF GroupOfPictures
    <3>. QED
      BY <2>4, <3>2 DEF ExtendSegment, VideoShape
  <2>5. CASE Flush
    BY <2>1, <2>5 DEF Flush, Signal, VideoShape
  <2>6. CASE Destroy
    BY <2>1, <2>6 DEF Destroy, Signal, VideoShape
  <2>7. CASE MissingParameters
    BY <2>7 DEF MissingParameters, VideoShape
  <2>8. CASE UNCHANGED vars
    BY <2>8 DEF vars, VideoShape
  <2>. QED
    BY <2>2, <2>3, <2>4, <2>5, <2>6, <2>7, <2>8 DEF Next
<1>. QED
  BY <1>1, <1>2, TypeCorrect, CurrentCorrect, PTL DEF Spec

\* Every audio segment process() cuts has exactly nframes packets.
THEOREM AudioCorrect == Spec => []AudioSize
<1>1. Init => AudioSize
  BY SegmenterAssumption DEF Init, AudioSize
<1>2. TypeOK /\ CurrentInv /\ AudioSize /\ [Next]_vars => AudioSize'
  <2>. SUFFICES ASSUME TypeOK, CurrentInv, AudioSize, [Next]_vars,
                       mediaType = "audio", flushes' = 0, status' = "running"
                PROVE  AudioSize'
    BY SameStream DEF AudioSize
  <2>0. flushes = 0 /\ status = "running"
    BY DEF Next, MissingParameters, FirstPacket, NextSegment, ExtendSegment,
           Receive, Flush, Destroy, TypeOK, vars
  <2>. USE <2>0, SegmenterAssumption DEF TypeOK, CurrentInv, AudioSize
  <2>1. ASSUME NEW key \in BOOLEAN, FirstPacket(key) PROVE AudioSize'
    <3>1. current = <<>> /\ sent = <<>> /\ sent' = <<>>
      BY <2>1 DEF FirstPacket
    <3>2. current' = Append(current, Next1(key))
      BY <2>1 DEF FirstPacket
    <3>3. Len(current') = 1
      BY <3>1, <3>2
    <3>. QED
      BY <3>1, <3>3
  <2>2. ASSUME NEW key \in BOOLEAN, NextSegment(key) PROVE AudioSize'
    <3>1. sent' = Append(sent, current) /\ Len(current') = 1
      BY <2>2 DEF NextSegment
    <3>2. Len(current) = IF NFrames = 0 THEN 1 ELSE NFrames
      <4>1. created /\ currentFrames >= NFrames /\ current # <<>>
        BY <2>2 DEF NextSegment, Cut
      <4>. QED
        BY <4>1 DEF Segment
    <3>3. \A k \in 1..Len(sent') :
            Len(sent'[k]) = IF NFrames = 0 THEN 1 ELSE NFrames
      <4>. SUFFICES ASSUME NEW k \in 1..Len(sent')
                    PROVE  Len(sent'[k]) = IF NFrames = 0 THEN 1 ELSE NFrames
        OBVIOUS
      <4>1. Len(sent') = Len(sent) + 1
        BY <3>1
      <4>2. CASE k \in 1..Len(sent)
        BY <3>1, <4>2, AppendSegment
      <4>3. CASE k = Len(sent) + 1
        BY <3>1, <3>2, <4>3, AppendSegment
      <4>. QED
        BY <4>1, <4>2, <4>3
    <3>. QED
      BY <3>1, <3>3
  <2>3. ASSUME NEW key \in BOOLEAN, ExtendSegment(key) PROVE AudioSize'
    BY <2>3 DEF ExtendSegment, Receive, Cut, Segment
  <2>4. CASE Flush
    BY <2>4 DEF Flush
  <2>5. CASE Destroy
    BY <2>5 DEF Destroy, Signal
  <2>6. CASE MissingParameters
    BY <2>6 DEF MissingParameters
  <2>7. CASE UNCHANGED vars
    BY <2>7 DEF vars
  <2>. QED
    BY <2>1, <2>2, <2>3, <2>4, <2>5, <2>6, <2>7 DEF Next
<1>. QED
  BY <1>1, <1>2, TypeCorrect, CurrentCorrect, PTL DEF Spec

\* Until a flush, the segments partition the stream in order.
THEOREM PartitionCorrect == Spec => []Partition
<1>1. Init => Partition
  BY DEF Init, Partition, Positions, End
<1>2. TypeOK /\ CurrentInv /\ Partition /\ [Next]_vars => Partition'
  <2>. SUFFICES ASSUME TypeOK, CurrentInv, Partition, [Next]_vars,
                       flushes' = 0, status' = "running"
                PROVE  Partition'
    BY DEF Partition
  <2>0. flushes = 0 /\ status = "running"
    BY DEF Next, MissingParameters, FirstPacket, NextSegment, ExtendSegment,
           Receive, Flush, Destroy, TypeOK, vars
  <2>. USE <2>0 DEF TypeOK, CurrentInv, Partition
  <2>00. Len(sent) \in Nat /\ \A k \in 0..Len(sent) : End(k) \in Nat
    <3>1. ASSUME NEW k \in 1..Len(sent) PROVE sent[k][Len(sent[k])].pos \in Nat
      <4>1. sent[k] \in Seq(Packet) /\ sent[k] # <<>>
        BY DEF Segment
      <4>2. Len(sent[k]) \in 1..Len(sent[k])
        BY <4>1
      <4>3. sent[k][Len(sent[k])] \in Packet
        BY <4>1, <4>2
      <4>. QED
        BY <4>3 DEF Packet
    <3>. QED
      BY <3>1 DEF End
  <2>1. ASSUME NEW key \in BOOLEAN, FirstPacket(key) PROVE Partition'
    <3>1. current = <<>> /\ sent = <<>> /\ sent' = <<>> /\ seen = 0
      BY <2>1 DEF FirstPacket, End
    <3>2. current' = <<Next1(key)>> /\ seen' = 1
      BY <2>1, <3>1 DEF FirstPacket, Receive
    <3>. QED
      BY <3>1, <3>2 DEF Positions, End, Next1
  <2>2. ASSUME NEW key \in BOOLEAN, NextSegment(key) PROVE Partition'
    <3>1. /\ sent' = Append(sent, current) /\ current' = <<Next1(key)>>
          /\ seen' = seen + 1 /\ current # <<>>
      BY <2>2 DEF NextSegment, Receive
    <3>2. /\ Len(sent') = Len(sent) + 1
          /\ \A k \in 1..Len(sent) : sent'[k] = sent[k]
          /\ sent'[Len(sent) + 1] = current
      BY <3>1, AppendSegment
    <3>3. current \in Seq(Packet) /\ Len(current) \in Nat \ {0}
      BY <3>1 DEF Segment
    <3>4. Len(sent) \in Nat /\ End(Len(sent)) \in Nat
      BY <2>00
    <3>5. \A k \in 0..Len(sent) : End(k)' = End(k)
      BY <3>2, <3>4 DEF End
    <3>6. End(Len(sent))' = seen
      <4>1. End(Len(sent))' = current[Len(current)].pos
        BY <3>2, <3>4 DEF End
      <4>2. current[Len(current)].pos = End(Len(sent)) + 1 + Len(current) - 1
        BY <3>3 DEF Positions
      <4>3. seen = End(Len(sent)) + Len(current)
        OBVIOUS
      <4>. HIDE DEF TypeOK, CurrentInv, Partition
      <4>4. End(Len(sent)) + 1 + Len(current) - 1
              = End(Len(sent)) + Len(current)
        BY <3>3, <3>4
      <4>. QED
        BY <4>1, <4>2, <4>3, <4>4, Zenon
    <3>7. \A k \in 1..Len(sent') :
            sent'[k] # <<>> /\ Positions(sent'[k], End(k - 1)' + 1)
      <4>. SUFFICES
             ASSUME NEW k \in 1..Len(sent')
             PROVE  sent'[k] # <<>> /\ Positions(sent'[k], End(k - 1)' + 1)
        OBVIOUS
      <4>1. CASE k \in 1..Len(sent)
        <5>1. sent[k] # <<>> /\ Positions(sent[k], End(k - 1) + 1)
          BY <4>1
        <5>2. k - 1 \in 0..Len(sent)
          BY <3>4, <4>1
        <5>. QED
          BY <3>2, <3>5, <4>1, <5>1, <5>2
      <4>2. CASE k = Len(sent) + 1
        BY <3>1, <3>2, <3>4, <3>5, <4>2
      <4>. QED
        BY <3>2, <3>4, <4>1, <4>2
    <3>8. Positions(current', seen + 1) /\ Len(current') = 1
      BY <3>1 DEF Positions, Next1
    <3>. QED
      BY <3>1, <3>2, <3>6, <3>7, <3>8
  <2>3. ASSUME NEW key \in BOOLEAN, ExtendSegment(key) PROVE Partition'
    <3>1. /\ sent' = sent /\ current' = Append(current, Next1(key))
          /\ seen' = seen + 1
      BY <2>3 DEF ExtendSegment, Receive
    <3>2. current \in Seq(Packet) /\ Next1(key).pos = seen + 1
      BY DEF Segment, Next1
    <3>3. \A k \in 0..Len(sent) : End(k)' = End(k)
      BY <3>1 DEF End
    <3>4. /\ Len(sent) \in Nat /\ Len(current) \in Nat
          /\ End(Len(sent)) \in Nat
      BY <2>00, <3>2
    <3>6. End(Len(sent))' = End(Len(sent))
      BY <3>1, <3>3, <3>4
    <3>5. /\ Len(current') = Len(current) + 1
          /\ \A i \in 1..Len(current) : current'[i] = current[i]
          /\ current'[Len(current) + 1] = Next1(key)
      BY <3>1, <3>2
    <3>7. seen = End(Len(sent)) + Len(current)
      OBVIOUS
    <3>8. Positions(current', End(Len(sent)) + 1)
      <4>. SUFFICES ASSUME NEW i \in 1..Len(current')
                    PROVE  current'[i].pos = End(Len(sent)) + 1 + i - 1
        BY DEF Positions
      <4>1. CASE i \in 1..Len(current)
        BY <3>5, <4>1 DEF Positions
      <4>2. CASE i = Len(current) + 1
        <5>1. current'[i].pos = seen + 1
          BY <3>2, <3>5, <4>2
        <5>. HIDE DEF TypeOK, CurrentInv, Partition
        <5>. QED
          BY <3>4, <3>7, <4>2, <5>1
      <4>3. i \in 1..Len(current) \/ i = Len(current) + 1
        <5>. HIDE DEF TypeOK, CurrentInv, Partition
        <5>. QED
          BY <3>4, <3>5
      <4>. QED
        BY <4>1, <4>2, <4>3
    <3>9. \A k \in 1..Len(sent') :
            sent'[k] # <<>> /\ Positions(sent'[k], End(k - 1)' + 1)
      <4>1. \A k \in 1..Len(sent) :
              sent[k] # <<>> /\ Positions(sent[k], End(k - 1) + 1)
        OBVIOUS
      <4>. HIDE DEF TypeOK, CurrentInv, Partition
      <4>2. \A k \in 1..Len(sent) : End(k - 1)' = End(k - 1)
        <5>1. \A k \in 1..Len(sent) : k - 1 \in 0..Len(sent)
          BY <3>4
        <5>. QED
          BY <3>3, <5>1
      <4>. QED
        BY <3>1, <4>1, <4>2
    <3>10. Positions(current', End(Len(sent))' + 1)
      BY <3>6, <3>8
    <3>11. seen' = End(Len(sent))' + Len(current')
      <4>1. Len(current) \in Nat
        BY <3>2
      <4>. QED
        BY <3>1, <3>4, <3>5, <3>6, <3>7, <4>1
    <3>. QED
      BY <3>9, <3>10, <3>11
  <2>4. CASE Flush
    BY <2>4 DEF Flush
  <2>5. CASE Destroy
    BY <2>5 DEF Destroy, Signal
  <2>6. CASE MissingParameters
    BY <2>6 DEF MissingParameters
  <2>7. CASE UNCHANGED vars
    BY <2>7 DEF vars, End
  <2>. QED
    BY <2>1, <2>2, <2>3, <2>4, <2>5, <2>6, <2>7 DEF Next
<1>. QED
  BY <1>1, <1>2, TypeCorrect, CurrentCorrect, PTL DEF Spec

-----------------------------------------------------------------------------
(* Nothing is lost. *)

\* Is the packet received n-th in this segment?
In(segment, n) == \E i \in 1..Len(segment) : segment[i].pos = n

\* A packet that was received is in a segment that was signalled or in the
\* current one, unless it made process() throw.
Kept ==
  status # "threw" =>
    \A n \in 1..seen :
      In(current, n) \/ \E k \in 1..Len(sent) : In(sent[k], n)

\* A segment that grows by a packet keeps those it has.
LEMMA GrowsIn ==
  ASSUME NEW segment \in Segment, NEW packet \in Packet
  PROVE  /\ \A n : In(segment, n) => In(Append(segment, packet), n)
         /\ In(Append(segment, packet), packet.pos)
         /\ In(<<packet>>, packet.pos)
<1>1. /\ Len(segment) \in Nat /\ Len(Append(segment, packet)) = Len(segment) + 1
      /\ \A i \in 1..Len(segment) : Append(segment, packet)[i] = segment[i]
      /\ Append(segment, packet)[Len(segment) + 1] = packet
  BY DEF Segment
<1>2. ASSUME NEW n, NEW i \in 1..Len(segment), segment[i].pos = n
      PROVE  In(Append(segment, packet), n)
  BY <1>1, <1>2 DEF In
<1>3. In(Append(segment, packet), packet.pos)
  BY <1>1 DEF In
<1>4. In(<<packet>>, packet.pos)
  BY DEF In
<1>. QED
  BY <1>2, <1>3, <1>4 DEF In

\* A signal loses nothing.
LEMMA SignalIn ==
  ASSUME TypeOK, Kept, status # "threw", sent' = Append(sent, current)
  PROVE  \A n \in 1..seen : \E k \in 1..Len(sent') : In(sent'[k], n)
<1>1. /\ Len(sent) \in Nat /\ Len(sent') = Len(sent) + 1
      /\ \A k \in 1..Len(sent) : sent'[k] = sent[k]
      /\ sent'[Len(sent) + 1] = current
  BY AppendSegment DEF TypeOK
<1>. SUFFICES ASSUME NEW n \in 1..seen
              PROVE  \E k \in 1..Len(sent') : In(sent'[k], n)
  OBVIOUS
<1>2. CASE In(current, n)
  <2>1. Len(sent) + 1 \in 1..Len(sent') /\ In(sent'[Len(sent) + 1], n)
    BY <1>1, <1>2
  <2>. QED
    BY <2>1
<1>3. ASSUME NEW k \in 1..Len(sent), In(sent[k], n)
      PROVE  \E l \in 1..Len(sent') : In(sent'[l], n)
  <2>1. k \in 1..Len(sent') /\ In(sent'[k], n)
    BY <1>1, <1>3
  <2>. QED
    BY <2>1
<1>. QED
  BY <1>2, <1>3 DEF Kept

\* A destroyed segmenter has signalled every packet it received: the current
\* segment holds what no signal passed on yet, and the destructor signals it.
THEOREM NoneLostCorrect == Spec => []NoneLost
<1>. DEFINE IInv == Kept /\ NoneLost
<1>1. Init => IInv
  BY DEF Init, Kept, NoneLost
<1>2. TypeOK /\ CurrentInv /\ IInv /\ [Next]_vars => IInv'
  <2>. SUFFICES ASSUME TypeOK, CurrentInv, Kept, NoneLost, [Next]_vars
                PROVE  IInv'
    OBVIOUS
  <2>0. seen \in Nat
    BY DEF TypeOK
  <2>1. Receive => 1..seen' = 1..seen \cup {seen + 1} /\ status = "running"
    BY <2>0 DEF Receive
  <2>2. ASSUME NEW key \in BOOLEAN
        PROVE  Next1(key) \in Packet /\ Next1(key).pos = seen + 1
    BY <2>0 DEF Next1, Packet
  <2>3. ASSUME NEW key \in BOOLEAN, Receive, sent' = sent,
               current' = Append(current, Next1(key)), status' = status
        PROVE  IInv'
    <3>1. 1..seen' = 1..seen \cup {seen + 1} /\ status = "running"
      BY <2>1, <2>3
    <3>2. /\ \A n : In(current, n) => In(current', n)
          /\ In(current', seen + 1)
      BY <2>2, <2>3, GrowsIn DEF TypeOK
    <3>3. Kept'
      BY <2>3, <3>1, <3>2 DEF Kept
    <3>. QED
      BY <2>3, <3>1, <3>3 DEF NoneLost
  <2>4. ASSUME NEW key \in BOOLEAN, FirstPacket(key) PROVE IInv'
    <3>1. CASE status' = "threw"
      BY <3>1 DEF Kept, NoneLost
    <3>. QED
      BY <2>3, <2>4, <3>1 DEF FirstPacket
  <2>5. ASSUME NEW key \in BOOLEAN, ExtendSegment(key) PROVE IInv'
    BY <2>3, <2>5 DEF ExtendSegment
  <2>6. ASSUME NEW key \in BOOLEAN, NextSegment(key) PROVE IInv'
    <3>1. /\ sent' = Append(sent, current) /\ current' = <<Next1(key)>>
          /\ status' = status /\ Receive
      BY <2>6 DEF NextSegment
    <3>2. 1..seen' = 1..seen \cup {seen + 1} /\ status = "running"
      BY <2>1, <3>1
    <3>3. \A n \in 1..seen : \E k \in 1..Len(sent') : In(sent'[k], n)
      BY <3>1, <3>2, SignalIn
    <3>4. In(current', seen + 1)
      BY <2>2, <3>1, GrowsIn DEF TypeOK
    <3>5. Kept'
      BY <3>2, <3>3, <3>4 DEF Kept
    <3>. QED
      BY <3>1, <3>2, <3>5 DEF NoneLost
  <2>7. ASSUME NEW next \in {"running", "destroyed"}, Signal(next),
               status = "running", seen' = seen, current' = current
        PROVE  IInv'
    <3>1. CASE created
      <4>1. sent' = Append(sent, current)
        BY <2>7, <3>1 DEF Signal
      <4>2. \A n \in 1..seen : \E k \in 1..Len(sent') : In(sent'[k], n)
        BY <2>7, <4>1, SignalIn
      <4>. QED
        BY <2>7, <4>2 DEF Kept, NoneLost, In
    <3>2. CASE ~created
      BY <2>7, <3>2 DEF Signal, Kept, NoneLost
    <3>. QED
      BY <3>1, <3>2
  <2>8. CASE Flush
    BY <2>7, <2>8 DEF Flush
  <2>9. CASE Destroy
    BY <2>7, <2>9 DEF Destroy
  <2>10. CASE MissingParameters
    BY <2>10 DEF MissingParameters, Kept, NoneLost
  <2>11. CASE UNCHANGED vars
    BY <2>11 DEF vars, Kept, NoneLost
  <2>. QED
    BY <2>4, <2>5, <2>6, <2>8, <2>9, <2>10, <2>11 DEF Next
<1>. QED
  BY <1>1, <1>2, TypeCorrect, CurrentCorrect, PTL DEF Spec

-----------------------------------------------------------------------------
(* Segments on the wire. *)

\* The data of packets, with values from V; a packet's count of its side data
\* is right.
SideData(V) == [type : V, bytes : Seq(V)]

WirePackets(V) ==
  {p \in [pts : V, dts : V, data : Seq(V), stream_index : V, flags : V,
          side_data_elems : Nat, side_data : Seq(SideData(V)),
          duration : V, pos : V] : p.side_data_elems = Len(p.side_data)}

\* The archive has s at this position.
Lies(ar, at, s) == \A i \in 1..Len(s) : ar[at + i - 1] = s[i]

\* What lies in an archive lies there part by part.
LEMMA LiesParts ==
  ASSUME NEW V, NEW s \in Seq(V), NEW t \in Seq(V), NEW ar, NEW at \in Nat,
         Lies(ar, at, s \o t)
  PROVE  Lies(ar, at, s) /\ Lies(ar, at + Len(s), t)
<1>1. /\ Len(s) \in Nat /\ Len(t) \in Nat /\ Len(s \o t) = Len(s) + Len(t)
      /\ \A i \in 1..Len(s) : (s \o t)[i] = s[i]
      /\ \A i \in 1..Len(t) : (s \o t)[Len(s) + i] = t[i]
  <2>1. Len(s) \in Nat /\ Len(t) \in Nat
    OBVIOUS
  <2>. QED
    BY <2>1, ConcatProperties
<1>2. ASSUME NEW i \in 1..Len(s) PROVE ar[at + i - 1] = s[i]
  <2>1. i \in 1..Len(s \o t)
    BY <1>1
  <2>. QED
    BY <1>1, <2>1 DEF Lies
<1>3. ASSUME NEW i \in 1..Len(t) PROVE ar[at + Len(s) + i - 1] = t[i]
  <2>1. Len(s) + i \in 1..Len(s \o t) /\ at + (Len(s) + i) - 1 = at + Len(s) + i - 1
    BY <1>1
  <2>. QED
    BY <1>1, <2>1 DEF Lies
<1>. QED
  BY <1>2, <1>3 DEF Lies

\* Reading as many bytes as were written gives the bytes written.
LEMMA LiesBytes ==
  ASSUME NEW V, NEW s \in Seq(V), NEW ar, NEW at \in Nat, Lies(ar, at, s)
  PROVE  Bytes(ar, at, Len(s)) = s
<1>1. Len(s) \in Nat /\ \A i \in 1..Len(s) : s[i] \in V
  OBVIOUS
<1>. DEFINE last == at + Len(s) - 1
<1>2. \A i \in at..last : ar[i] \in V
  <2>. SUFFICES ASSUME NEW i \in at..last PROVE ar[i] \in V
    OBVIOUS
  <2>1. i - at + 1 \in 1..Len(s) /\ at + (i - at + 1) - 1 = i
    BY <1>1
  <2>. QED
    BY <1>1, <2>1 DEF Lies
<1>3. last \in Int /\ at \in Int
  BY <1>1
<1>4. /\ SubSeq(ar, at, last) \in Seq(V)
      /\ Len(SubSeq(ar, at, last)) = IF at <= last THEN last - at + 1 ELSE 0
      /\ \A i \in 1..last - at + 1 : SubSeq(ar, at, last)[i] = ar[at + i - 1]
  <2>. HIDE DEF last
  <2>. QED
    BY <1>2, <1>3, SubSeqProperties
<1>5. Len(SubSeq(ar, at, last)) = Len(s) /\ last - at + 1 = Len(s)
  BY <1>1, <1>4
<1>6. \A i \in 1..Len(s) : SubSeq(ar, at, last)[i] = s[i]
  BY <1>4, <1>5 DEF Lies
<1>7. SubSeq(ar, at, last) = s
  <2>. HIDE DEF last
  <2>. QED
    BY <1>4, <1>5, <1>6, SeqEqual
<1>. QED
  BY <1>7 DEF Bytes

\* The same for three parts.
LEMMA LiesThree ==
  ASSUME NEW V, NEW s \in Seq(V), NEW t \in Seq(V), NEW u \in Seq(V), NEW ar,
         NEW at \in Nat
  PROVE  /\ s \o t \o u \in Seq(V) /\ Len(s \o t \o u) = Len(s) + Len(t) + Len(u)
         /\ Lies(ar, at, s \o t \o u) =>
              /\ Lies(ar, at, s) /\ Lies(ar, at + Len(s), t)
              /\ Lies(ar, at + Len(s) + Len(t), u)
<1>1. /\ Len(s) \in Nat /\ Len(t) \in Nat /\ Len(u) \in Nat
      /\ s \o t \in Seq(V) /\ Len(s \o t) = Len(s) + Len(t)
  <2>1. Len(s) \in Nat /\ Len(t) \in Nat /\ Len(u) \in Nat
    OBVIOUS
  <2>. QED
    BY <2>1, ConcatProperties
<1>2. s \o t \o u \in Seq(V) /\ Len(s \o t \o u) = Len(s) + Len(t) + Len(u)
  BY <1>1, ConcatProperties
<1>3. Lies(ar, at, s \o t \o u) =>
        Lies(ar, at, s \o t) /\ Lies(ar, at + Len(s \o t), u)
  BY <1>1, LiesParts
<1>4. Lies(ar, at, s \o t) => Lies(ar, at, s) /\ Lies(ar, at + Len(s), t)
  BY LiesParts
<1>5. at + Len(s \o t) = at + Len(s) + Len(t)
  BY <1>1
<1>. QED
  BY <1>2, <1>3, <1>4, <1>5

\* An element of side data is read as it was written, and read to its end.
LEMMA SideDataLoads ==
  ASSUME NEW V, Nat \subseteq V, NEW d \in SideData(V), NEW ar, NEW at \in Nat
  PROVE  /\ SaveSideData(d) \in Seq(V)
         /\ Lies(ar, at, SaveSideData(d)) =>
              LoadSideData(ar, at)
                = [value |-> d, at |-> at + Len(SaveSideData(d))]
<1>. DEFINE head == <<Len(d.bytes), d.type>>
<1>1. /\ d.bytes \in Seq(V) /\ d.type \in V /\ Len(d.bytes) \in Nat
      /\ head \in Seq(V) /\ Len(head) = 2
      /\ d = [type |-> d.type, bytes |-> d.bytes]
  BY DEF SideData
<1>2. /\ head \o d.bytes \in Seq(V)
      /\ Len(head \o d.bytes) = 2 + Len(d.bytes)
  BY <1>1, ConcatProperties
<1>3. ASSUME Lies(ar, at, head \o d.bytes)
      PROVE  LoadSideData(ar, at) = [value |-> d, at |-> at + 2 + Len(d.bytes)]
  <2>1. Lies(ar, at, head) /\ Lies(ar, at + 2, d.bytes)
    <3>. HIDE DEF head
    <3>. QED
      BY <1>1, <1>3, LiesParts
  <2>2. ar[at] = Len(d.bytes) /\ ar[at + 1] = d.type
    <3>1. 1 \in 1..Len(head) /\ 2 \in 1..Len(head)
      BY <1>1
    <3>2. ar[at + 1 - 1] = head[1] /\ ar[at + 2 - 1] = head[2]
      BY <2>1, <3>1 DEF Lies
    <3>. QED
      BY <3>2
  <2>3. Bytes(ar, at + 2, ar[at]) = d.bytes
    BY <1>1, <2>1, <2>2, LiesBytes
  <2>. QED
    BY <1>1, <2>2, <2>3 DEF LoadSideData
<1>4. at + (2 + Len(d.bytes)) = at + 2 + Len(d.bytes)
  BY <1>1
<1>. QED
  BY <1>2, <1>3, <1>4 DEF SaveSideData

\* The first element of a sequence, as a sequence.
LEMMA FirstElement ==
  ASSUME NEW D, NEW s \in Seq(D)
  PROVE  SubSeq(s, 1, IF s = <<>> THEN 0 ELSE 1)
           = IF Len(s) > 0 THEN <<s[1]>> ELSE <<>>
<1>1. CASE s = <<>>
  BY <1>1, SubSeqEmpty
<1>2. CASE s # <<>>
  <2>1. Len(s) \in Nat \ {0} /\ s[1] \in D
    BY <1>2
  <2>2. /\ SubSeq(s, 1, 1) \in Seq(D) /\ Len(SubSeq(s, 1, 1)) = 1
        /\ SubSeq(s, 1, 1)[1] = s[1]
    <3>1. \A i \in 1..1 : s[i] \in D
      BY <2>1
    <3>. QED
      BY <3>1, SubSeqProperties
  <2>3. SubSeq(s, 1, 1) = <<s[1]>>
    <3>. DEFINE one == SubSeq(s, 1, 1)
                first == <<s[1]>>
    <3>1. first \in Seq(D) /\ Len(first) = 1 /\ first[1] = s[1]
      BY <2>1
    <3>2. one \in Seq(D) /\ Len(one) = 1 /\ one[1] = s[1]
      BY <2>2
    <3>. HIDE DEF one, first
    <3>3. \A i \in 1..Len(one) : one[i] = first[i]
      BY <3>1, <3>2
    <3>4. one = first
      BY <3>1, <3>2, <3>3, SeqEqual
    <3>. QED
      BY <3>4 DEF one, first
  <2>. QED
    BY <1>2, <2>1, <2>3
<1>. QED
  BY <1>1, <1>2

\* The same for four parts.
LEMMA LiesFour ==
  ASSUME NEW V, NEW s \in Seq(V), NEW t \in Seq(V), NEW u \in Seq(V),
         NEW v \in Seq(V), NEW ar, NEW at \in Nat
  PROVE  /\ s \o t \o u \o v \in Seq(V)
         /\ Len(s \o t \o u \o v) = Len(s) + Len(t) + Len(u) + Len(v)
         /\ Lies(ar, at, s \o t \o u \o v) =>
              /\ Lies(ar, at, s) /\ Lies(ar, at + Len(s), t)
              /\ Lies(ar, at + Len(s) + Len(t), u)
              /\ Lies(ar, at + Len(s) + Len(t) + Len(u), v)
<1>. DEFINE stu == s \o t \o u
<1>1. /\ stu \in Seq(V) /\ Len(stu) = Len(s) + Len(t) + Len(u)
      /\ Lies(ar, at, stu) =>
           /\ Lies(ar, at, s) /\ Lies(ar, at + Len(s), t)
           /\ Lies(ar, at + Len(s) + Len(t), u)
  BY LiesThree
<1>2. /\ Len(s) \in Nat /\ Len(t) \in Nat /\ Len(u) \in Nat
      /\ Len(v) \in Nat
  OBVIOUS
<1>3. stu \o v \in Seq(V) /\ Len(stu \o v) = Len(stu) + Len(v)
  <2>1. stu \in Seq(V)
    BY <1>1
  <2>. HIDE DEF stu
  <2>. QED
    BY <2>1, ConcatProperties
<1>4. Lies(ar, at, stu \o v) =>
        Lies(ar, at, stu) /\ Lies(ar, at + Len(stu), v)
  <2>1. stu \in Seq(V)
    BY <1>1
  <2>. HIDE DEF stu
  <2>. QED
    BY <2>1, LiesParts
<1>5. /\ at + Len(stu) = at + Len(s) + Len(t) + Len(u)
      /\ Len(stu \o v) = Len(s) + Len(t) + Len(u) + Len(v)
  <2>. HIDE DEF stu
  <2>. QED
    BY <1>1, <1>2, <1>3
<1>6. s \o t \o u \o v = stu \o v
  OBVIOUS
<1>. HIDE DEF stu
<1>. QED
  BY <1>1, <1>3, <1>4, <1>5, <1>6, Zenon

\* The fields of a packet, in the five pieces they are written in.
LEMMA LiesFive ==
  ASSUME NEW V, NEW s \in Seq(V), NEW t \in Seq(V), NEW u \in Seq(V),
         NEW v \in Seq(V), NEW w \in Seq(V), NEW ar, NEW at \in Nat
  PROVE  /\ s \o t \o u \o v \o w \in Seq(V)
         /\ Len(s \o t \o u \o v \o w)
              = Len(s) + Len(t) + Len(u) + Len(v) + Len(w)
         /\ Lies(ar, at, s \o t \o u \o v \o w) =>
              /\ Lies(ar, at, s) /\ Lies(ar, at + Len(s), t)
              /\ Lies(ar, at + Len(s) + Len(t), u)
              /\ Lies(ar, at + Len(s) + Len(t) + Len(u), v)
              /\ Lies(ar, at + Len(s) + Len(t) + Len(u) + Len(v), w)
<1>. DEFINE st == s \o t
            stu == st \o u
            stuv == stu \o v
<1>1. /\ Len(s) \in Nat /\ Len(t) \in Nat /\ Len(u) \in Nat
      /\ Len(v) \in Nat /\ Len(w) \in Nat
  OBVIOUS
<1>2. st \in Seq(V) /\ Len(st) = Len(s) + Len(t)
  BY ConcatProperties
<1>3. stu \in Seq(V) /\ Len(stu) = Len(st) + Len(u)
  <2>. HIDE DEF st
  <2>. QED
    BY <1>2, ConcatProperties
<1>4. stuv \in Seq(V) /\ Len(stuv) = Len(stu) + Len(v)
  <2>. HIDE DEF st, stu
  <2>. QED
    BY <1>3, ConcatProperties
<1>5. stuv \o w \in Seq(V) /\ Len(stuv \o w) = Len(stuv) + Len(w)
  <2>. HIDE DEF st, stu, stuv
  <2>. QED
    BY <1>4, ConcatProperties
<1>6. Lies(ar, at, st) => Lies(ar, at, s) /\ Lies(ar, at + Len(s), t)
  BY LiesParts
<1>7. Lies(ar, at, stu) => Lies(ar, at, st) /\ Lies(ar, at + Len(st), u)
  <2>. HIDE DEF st
  <2>. QED
    BY <1>2, LiesParts
<1>8. Lies(ar, at, stuv) => Lies(ar, at, stu) /\ Lies(ar, at + Len(stu), v)
  <2>. HIDE DEF st, stu
  <2>. QED
    BY <1>3, LiesParts
<1>9. Lies(ar, at, stuv \o w) =>
        Lies(ar, at, stuv) /\ Lies(ar, at + Len(stuv), w)
  <2>. HIDE DEF st, stu, stuv
  <2>. QED
    BY <1>4, LiesParts
<1>10. /\ at + Len(st) = at + Len(s) + Len(t)
       /\ at + Len(stu) = at + Len(s) + Len(t) + Len(u)
       /\ at + Len(stuv) = at + Len(s) + Len(t) + Len(u) + Len(v)
       /\ Len(stuv \o w) = Len(s) + Len(t) + Len(u) + Len(v) + Len(w)
  <2>. HIDE DEF st, stu, stuv
  <2>. QED
    BY <1>1, <1>2, <1>3, <1>4, <1>5
<1>11. s \o t \o u \o v \o w = stuv \o w
  OBVIOUS
<1>. HIDE DEF st, stu, stuv
<1>. QED
  BY <1>5, <1>6, <1>7, <1>8, <1>9, <1>10, <1>11, Zenon

\* What is written of a packet.
FirstOf(p) ==
  [p EXCEPT !.side_data = SubSeq(@, 1, IF @ = <<>> THEN 0 ELSE 1)]

\* A packet is read back as far as the first element of its side data, and
\* the reader stops behind it, wherever it lies in an archive.
LEMMA PacketLoads ==
  ASSUME NEW V, Nat \subseteq V, NEW p \in WirePackets(V), NEW ar,
         NEW at \in Nat
  PROVE  /\ SavePacket(p) \in Seq(V)
         /\ Lies(ar, at, SavePacket(p)) =>
              LoadPacket(ar, at)
                = [value |-> FirstOf(p), at |-> at + Len(SavePacket(p))]
<1>. DEFINE head == <<p.pts, p.dts, Len(p.data)>>
            middle == <<p.stream_index, p.flags, p.side_data_elems>>
            side == IF p.side_data_elems # 0 /\ p.side_data # <<>>
                    THEN SaveSideData(p.side_data[1]) ELSE <<>>
            tail == <<p.duration, p.pos>>
<1>1. /\ p.data \in Seq(V) /\ Len(p.data) \in Nat
      /\ p.side_data_elems = Len(p.side_data) /\ p.side_data_elems \in Nat
      /\ p.side_data \in Seq(SideData(V))
      /\ {p.pts, p.dts, p.stream_index, p.flags, p.duration, p.pos} \subseteq V
      /\ p = [pts |-> p.pts, dts |-> p.dts, data |-> p.data,
              stream_index |-> p.stream_index, flags |-> p.flags,
              side_data_elems |-> p.side_data_elems,
              side_data |-> p.side_data, duration |-> p.duration,
              pos |-> p.pos]
  BY DEF WirePackets
<1>2. /\ head \in Seq(V) /\ Len(head) = 3
      /\ middle \in Seq(V) /\ Len(middle) = 3
      /\ tail \in Seq(V) /\ Len(tail) = 2
  BY <1>1
<1>3. p.side_data_elems # 0 =>
        p.side_data # <<>> /\ p.side_data[1] \in SideData(V)
  BY <1>1
<1>4. side \in Seq(V) /\ Len(side) \in Nat
  <2>1. CASE p.side_data_elems # 0
    <3>1. SaveSideData(p.side_data[1]) \in Seq(V)
      BY <1>3, <2>1, SideDataLoads
    <3>. QED
      BY <1>3, <2>1, <3>1
  <2>2. CASE p.side_data_elems = 0
    BY <2>2
  <2>. QED
    BY <2>1, <2>2
<1>. DEFINE flags == at + 4 + Len(p.data)
            after == flags + 2 + Len(side)
<1>5. /\ SavePacket(p) = head \o p.data \o middle \o side \o tail
      /\ SavePacket(p) \in Seq(V)
      /\ Len(SavePacket(p)) = 3 + Len(p.data) + 3 + Len(side) + 2
      /\ Lies(ar, at, SavePacket(p)) =>
           /\ Lies(ar, at, head) /\ Lies(ar, at + 3, p.data)
           /\ Lies(ar, at + 3 + Len(p.data), middle)
           /\ Lies(ar, at + 3 + Len(p.data) + 3, side)
           /\ Lies(ar, at + 3 + Len(p.data) + 3 + Len(side), tail)
  <2>1. SavePacket(p) = head \o p.data \o middle \o side \o tail
    BY DEF SavePacket
  <2>2. p.data \in Seq(V)
    BY <1>1
  <2>. HIDE DEF head, middle, side, tail
  <2>3. /\ SavePacket(p) \in Seq(V)
        /\ Len(SavePacket(p))
             = Len(head) + Len(p.data) + Len(middle) + Len(side) + Len(tail)
        /\ Lies(ar, at, SavePacket(p)) =>
             /\ Lies(ar, at, head) /\ Lies(ar, at + Len(head), p.data)
             /\ Lies(ar, at + Len(head) + Len(p.data), middle)
             /\ Lies(ar, at + Len(head) + Len(p.data) + Len(middle), side)
             /\ Lies(ar, at + Len(head) + Len(p.data) + Len(middle) + Len(side),
                     tail)
    <3>1. /\ head \in Seq(V) /\ middle \in Seq(V) /\ side \in Seq(V)
          /\ tail \in Seq(V)
      BY <1>2, <1>4
    <3>. DEFINE data == p.data
                all == head \o data \o middle \o side \o tail
    <3>2. data \in Seq(V)
      BY <2>2
    <3>. HIDE DEF data
    <3>3. /\ all \in Seq(V)
          /\ Len(all) = Len(head) + Len(data) + Len(middle) + Len(side) + Len(tail)
          /\ Lies(ar, at, all) =>
               /\ Lies(ar, at, head) /\ Lies(ar, at + Len(head), data)
               /\ Lies(ar, at + Len(head) + Len(data), middle)
               /\ Lies(ar, at + Len(head) + Len(data) + Len(middle), side)
               /\ Lies(ar, at + Len(head) + Len(data) + Len(middle) + Len(side),
                       tail)
      BY <3>1, <3>2, LiesFive
    <3>. QED
      BY <2>1, <3>3 DEF data
  <2>. QED
    BY <1>2, <2>1, <2>3, Zenon
<1>6. /\ at + 3 + Len(p.data) = flags - 1
      /\ at + 3 + Len(p.data) + 3 = flags + 2
      /\ at + 3 + Len(p.data) + 3 + Len(side) = after
      /\ at + (3 + Len(p.data) + 3 + Len(side) + 2) = after + 2
      /\ flags \in Nat /\ after \in Nat
  <2>. HIDE DEF side
  <2>. QED
    BY <1>1, <1>4
<1>7. ASSUME Lies(ar, at, SavePacket(p))
      PROVE  LoadPacket(ar, at) = [value |-> FirstOf(p), at |-> after + 2]
  <2>. HIDE DEF flags, after
  <2>1. /\ Lies(ar, at, head) /\ Lies(ar, at + 3, p.data)
        /\ Lies(ar, flags - 1, middle) /\ Lies(ar, flags + 2, side)
        /\ Lies(ar, after, tail)
    <3>. HIDE DEF head, middle, side, tail
    <3>. QED
      BY <1>5, <1>6, <1>7
  <2>2. ar[at] = p.pts /\ ar[at + 1] = p.dts /\ ar[at + 2] = Len(p.data)
    <3>1. {1, 2, 3} \subseteq 1..Len(head)
      BY <1>2
    <3>2. /\ ar[at + 1 - 1] = head[1] /\ ar[at + 2 - 1] = head[2]
          /\ ar[at + 3 - 1] = head[3]
      BY <2>1, <3>1 DEF Lies
    <3>. QED
      BY <3>2
  <2>3. /\ ar[flags - 1] = p.stream_index /\ ar[flags] = p.flags
        /\ ar[flags + 1] = p.side_data_elems
    <3>1. {1, 2, 3} \subseteq 1..Len(middle)
      BY <1>2
    <3>2. /\ ar[flags - 1 + 1 - 1] = middle[1]
          /\ ar[flags - 1 + 2 - 1] = middle[2]
          /\ ar[flags - 1 + 3 - 1] = middle[3]
      BY <2>1, <3>1 DEF Lies
    <3>. QED
      BY <1>6, <3>2
  <2>4. ar[after] = p.duration /\ ar[after + 1] = p.pos
    <3>1. {1, 2} \subseteq 1..Len(tail)
      BY <1>2
    <3>2. ar[after + 1 - 1] = tail[1] /\ ar[after + 2 - 1] = tail[2]
      BY <2>1, <3>1 DEF Lies
    <3>. QED
      BY <1>6, <3>2
  <2>5. Bytes(ar, at + 3, ar[at + 2]) = p.data
    <3>1. p.data \in Seq(V) /\ at + 3 \in Nat /\ Lies(ar, at + 3, p.data)
      BY <1>1, <2>1
    <3>2. Bytes(ar, at + 3, Len(p.data)) = p.data
      BY <3>1, LiesBytes
    <3>. QED
      BY <2>2, <3>2
  <2>6. at + 4 + ar[at + 2] = flags
    BY <2>2 DEF flags
  <2>. DEFINE read == IF ar[flags + 1] > 0 THEN LoadSideData(ar, flags + 2)
                      ELSE [value |-> <<>>, at |-> flags + 2]
  <2>7. /\ read.at = after
        /\ p.side_data_elems > 0 => read.value = p.side_data[1]
    <3>1. CASE p.side_data_elems = 0
      BY <1>6, <2>3, <3>1 DEF after
    <3>2. CASE p.side_data_elems # 0
      <4>1. side = SaveSideData(p.side_data[1]) /\ p.side_data_elems > 0
        BY <1>1, <1>3, <3>2
      <4>2. LoadSideData(ar, flags + 2)
              = [value |-> p.side_data[1], at |-> flags + 2 + Len(side)]
        <5>1. p.side_data[1] \in SideData(V) /\ flags + 2 \in Nat
          BY <1>3, <1>6, <3>2
        <5>2. Lies(ar, flags + 2, SaveSideData(p.side_data[1]))
          BY <2>1, <4>1
        <5>. QED
          BY <4>1, <5>1, <5>2, SideDataLoads
      <4>. QED
        BY <2>3, <4>1, <4>2 DEF after
    <3>. QED
      BY <3>1, <3>2
  <2>8. LoadPacket(ar, at)
          = [value |-> [pts |-> p.pts, dts |-> p.dts, data |-> p.data,
                        stream_index |-> p.stream_index, flags |-> p.flags,
                        side_data_elems |-> p.side_data_elems,
                        side_data |-> IF p.side_data_elems > 0
                                      THEN <<read.value>> ELSE <<>>,
                        duration |-> p.duration, pos |-> p.pos],
             at |-> after + 2]
    <3>1. LoadPacket(ar, at)
            = [value |-> [pts |-> ar[at], dts |-> ar[at + 1],
                          data |-> Bytes(ar, at + 3, ar[at + 2]),
                          stream_index |-> ar[flags - 1], flags |-> ar[flags],
                          side_data_elems |-> ar[flags + 1],
                          side_data |-> IF ar[flags + 1] > 0
                                        THEN <<read.value>> ELSE <<>>,
                          duration |-> ar[read.at], pos |-> ar[read.at + 1]],
               at |-> read.at + 2]
      BY <2>6, Zenon DEF LoadPacket
    <3>. HIDE DEF read
    <3>. QED
      BY <2>2, <2>3, <2>4, <2>5, <2>7, <3>1
  <2>9. SubSeq(p.side_data, 1, IF p.side_data = <<>> THEN 0 ELSE 1)
          = IF p.side_data_elems > 0 THEN <<read.value>> ELSE <<>>
    <3>. HIDE DEF read
    <3>1. p.side_data_elems > 0 => read.value = p.side_data[1]
      BY <2>7
    <3>. QED
      BY <1>1, <3>1, FirstElement
  <2>10. FirstOf(p)
           = [pts |-> p.pts, dts |-> p.dts, data |-> p.data,
              stream_index |-> p.stream_index, flags |-> p.flags,
              side_data_elems |-> p.side_data_elems,
              side_data |-> SubSeq(p.side_data, 1,
                                   IF p.side_data = <<>> THEN 0 ELSE 1),
              duration |-> p.duration, pos |-> p.pos]
    BY DEF FirstOf, WirePackets
  <2>. HIDE DEF read
  <2>. QED
    BY <2>8, <2>9, <2>10, Zenon
<1>. QED
  BY <1>5, <1>6, <1>7

\* The parameters are read back, and the reader stops behind them.
LEMMA ParametersLoad ==
  ASSUME NEW V, Nat \subseteq V, NEW ar, NEW at \in Nat,
         NEW par \in [head : V, rest : V, extradata : Seq(V)]
  PROVE  /\ SaveParameters(par) \in Seq(V)
         /\ Lies(ar, at, SaveParameters(par)) =>
              LoadParameters(ar, at)
                = [value |-> par, at |-> at + Len(SaveParameters(par))]
<1>. DEFINE head == <<par.head, Len(par.extradata)>>
            rest == <<par.rest>>
            behind == at + 2 + Len(par.extradata)
<1>1. /\ par.extradata \in Seq(V) /\ Len(par.extradata) \in Nat
      /\ par = [head |-> par.head, extradata |-> par.extradata,
                rest |-> par.rest]
      /\ head \in Seq(V) /\ Len(head) = 2 /\ rest \in Seq(V) /\ Len(rest) = 1
  OBVIOUS
<1>2. /\ SaveParameters(par) \in Seq(V)
      /\ Len(SaveParameters(par)) = 2 + Len(par.extradata) + 1
      /\ Lies(ar, at, SaveParameters(par)) =>
           /\ Lies(ar, at, head) /\ Lies(ar, at + 2, par.extradata)
           /\ Lies(ar, at + 2 + Len(par.extradata), rest)
  <2>1. SaveParameters(par) = head \o par.extradata \o rest
    BY DEF SaveParameters
  <2>. HIDE DEF head, rest
  <2>3. /\ SaveParameters(par) \in Seq(V)
        /\ Len(SaveParameters(par)) = Len(head) + Len(par.extradata) + Len(rest)
        /\ Lies(ar, at, SaveParameters(par)) =>
             /\ Lies(ar, at, head) /\ Lies(ar, at + Len(head), par.extradata)
             /\ Lies(ar, at + Len(head) + Len(par.extradata), rest)
    <3>1. /\ head \in Seq(V) /\ par.extradata \in Seq(V) /\ rest \in Seq(V)
      BY <1>1
    <3>. QED
      BY <2>1, <3>1, LiesThree
  <2>. QED
    BY <1>1, <2>3, Zenon
<1>3. ASSUME Lies(ar, at, SaveParameters(par))
      PROVE  LoadParameters(ar, at) = [value |-> par, at |-> behind + 1]
  <2>1. ar[at] = par.head /\ ar[at + 1] = Len(par.extradata)
    <3>1. {1, 2} \subseteq 1..Len(head)
      BY <1>1
    <3>2. ar[at + 1 - 1] = head[1] /\ ar[at + 2 - 1] = head[2]
      BY <1>2, <1>3, <3>1 DEF Lies
    <3>. QED
      BY <3>2
  <2>2. ar[behind] = par.rest
    <3>1. ar[behind + 1 - 1] = rest[1]
      BY <1>1, <1>2, <1>3 DEF Lies
    <3>. QED
      BY <1>1, <3>1
  <2>3. Bytes(ar, at + 2, ar[at + 1]) = par.extradata
    BY <1>1, <1>2, <1>3, <2>1, LiesBytes
  <2>. QED
    BY <1>1, <2>1, <2>2, <2>3 DEF LoadParameters
<1>4. at + (2 + Len(par.extradata) + 1) = behind + 1
  BY <1>1
<1>. QED
  BY <1>2, <1>3, <1>4

\* Induction on the natural numbers, for sets: the numbers up to m that are not
\* in T would be mapped one to one into themselves by n |-> n - 1, so onto
\* themselves, m too.
LEMMA Induction ==
  ASSUME NEW T, 0 \in T, \A n \in Nat : n \in T => n + 1 \in T, NEW m \in Nat
  PROVE  m \in T
<1>. SUFFICES ASSUME m \notin T PROVE FALSE
  OBVIOUS
<1>. DEFINE U == {n \in 0..m : n \notin T}
            down == [n \in U |-> n - 1]
<1>1. m \in U
  OBVIOUS
<1>2. IsFiniteSet(U)
  <2>1. IsFiniteSet(0..m)
    BY FS_Interval
  <2>. QED
    BY <2>1, FS_Subset
<1>3. ASSUME NEW n \in U PROVE n - 1 \in U
  <2>1. n \in 0..m /\ n # 0 /\ n - 1 \in Nat /\ (n - 1) + 1 = n
    OBVIOUS
  <2>. QED
    BY <2>1
<1>4. down \in Injection(U, U)
  <2>1. down \in [U -> U]
    BY <1>3
  <2>2. \A a, b \in U : down[a] = down[b] => a = b
    OBVIOUS
  <2>. QED
    BY <2>1, <2>2, Zenon DEF Injection, IsInjective
<1>5. down \in Surjection(U, U)
  <2>. HIDE DEF U, down
  <2>. QED
  BY <1>2, <1>4, FS_Injection
<1>6. PICK n \in U : down[n] = m
  BY <1>1, <1>5, Zenon DEF Surjection
<1>. QED
  BY <1>6

\* Two functions that start alike and go on alike are alike.
LEMMA Alike ==
  ASSUME NEW m \in Nat, NEW f, NEW g, f[0] = g[0],
         \A n \in 1..m : f[n - 1] = g[n - 1] => f[n] = g[n]
  PROVE  \A n \in 0..m : f[n] = g[n]
<1>. DEFINE T == {n \in Nat : n <= m => f[n] = g[n]}
<1>1. 0 \in T
  OBVIOUS
<1>2. ASSUME NEW n \in Nat, n \in T PROVE n + 1 \in T
  <2>. SUFFICES ASSUME n + 1 <= m PROVE f[n + 1] = g[n + 1]
    OBVIOUS
  <2>1. n + 1 \in 1..m /\ (n + 1) - 1 = n /\ f[n] = g[n]
    BY <1>2
  <2>. QED
    BY <2>1
<1>3. ASSUME NEW n \in Nat PROVE n \in T
  <2>. HIDE DEF T
  <2>. QED
    BY <1>1, <1>2, Induction
<1>. QED
  BY <1>3

\* What is written for packets is an archive.
LEMMA SavedTypes ==
  ASSUME NEW V, Nat \subseteq V, NEW packets \in Seq(WirePackets(V)),
         NEW saved, saved[0] = <<>>,
         \A n \in 1..Len(packets) :
           saved[n] = saved[n - 1] \o SavePacket(packets[n])
  PROVE  \A n \in 0..Len(packets) : saved[n] \in Seq(V)
<1>. DEFINE T == {n \in Nat : n <= Len(packets) => saved[n] \in Seq(V)}
<1>1. Len(packets) \in Nat
  OBVIOUS
<1>2. 0 \in T
  <2>1. saved[0] \in Seq(V)
    BY EmptySeq
  <2>. QED
    BY <2>1
<1>3. ASSUME NEW n \in Nat, n \in T PROVE n + 1 \in T
  <2>. SUFFICES ASSUME n + 1 <= Len(packets) PROVE saved[n + 1] \in Seq(V)
    OBVIOUS
  <2>1. n + 1 \in 1..Len(packets) /\ (n + 1) - 1 = n /\ saved[n] \in Seq(V)
    BY <1>1, <1>3
  <2>2. SavePacket(packets[n + 1]) \in Seq(V)
    <3>1. packets[n + 1] \in WirePackets(V)
      BY <2>1
    <3>. QED
      BY <3>1, PacketLoads
  <2>3. saved[n + 1] = saved[n] \o SavePacket(packets[n + 1])
    BY <2>1
  <2>. QED
    BY <2>1, <2>2, <2>3, ConcatProperties
<1>4. ASSUME NEW n \in Nat PROVE n \in T
  <2>. HIDE DEF T
  <2>. QED
    BY <1>2, <1>3, Induction
<1>. QED
  BY <1>4

\* What SaveSegment's loop writes, packet by packet.
SavedAll(packets) ==
  LET saved[n \in 0..Len(packets)] ==
        IF n = 0 THEN <<>> ELSE saved[n - 1] \o SavePacket(packets[n])
  IN saved

\* The loop ends, and appends one packet in each of its turns.
LEMMA Saves ==
  ASSUME NEW V, Nat \subseteq V, NEW packets \in Seq(WirePackets(V))
  PROVE  /\ SavedAll(packets)[0] = <<>>
         /\ \A n \in 0..Len(packets) : SavedAll(packets)[n] \in Seq(V)
         /\ \A n \in 1..Len(packets) :
              SavedAll(packets)[n]
                = SavedAll(packets)[n - 1] \o SavePacket(packets[n])
<1>. DEFINE N == Len(packets)
            Saving(f, m) ==
              /\ f[0] = <<>>
              /\ \A n \in 1..m : f[n] = f[n - 1] \o SavePacket(packets[n])
            T == {m \in Nat : m <= N => \E f \in [0..m -> Seq(V)] : Saving(f, m)}
            saved == SavedAll(packets)
<1>1. N \in Nat
  OBVIOUS
<1>2. \A n \in 1..N : SavePacket(packets[n]) \in Seq(V)
  <2>1. \A n \in 1..N : packets[n] \in WirePackets(V)
    OBVIOUS
  <2>. QED
    BY <2>1, PacketLoads
<1>3. 0 \in T
  <2>1. [n \in 0..0 |-> <<>>] \in [0..0 -> Seq(V)]
    OBVIOUS
  <2>2. Saving([n \in 0..0 |-> <<>>], 0)
    OBVIOUS
  <2>. QED
    BY <2>1, <2>2
<1>4. ASSUME NEW m \in Nat, m \in T PROVE m + 1 \in T
  <2>. SUFFICES ASSUME m + 1 <= N
                PROVE  \E f \in [0..m + 1 -> Seq(V)] : Saving(f, m + 1)
    <3>. HIDE DEF Saving
    <3>. QED
      OBVIOUS
  <2>1. m <= N /\ m + 1 \in 1..N /\ m \in 0..m
    BY <1>1
  <2>2. PICK f \in [0..m -> Seq(V)] : Saving(f, m)
    BY <1>4, <2>1
  <2>. DEFINE more == f[m] \o SavePacket(packets[m + 1])
              g == [n \in 0..m + 1 |-> IF n = m + 1 THEN more ELSE f[n]]
  <2>3. more \in Seq(V)
    <3>1. f[m] \in Seq(V)
      BY <2>1, <2>2
    <3>2. SavePacket(packets[m + 1]) \in Seq(V)
      BY <1>2, <2>1
    <3>. QED
      BY <3>1, <3>2, ConcatProperties
  <2>. HIDE DEF more
  <2>4. g \in [0..m + 1 -> Seq(V)]
    <3>1. \A n \in 0..m + 1 : n # m + 1 => n \in 0..m
      OBVIOUS
    <3>. QED
      BY <2>3, <3>1
  <2>5. g[0] = <<>>
    BY <2>2
  <2>6. ASSUME NEW n \in 1..m + 1
        PROVE  g[n] = g[n - 1] \o SavePacket(packets[n])
    <3>1. CASE n = m + 1
      <4>1. n - 1 \in 0..m + 1 /\ n - 1 # m + 1 /\ n - 1 = m
        BY <3>1
      <4>2. g[n] = more /\ g[n - 1] = f[m]
        BY <3>1, <4>1
      <4>. QED
        BY <3>1, <4>2 DEF more
    <3>2. CASE n # m + 1
      <4>1. n \in 1..m /\ n - 1 \in 0..m + 1 /\ n - 1 # m + 1
        BY <3>2
      <4>2. g[n] = f[n] /\ g[n - 1] = f[n - 1]
        BY <3>2, <4>1
      <4>. QED
        BY <2>2, <4>1, <4>2
    <3>. QED
      BY <3>1, <3>2
  <2>7. Saving(g, m + 1)
    <3>. HIDE DEF g
    <3>. QED
      BY <2>5, <2>6
  <2>. HIDE DEF g, Saving
  <2>. QED
    BY <2>4, <2>7
<1>5. N \in T
  <2>. HIDE DEF T, N
  <2>. QED
    BY <1>1, <1>3, <1>4, Induction
<1>6. PICK f \in [0..N -> Seq(V)] : Saving(f, N)
  <2>. HIDE DEF Saving, N
  <2>. QED
    BY <1>1, <1>5
<1>7. f = [n \in 0..N |-> IF n = 0 THEN <<>>
                          ELSE f[n - 1] \o SavePacket(packets[n])]
  <2>1. \A n \in 0..N : f[n] = IF n = 0 THEN <<>>
                               ELSE f[n - 1] \o SavePacket(packets[n])
    <3>1. \A n \in 0..N : n # 0 => n \in 1..N
      BY <1>1
    <3>. QED
      BY <1>6, <3>1
  <2>. QED
    BY <1>6, <2>1
<1>8. saved = [n \in 0..N |-> IF n = 0 THEN <<>>
                              ELSE saved[n - 1] \o SavePacket(packets[n])]
  BY <1>7 DEF SavedAll
<1>. HIDE DEF saved
<1>9. /\ saved[0] = <<>>
      /\ \A n \in 1..N : saved[n] = saved[n - 1] \o SavePacket(packets[n])
  <2>1. 0 \in 0..N /\ \A n \in 1..N : n \in 0..N /\ n # 0
    BY <1>1
  <2>2. saved[0] = <<>>
    BY <1>8, <2>1
  <2>3. ASSUME NEW n \in 1..N
        PROVE  saved[n] = saved[n - 1] \o SavePacket(packets[n])
    BY <1>8, <2>1
  <2>. QED
    BY <2>2, <2>3
<1>10. \A n \in 0..N : saved[n] \in Seq(V)
  BY <1>9, SavedTypes
<1>. QED
  BY <1>9, <1>10 DEF saved

\* The packets lie one after the other in what is written for them.
LEMMA SavedLies ==
  ASSUME NEW V, Nat \subseteq V, NEW packets \in Seq(WirePackets(V)),
         NEW saved, saved[0] = <<>>,
         \A n \in 1..Len(packets) :
           saved[n] = saved[n - 1] \o SavePacket(packets[n]),
         NEW ar, NEW at \in Nat, Lies(ar, at, saved[Len(packets)])
  PROVE  \A n \in 1..Len(packets) :
           Lies(ar, at + Len(saved[n - 1]), SavePacket(packets[n]))
<1>. DEFINE N == Len(packets)
            T == {k \in Nat : k <= N => Lies(ar, at, saved[N - k])}
<1>1. /\ N \in Nat
      /\ \A n \in 0..N : saved[n] \in Seq(V)
      /\ \A n \in 1..N : SavePacket(packets[n]) \in Seq(V)
  <2>1. \A n \in 1..N : packets[n] \in WirePackets(V)
    OBVIOUS
  <2>2. \A n \in 1..N : SavePacket(packets[n]) \in Seq(V)
    BY <2>1, PacketLoads
  <2>3. \A n \in 0..N : saved[n] \in Seq(V)
    BY SavedTypes
  <2>. QED
    BY <2>2, <2>3
<1>2. ASSUME NEW n \in 1..N, Lies(ar, at, saved[n])
      PROVE  /\ Lies(ar, at, saved[n - 1])
             /\ Lies(ar, at + Len(saved[n - 1]), SavePacket(packets[n]))
  <2>. DEFINE s == saved[n - 1]
              t == SavePacket(packets[n])
  <2>1. n - 1 \in 0..N
    BY <1>1
  <2>2. s \in Seq(V) /\ t \in Seq(V)
    BY <1>1, <2>1
  <2>3. Lies(ar, at, s \o t)
    BY <1>2
  <2>. HIDE DEF s, t
  <2>4. Lies(ar, at, s) /\ Lies(ar, at + Len(s), t)
    BY <2>2, <2>3, LiesParts
  <2>. QED
    BY <2>4 DEF s, t
<1>3. 0 \in T
  <2>1. N - 0 = N
    BY <1>1
  <2>. QED
    BY <2>1
<1>4. ASSUME NEW k \in Nat, k \in T PROVE k + 1 \in T
  <2>. SUFFICES ASSUME k + 1 <= N PROVE Lies(ar, at, saved[N - (k + 1)])
    OBVIOUS
  <2>1. N - k \in 1..N /\ N - (k + 1) = (N - k) - 1 /\ k <= N
    BY <1>1
  <2>2. Lies(ar, at, saved[N - k])
    BY <1>4, <2>1
  <2>. HIDE DEF N
  <2>. QED
    BY <1>2, <2>1, <2>2
<1>5. ASSUME NEW k \in Nat PROVE k \in T
  <2>. HIDE DEF T
  <2>. QED
    BY <1>3, <1>4, Induction
<1>6. ASSUME NEW n \in 1..N
      PROVE  Lies(ar, at + Len(saved[n - 1]), SavePacket(packets[n]))
  <2>1. N - n \in Nat /\ N - n <= N /\ N - (N - n) = n
    BY <1>1
  <2>2. Lies(ar, at, saved[n])
    BY <1>5, <2>1
  <2>. QED
    BY <1>2, <2>2
<1>. QED
  BY <1>6

-----------------------------------------------------------------------------
\* A packet that is whole is its own copy.
LEMMA CopyWhole ==
  ASSUME NEW V, NEW p \in WirePackets(V)
  PROVE  PacketCopy(p) = p
BY DEF PacketCopy, WirePackets

\* A sequence of one element is that element.
LEMMA OneElement ==
  ASSUME NEW S, NEW s \in Seq(S), Len(s) = 1
  PROVE  s = <<s[1]>>
OBVIOUS

\* A packet that was read and appended is what was written, if that had one
\* element of side data at most.
LEMMA CopyRead ==
  ASSUME NEW V, NEW p \in WirePackets(V)
  PROVE  PacketCopy(FirstOf(p)) = IF p.side_data_elems > 1 THEN Overread ELSE p
<1>. DEFINE D == SideData(V)
            n == p.side_data_elems
            first == SubSeq(p.side_data, 1, IF p.side_data = <<>> THEN 0 ELSE 1)
<1>1. p.side_data \in Seq(D) /\ n = Len(p.side_data) /\ n \in Nat
  BY DEF WirePackets
<1>2. first = IF n > 0 THEN <<p.side_data[1]>> ELSE <<>>
  BY <1>1, FirstElement
<1>3. Len(first) = IF n > 0 THEN 1 ELSE 0
  <2>. HIDE DEF first
  <2>. QED
    BY <1>2
<1>4. n <= 1 => first = p.side_data
  <2>. HIDE DEF first
  <2>1. n = 1 => p.side_data = <<p.side_data[1]>>
    BY <1>1, OneElement
  <2>. QED
    BY <1>1, <1>2, <2>1
<1>. HIDE DEF first
<1>5. /\ FirstOf(p) = [p EXCEPT !.side_data = first]
      /\ FirstOf(p).side_data = first /\ FirstOf(p).side_data_elems = n
  BY DEF FirstOf, WirePackets, first
<1>6. n <= 1 => FirstOf(p) = p
  BY <1>4, <1>5 DEF WirePackets
<1>7. CASE n <= 1
  BY <1>1, <1>6, <1>7, CopyWhole
<1>8. CASE n > 1
  <2>1. FirstOf(p).side_data_elems = n /\ Len(FirstOf(p).side_data) = 1
    BY <1>1, <1>3, <1>5, <1>8
  <2>2. n > 1 /\ p.side_data_elems > 1
    BY <1>8
  <2>. HIDE DEF n
  <2>. QED
    BY <2>1, <2>2 DEF PacketCopy
<1>. QED
  BY <1>1, <1>7, <1>8

-----------------------------------------------------------------------------
\* Codec parameters.
WireParameters(V) == [head : V, rest : V, extradata : Seq(V)]

\* Segments that were just created.
Heads(V) ==
  [jobId : V, parameters : WireParameters(V), time_base : V, pts : V, dts : V,
   npackets : {0}, packets : {<<>>}]

\* Such a segment, with the first n of these packets appended.
Grown(segment, packets, n) ==
  [segment EXCEPT
     !.packets = [i \in 1..n |-> PacketCopy(packets[i])], !.npackets = n,
     !.pts = IF n = 0 THEN @ ELSE packets[1].pts,
     !.dts = IF n = 0 THEN @ ELSE packets[1].dts]

\* Appending one more value to the first n.
LEMMA Lengthen ==
  ASSUME NEW n \in Nat, NEW f
  PROVE  Append([i \in 1..n |-> f[i]], f[n + 1]) = [i \in 1..n + 1 |-> f[i]]
<1>. DEFINE S == {f[i] : i \in 1..n + 1}
            short == [i \in 1..n |-> f[i]]
            long == [i \in 1..n + 1 |-> f[i]]
<1>1. short \in Seq(S) /\ Len(short) = n
  <2>1. short \in [1..n -> S]
    OBVIOUS
  <2>. HIDE DEF S, short
  <2>. QED
    BY <2>1
<1>2. long \in Seq(S) /\ Len(long) = n + 1
  <2>1. long \in [1..n + 1 -> S]
    OBVIOUS
  <2>. HIDE DEF S, long
  <2>. QED
    BY <2>1
<1>3. f[n + 1] \in S
  OBVIOUS
<1>4. /\ \A i \in 1..n : short[i] = f[i]
      /\ \A i \in 1..n + 1 : long[i] = f[i]
  OBVIOUS
<1>. DEFINE last == f[n + 1]
            appended == Append(short, last)
<1>5. /\ appended \in Seq(S) /\ Len(appended) = n + 1
      /\ \A i \in 1..n : appended[i] = short[i]
      /\ appended[n + 1] = last
  <2>1. last \in S
    BY <1>3
  <2>. HIDE DEF S, short, last
  <2>. QED
    BY <1>1, <2>1, AppendProperties
<1>6. \A i \in 1..n + 1 : appended[i] = long[i]
  <2>1. \A i \in 1..n + 1 : i \in 1..n \/ i = n + 1
    OBVIOUS
  <2>. HIDE DEF S, short, long, appended
  <2>. QED
    BY <1>4, <1>5, <2>1
<1>7. appended = long
  <2>. HIDE DEF S, short, long, appended
  <2>. QED
    BY <1>2, <1>5, <1>6, SeqEqual
<1>. QED
  BY <1>7

\* append() makes of a segment with n packets the one with n + 1.
LEMMA Grows ==
  ASSUME NEW V, NEW segment \in Heads(V), NEW packets
  PROVE  /\ Grown(segment, packets, 0) = segment
         /\ \A n \in Nat :
              AppendTo(Grown(segment, packets, n), packets[n + 1])
                = Grown(segment, packets, n + 1)
<1>1. Grown(segment, packets, 0) = segment
  <2>1. [i \in 1..0 |-> PacketCopy(packets[i])] = <<>>
    OBVIOUS
  <2>. QED
    BY <2>1 DEF Grown, Heads
<1>2. ASSUME NEW n \in Nat
      PROVE  AppendTo(Grown(segment, packets, n), packets[n + 1])
               = Grown(segment, packets, n + 1)
  <2>. DEFINE c == [i \in 1..n + 1 |-> PacketCopy(packets[i])]
              short == [i \in 1..n |-> PacketCopy(packets[i])]
  <2>1. Append(short, PacketCopy(packets[n + 1])) = c
    <3>1. c[n + 1] = PacketCopy(packets[n + 1])
      OBVIOUS
    <3>2. short = [i \in 1..n |-> c[i]] /\ c = [i \in 1..n + 1 |-> c[i]]
      OBVIOUS
    <3>. HIDE DEF c, short
    <3>. QED
      BY <3>1, <3>2, Lengthen
  <2>2. short = <<>> <=> n = 0
    OBVIOUS
  <2>3. Grown(segment, packets, n)
          = [segment EXCEPT
               !.packets = short, !.npackets = n,
               !.pts = IF n = 0 THEN @ ELSE packets[1].pts,
               !.dts = IF n = 0 THEN @ ELSE packets[1].dts]
    BY DEF Grown
  <2>4. Grown(segment, packets, n + 1)
          = [segment EXCEPT
               !.packets = c, !.npackets = n + 1,
               !.pts = packets[1].pts, !.dts = packets[1].dts]
    <3>1. n + 1 # 0
      OBVIOUS
    <3>. QED
      BY <3>1 DEF Grown, Heads
  <2>. HIDE DEF short, c
  <2>5. AppendTo(Grown(segment, packets, n), packets[n + 1])
          = [segment EXCEPT
               !.packets = c, !.npackets = n + 1,
               !.pts = packets[1].pts, !.dts = packets[1].dts]
    <3>1. CASE n = 0
      <4>. DEFINE p == packets[n + 1]
                  grown == Grown(segment, packets, n)
      <4>1. p = packets[1] /\ n + 1 = 0 + 1
        BY <3>1
      <4>2. /\ grown = [segment EXCEPT !.packets = short, !.npackets = 0]
            /\ grown.packets = <<>> /\ grown.packets = short
            /\ Append(short, PacketCopy(p)) = c
        BY <2>1, <2>2, <2>3, <3>1 DEF Heads
      <4>3. AppendTo(grown, p)
              = [segment EXCEPT !.packets = c, !.npackets = 0 + 1,
                                !.pts = p.pts, !.dts = p.dts]
        <5>. HIDE DEF p, grown
        <5>. QED
          BY <4>2 DEF AppendTo, Heads
      <4>. QED
        BY <4>1, <4>3, Zenon
    <3>2. CASE n # 0
      BY <2>1, <2>2, <2>3, <3>2 DEF AppendTo, Heads
    <3>. QED
      BY <3>1, <3>2
  <2>. QED
    BY <2>4, <2>5
<1>. QED
  BY <1>1, <1>2

\* What append() makes of a segment that was just created, packet by packet.
LEMMA AppendsAll ==
  ASSUME NEW V, NEW segment \in Heads(V), NEW packets, Len(packets) \in Nat
  PROVE  AppendAll(segment, packets) = Grown(segment, packets, Len(packets))
<1>. DEFINE N == Len(packets)
            filled == CHOOSE f : f = [n \in 0..N |->
                                        IF n = 0 THEN segment
                                        ELSE AppendTo(f[n - 1], packets[n])]
            g == [n \in 0..N |-> Grown(segment, packets, n)]
<1>1. AppendAll(segment, packets) = filled[N]
  BY DEF AppendAll
<1>2. g[0] = segment
  BY Grows
<1>3. ASSUME NEW n \in 1..N PROVE g[n] = AppendTo(g[n - 1], packets[n])
  <2>1. n - 1 \in Nat /\ (n - 1) + 1 = n /\ n - 1 \in 0..N /\ n \in 0..N
    OBVIOUS
  <2>2. AppendTo(Grown(segment, packets, n - 1), packets[n])
          = Grown(segment, packets, n)
    BY <2>1, Grows
  <2>. QED
    BY <2>1, <2>2
<1>4. g = [n \in 0..N |-> IF n = 0 THEN segment
                          ELSE AppendTo(g[n - 1], packets[n])]
  <2>1. \A n \in 0..N : g[n] = IF n = 0 THEN segment
                               ELSE AppendTo(g[n - 1], packets[n])
    <3>1. \A n \in 0..N : n # 0 => n \in 1..N
      OBVIOUS
    <3>. HIDE DEF g
    <3>. QED
      BY <1>2, <1>3, <3>1
  <2>2. g = [n \in 0..N |-> g[n]]
    OBVIOUS
  <2>. HIDE DEF g
  <2>. QED
    BY <2>1, <2>2
<1>5. filled = [n \in 0..N |-> IF n = 0 THEN segment
                               ELSE AppendTo(filled[n - 1], packets[n])]
  <2>. HIDE DEF g
  <2>. QED
    BY <1>4
<1>. HIDE DEF filled
<1>6. /\ filled[0] = segment
      /\ \A n \in 1..N : filled[n] = AppendTo(filled[n - 1], packets[n])
  <2>1. 0 \in 0..N /\ \A n \in 1..N : n \in 0..N /\ n # 0
    OBVIOUS
  <2>2. filled[0] = segment
    BY <1>5, <2>1
  <2>3. ASSUME NEW n \in 1..N
        PROVE  filled[n] = AppendTo(filled[n - 1], packets[n])
    BY <1>5, <2>1
  <2>. QED
    BY <2>2, <2>3
<1>7. \A n \in 0..N : filled[n] = g[n]
  <2>1. \A n \in 1..N : filled[n - 1] = g[n - 1] => filled[n] = g[n]
    BY <1>3, <1>6
  <2>2. filled[0] = g[0] /\ N \in Nat
    BY <1>2, <1>6
  <2>. HIDE DEF N, filled, g
  <2>. QED
    BY <2>1, <2>2, Alike, SMTT(60)
<1>. QED
  BY <1>1, <1>7

-----------------------------------------------------------------------------
\* Segments as append() leaves them: counted, and timed by their first packet.
WireSegments(V) ==
  {s \in [jobId : V, parameters : WireParameters(V), time_base : V, pts : V,
          dts : V, npackets : Nat, packets : Seq(WirePackets(V))] :
     /\ s.npackets = Len(s.packets)
     /\ s.packets # <<>> => /\ s.pts = s.packets[1].pts
                            /\ s.dts = s.packets[1].dts}

\* The segment without its packets.
HeadOf(s) == [s EXCEPT !.npackets = 0, !.packets = <<>>]

\* A segment without its packets is as good as just created.
LEMMA HeadTypes ==
  ASSUME NEW V, NEW s \in WireSegments(V)
  PROVE  HeadOf(s) \in Heads(V)
BY DEF HeadOf, WireSegments, Heads

\* A segment is what append() makes of its packets.
LEMMA GrownBack ==
  ASSUME NEW V, NEW s \in WireSegments(V)
  PROVE  Grown(HeadOf(s), s.packets, Len(s.packets)) = s
<1>. DEFINE N == Len(s.packets)
            copies == [i \in 1..N |-> PacketCopy(s.packets[i])]
<1>1. s.packets \in Seq(WirePackets(V)) /\ N \in Nat /\ s.npackets = N
  BY DEF WireSegments
<1>2. copies = s.packets
  <2>1. \A i \in 1..N : PacketCopy(s.packets[i]) = s.packets[i]
    <3>1. \A i \in 1..N : s.packets[i] \in WirePackets(V)
      BY <1>1
    <3>. QED
      BY <3>1, CopyWhole
  <2>2. s.packets = [i \in 1..N |-> s.packets[i]]
    BY <1>1
  <2>. QED
    BY <2>1, <2>2
<1>3. s.packets = <<>> <=> N = 0
  BY <1>1
<1>. HIDE DEF copies
<1>4. Grown(HeadOf(s), s.packets, N)
        = [HeadOf(s) EXCEPT
             !.packets = copies, !.npackets = N,
             !.pts = IF N = 0 THEN @ ELSE s.packets[1].pts,
             !.dts = IF N = 0 THEN @ ELSE s.packets[1].dts]
  BY DEF Grown, copies
<1>. HIDE DEF N
<1>5. CASE N = 0
  BY <1>1, <1>2, <1>4, <1>5, ZenonT(60) DEF HeadOf, WireSegments
<1>6. CASE N # 0
  <2>1. s.packets[1].pts = s.pts /\ s.packets[1].dts = s.dts
    BY <1>3, <1>6 DEF WireSegments
  <2>2. Grown(HeadOf(s), s.packets, N)
          = [HeadOf(s) EXCEPT !.packets = s.packets, !.npackets = s.npackets,
                              !.pts = s.pts, !.dts = s.dts]
    BY <1>1, <1>2, <1>4, <1>6, <2>1
  <2>3. [HeadOf(s) EXCEPT !.packets = s.packets, !.npackets = s.npackets,
                          !.pts = s.pts, !.dts = s.dts] = s
    BY DEF HeadOf, WireSegments
  <2>. QED
    BY <2>2, <2>3 DEF N
<1>. QED
  BY <1>5, <1>6, Zenon

\* What a segment of the same stream and times starts as.
LEMMA CreatedHead ==
  ASSUME NEW V, NEW s \in WireSegments(V)
  PROVE  [NextOf(s) EXCEPT !.pts = s.pts, !.dts = s.dts] = HeadOf(s)
<1>. DEFINE fresh == [NextOf(s) EXCEPT !.pts = s.pts, !.dts = s.dts]
<1>1. /\ fresh \in Heads(V)
      /\ fresh.jobId = s.jobId /\ fresh.parameters = s.parameters
      /\ fresh.time_base = s.time_base /\ fresh.pts = s.pts
      /\ fresh.dts = s.dts
  BY DEF NextOf, CreateSegment, Heads, WireSegments
<1>2. /\ HeadOf(s) \in Heads(V)
      /\ HeadOf(s).jobId = s.jobId /\ HeadOf(s).parameters = s.parameters
      /\ HeadOf(s).time_base = s.time_base /\ HeadOf(s).pts = s.pts
      /\ HeadOf(s).dts = s.dts
  BY HeadTypes DEF HeadOf, WireSegments
<1>. HIDE DEF fresh
<1>3. fresh = HeadOf(s)
  BY <1>1, <1>2 DEF Heads
<1>. QED
  BY <1>3 DEF fresh

\* A segment is its own copy.
LEMMA SegmentCopies ==
  ASSUME NEW V, NEW s \in WireSegments(V)
  PROVE  CopySegment(s) = s
<1>1. [NextOf(s) EXCEPT !.pts = s.pts, !.dts = s.dts] = HeadOf(s)
  BY CreatedHead
<1>2. Len(s.packets) \in Nat
  BY DEF WireSegments
<1>3. AppendAll(HeadOf(s), s.packets) = Grown(HeadOf(s), s.packets, Len(s.packets))
  BY <1>2, HeadTypes, AppendsAll
<1>. QED
  BY <1>1, <1>3, GrownBack DEF CopySegment

\* What was read and appended is what arrives.
LEMMA GrownRead ==
  ASSUME NEW V, NEW s \in WireSegments(V)
  PROVE  LET read == [i \in 1..Len(s.packets) |-> FirstOf(s.packets[i])]
         IN  Grown(HeadOf(s), read, Len(s.packets)) = Arrives(s)
<1>. DEFINE N == Len(s.packets)
            read == [i \in 1..N |-> FirstOf(s.packets[i])]
            copies == [i \in 1..N |-> PacketCopy(read[i])]
            grown == Grown(HeadOf(s), read, N)
<1>1. s.packets \in Seq(WirePackets(V)) /\ N \in Nat /\ s.npackets = N
  BY DEF WireSegments
<1>2. \A i \in 1..N : s.packets[i] \in WirePackets(V)
  BY <1>1
<1>3. copies = [i \in 1..N |-> IF s.packets[i].side_data_elems > 1
                               THEN Overread ELSE s.packets[i]]
  BY <1>2, CopyRead
<1>5. N # 0 => read[1].pts = s.pts /\ read[1].dts = s.dts
  <2>1. N # 0 => /\ read[1] = FirstOf(s.packets[1])
                 /\ s.packets[1] \in WirePackets(V)
                 /\ s.packets # <<>>
    BY <1>1, <1>2
  <2>2. \A p \in WirePackets(V) : FirstOf(p).pts = p.pts /\ FirstOf(p).dts = p.dts
    BY DEF FirstOf, WirePackets
  <2>. HIDE DEF read, N
  <2>. QED
    BY <2>1, <2>2 DEF WireSegments
<1>6. grown = [s EXCEPT !.packets = copies]
  <2>1. grown = [HeadOf(s) EXCEPT
                   !.packets = copies, !.npackets = N,
                   !.pts = IF N = 0 THEN @ ELSE read[1].pts,
                   !.dts = IF N = 0 THEN @ ELSE read[1].dts]
    BY DEF Grown
  <2>. HIDE DEF N, read, copies, grown
  <2>2. CASE N = 0
    BY <1>1, <2>1, <2>2 DEF HeadOf, WireSegments
  <2>3. CASE N # 0
    BY <1>1, <1>5, <2>1, <2>3 DEF HeadOf, WireSegments
  <2>. QED
    BY <2>2, <2>3
<1>. HIDE DEF copies, grown
<1>7. grown = Arrives(s)
  BY <1>3, <1>6 DEF Arrives
<1>. QED
  BY <1>7 DEF grown

\* A function that starts and goes on as LoadSegment's loop does.
Loads(ar, at, g) ==
  LET par == LoadParameters(ar, at + 4)
  IN  /\ ar[par.at] \in Nat
      /\ g = [n \in 0..ar[par.at] |-> g[n]]
      /\ g[0] = [value |-> LoadHead(ar, at, par), at |-> par.at + 1]
      /\ \A n \in 1..ar[par.at] :
           LET p == LoadPacket(ar, g[n - 1].at)
           IN  g[n] = [value |-> AppendTo(g[n - 1].value, p.value), at |-> p.at]

\* There is no other: its last value is what LoadSegment returns.
LEMMA LoadLoop ==
  ASSUME NEW ar, NEW at, NEW g, Loads(ar, at, g)
  PROVE  LoadSegment(ar, at) = g[ar[LoadParameters(ar, at + 4).at]]
<1>. DEFINE par == LoadParameters(ar, at + 4)
            N == ar[par.at]
            loaded == CHOOSE f :
              f = [n \in 0..ar[par.at] |->
                     IF n = 0
                     THEN [value |-> LoadHead(ar, at, par), at |-> par.at + 1]
                     ELSE LET p == LoadPacket(ar, f[n - 1].at)
                          IN [value |-> AppendTo(f[n - 1].value, p.value),
                              at |-> p.at]]
            start == [value |-> LoadHead(ar, at, par), at |-> par.at + 1]
            Step(r) == LET p == LoadPacket(ar, r.at)
                       IN [value |-> AppendTo(r.value, p.value), at |-> p.at]
<1>1. LoadSegment(ar, at) = loaded[N]
  BY DEF LoadSegment
<1>2. loaded = CHOOSE f : f = [n \in 0..N |-> IF n = 0 THEN start
                                              ELSE Step(f[n - 1])]
  OBVIOUS
<1>3. /\ N \in Nat /\ g = [n \in 0..N |-> g[n]] /\ g[0] = start
      /\ \A n \in 1..N : g[n] = Step(g[n - 1])
  BY DEF Loads
<1>. HIDE DEF N, loaded, start, Step
<1>4. g = [n \in 0..N |-> IF n = 0 THEN start ELSE Step(g[n - 1])]
  <2>1. \A n \in 0..N : g[n] = IF n = 0 THEN start ELSE Step(g[n - 1])
    <3>1. \A n \in 0..N : n # 0 => n \in 1..N
      BY <1>3
    <3>. QED
      BY <1>3, <3>1
  <2>. QED
    BY <1>3, <2>1
<1>5. loaded = [n \in 0..N |-> IF n = 0 THEN start ELSE Step(loaded[n - 1])]
  BY <1>2, <1>4
<1>6. /\ loaded[0] = start
      /\ \A n \in 1..N : loaded[n] = Step(loaded[n - 1])
  <2>1. 0 \in 0..N /\ \A n \in 1..N : n \in 0..N /\ n # 0
    BY <1>3
  <2>2. loaded[0] = start
    BY <1>5, <2>1
  <2>3. ASSUME NEW n \in 1..N PROVE loaded[n] = Step(loaded[n - 1])
    BY <1>5, <2>1
  <2>. QED
    BY <2>2, <2>3
<1>7. \A n \in 0..N : loaded[n] = g[n]
  <2>1. \A n \in 1..N : loaded[n - 1] = g[n - 1] => loaded[n] = g[n]
    BY <1>3, <1>6
  <2>2. loaded[0] = g[0] /\ N \in Nat
    BY <1>3, <1>6
  <2>. QED
    BY <2>1, <2>2, Alike
<1>8. loaded[N] = g[N]
  BY <1>3, <1>7
<1>. QED
  BY <1>1, <1>8 DEF N

\* The other end reads the segment that was written, packet by packet, and the
\* archive to its end.
LEMMA SegmentLoads ==
  ASSUME NEW V, Nat \subseteq V, NEW s \in WireSegments(V)
  PROVE  LET read == [i \in 1..Len(s.packets) |-> FirstOf(s.packets[i])]
         IN  LoadSegment(SaveSegment(s), 1)
               = [value |-> Grown(HeadOf(s), read, Len(s.packets)),
                  at |-> Len(SaveSegment(s)) + 1]
<1>. DEFINE N == Len(s.packets)
            ar == SaveSegment(s)
            saved == SavedAll(s.packets)
            head == <<s.jobId, s.pts, s.dts, s.time_base>>
            pars == SaveParameters(s.parameters)
            count == <<s.npackets>>
            body == saved[N]
            q == 5 + Len(pars)
            read == [i \in 1..N |-> FirstOf(s.packets[i])]
<1>1. ar = head \o pars \o count \o body
  BY DEF SaveSegment, SavedAll
<1>2. /\ s.packets \in Seq(WirePackets(V)) /\ N \in Nat /\ s.npackets = N
      /\ s.parameters \in WireParameters(V)
      /\ {s.jobId, s.pts, s.dts, s.time_base} \subseteq V
  BY DEF WireSegments
<1>3. /\ saved[0] = <<>> /\ \A n \in 0..N : saved[n] \in Seq(V)
      /\ \A n \in 1..N : saved[n] = saved[n - 1] \o SavePacket(s.packets[n])
  BY <1>2, Saves
<1>. HIDE DEF saved
<1>4. /\ head \in Seq(V) /\ Len(head) = 4 /\ count \in Seq(V) /\ Len(count) = 1
      /\ pars \in Seq(V) /\ Len(pars) \in Nat /\ body \in Seq(V)
      /\ Len(body) \in Nat
  <2>1. /\ head \in Seq(V) /\ Len(head) = 4 /\ count \in Seq(V)
        /\ Len(count) = 1
    BY <1>2
  <2>2. pars \in Seq(V)
    BY <1>2, ParametersLoad DEF WireParameters
  <2>3. body \in Seq(V)
    BY <1>2, <1>3
  <2>. HIDE DEF pars, body
  <2>. QED
    BY <2>1, <2>2, <2>3
<1>5. /\ Len(ar) = 4 + Len(pars) + 1 + Len(body)
      /\ Lies(ar, 1, head) /\ Lies(ar, 5, pars)
      /\ Lies(ar, q, count) /\ Lies(ar, q + 1, body)
  <2>1. head \in Seq(V) /\ pars \in Seq(V) /\ count \in Seq(V) /\ body \in Seq(V)
    BY <1>4
  <2>2. /\ Len(head) = 4 /\ Len(pars) \in Nat /\ Len(count) = 1
        /\ Len(body) \in Nat
    BY <1>4
  <2>3. Lies(ar, 1, ar)
    BY DEF Lies
  <2>. DEFINE all == head \o pars \o count \o body
  <2>. HIDE DEF head, pars, count, body
  <2>4. /\ Len(all) = Len(head) + Len(pars) + Len(count) + Len(body)
        /\ Lies(ar, 1, all) =>
             /\ Lies(ar, 1, head) /\ Lies(ar, 1 + Len(head), pars)
             /\ Lies(ar, 1 + Len(head) + Len(pars), count)
             /\ Lies(ar, 1 + Len(head) + Len(pars) + Len(count), body)
    <3>. HIDE DEF ar
    <3>. QED
      BY <2>1, LiesFour
  <2>5. ar = all
    BY <1>1
  <2>6. /\ 1 + Len(head) = 5 /\ 1 + Len(head) + Len(pars) = q
        /\ 1 + Len(head) + Len(pars) + Len(count) = q + 1
        /\ Len(head) + Len(pars) + Len(count) + Len(body)
             = 4 + Len(pars) + 1 + Len(body)
    BY <2>2
  <2>. HIDE DEF ar, all, q
  <2>. QED
    BY <2>3, <2>4, <2>5, <2>6, Zenon
<1>6. /\ ar[1] = s.jobId /\ ar[2] = s.pts /\ ar[3] = s.dts /\ ar[4] = s.time_base
      /\ ar[q] = N
  <2>1. {1, 2, 3, 4} \subseteq 1..Len(head) /\ 1 \in 1..Len(count)
    BY <1>4
  <2>2. q \in Nat
    BY <1>4
  <2>. HIDE DEF ar, q
  <2>3. /\ ar[1 + 1 - 1] = head[1] /\ ar[1 + 2 - 1] = head[2]
        /\ ar[1 + 3 - 1] = head[3] /\ ar[1 + 4 - 1] = head[4]
        /\ ar[q + 1 - 1] = count[1]
    <3>. HIDE DEF head, count
    <3>. QED
      BY <1>5, <2>1 DEF Lies
  <2>4. count[1] = N
    BY <1>2
  <2>. QED
    BY <2>2, <2>3, <2>4
<1>7. LoadParameters(ar, 1 + 4) = [value |-> s.parameters, at |-> q]
  <2>1. /\ 1 + 4 = 5 /\ 5 \in Nat /\ Lies(ar, 5, SaveParameters(s.parameters))
        /\ s.parameters \in [head : V, rest : V, extradata : Seq(V)]
    BY <1>2, <1>5 DEF WireParameters
  <2>. HIDE DEF ar
  <2>2. LoadParameters(ar, 5)
          = [value |-> s.parameters, at |-> 5 + Len(SaveParameters(s.parameters))]
    BY <2>1, ParametersLoad
  <2>. QED
    BY <2>1, <2>2
<1>. DEFINE par == LoadParameters(ar, 1 + 4)
<1>8. LoadHead(ar, 1, par) = HeadOf(s)
  <2>1. par.value = s.parameters /\ 1 + 1 = 2 /\ 1 + 2 = 3 /\ 1 + 3 = 4
    BY <1>7
  <2>. HIDE DEF ar, par
  <2>2. LoadHead(ar, 1, par)
          = [CreateSegment(ar[1], par.value, ar[1 + 3])
               EXCEPT !.pts = ar[1 + 1], !.dts = ar[1 + 2]]
    BY Zenon DEF LoadHead
  <2>. DEFINE made == [CreateSegment(s.jobId, s.parameters, s.time_base)
                         EXCEPT !.pts = s.pts, !.dts = s.dts]
  <2>3. LoadHead(ar, 1, par) = made
    BY <1>6, <2>1, <2>2
  <2>4. made = [NextOf(s) EXCEPT !.pts = s.pts, !.dts = s.dts]
    BY DEF NextOf
  <2>. QED
    BY <2>3, <2>4, CreatedHead
<1>. DEFINE g == [n \in 0..N |-> [value |-> Grown(HeadOf(s), read, n),
                                  at |-> q + 1 + Len(saved[n])]]
<1>9. g[0] = [value |-> LoadHead(ar, 1, par), at |-> par.at + 1]
  <2>1. Grown(HeadOf(s), read, 0) = HeadOf(s)
    BY HeadTypes, Grows
  <2>2. Len(saved[0]) = 0 /\ q \in Nat /\ q + 1 + 0 = q + 1
    BY <1>3, <1>4
  <2>3. g[0] = [value |-> Grown(HeadOf(s), read, 0), at |-> q + 1 + Len(saved[0])]
    BY <1>2
  <2>. HIDE DEF g, read, ar, q
  <2>. QED
    BY <1>7, <1>8, <2>1, <2>2, <2>3
<1>10. ASSUME NEW n \in 1..N
       PROVE  LET p == LoadPacket(ar, g[n - 1].at)
              IN  g[n] = [value |-> AppendTo(g[n - 1].value, p.value), at |-> p.at]
  <2>. DEFINE before == q + 1 + Len(saved[n - 1])
              p == s.packets[n]
  <2>1. /\ n - 1 \in 0..N /\ n \in 0..N /\ n - 1 \in Nat /\ (n - 1) + 1 = n
        /\ p \in WirePackets(V)
    BY <1>2
  <2>2. /\ saved[n - 1] \in Seq(V) /\ Len(saved[n - 1]) \in Nat
        /\ saved[n] = saved[n - 1] \o SavePacket(p)
        /\ SavePacket(p) \in Seq(V) /\ Len(SavePacket(p)) \in Nat
    <3>1. saved[n - 1] \in Seq(V) /\ saved[n] = saved[n - 1] \o SavePacket(p)
      BY <1>3, <2>1
    <3>2. SavePacket(p) \in Seq(V)
      BY <2>1, PacketLoads
    <3>. QED
      BY <3>1, <3>2
  <2>3. Len(saved[n]) = Len(saved[n - 1]) + Len(SavePacket(p))
    BY <2>2, ConcatProperties
  <2>4. before \in Nat /\ before + Len(SavePacket(p)) = q + 1 + Len(saved[n])
    <3>1. q \in Nat
      BY <1>4
    <3>. DEFINE old == Len(saved[n - 1])
                more == Len(SavePacket(p))
                new == Len(saved[n])
    <3>2. old \in Nat /\ more \in Nat /\ new = old + more
      BY <2>2, <2>3
    <3>. HIDE DEF q, old, more, new
    <3>3. q + 1 + old \in Nat /\ (q + 1 + old) + more = q + 1 + new
      BY <3>1, <3>2
    <3>. QED
      BY <3>3 DEF old, more, new
  <2>5. Lies(ar, before, SavePacket(p))
    <3>1. q + 1 \in Nat /\ Lies(ar, q + 1, saved[N])
      BY <1>4, <1>5
    <3>. HIDE DEF ar, q
    <3>. QED
      BY <1>2, <1>3, <3>1, SavedLies
  <2>6. LoadPacket(ar, before) = [value |-> FirstOf(p), at |-> before + Len(SavePacket(p))]
    <3>. HIDE DEF ar, before, p
    <3>. QED
      BY <2>1, <2>4, <2>5, PacketLoads
  <2>7. AppendTo(Grown(HeadOf(s), read, n - 1), read[n]) = Grown(HeadOf(s), read, n)
    <3>. DEFINE m == n - 1
                h == HeadOf(s)
    <3>1. m \in Nat /\ m + 1 = n /\ h \in Heads(V)
      BY <2>1, HeadTypes
    <3>. HIDE DEF read, m, h
    <3>2. AppendTo(Grown(h, read, m), read[m + 1]) = Grown(h, read, m + 1)
      BY <3>1, Grows
    <3>3. AppendTo(Grown(h, read, m), read[n]) = Grown(h, read, n)
      BY <3>1, <3>2
    <3>. QED
      BY <3>3 DEF m, h
  <2>8. read[n] = FirstOf(p)
    OBVIOUS
  <2>9. /\ g[n - 1] = [value |-> Grown(HeadOf(s), read, n - 1), at |-> before]
        /\ g[n] = [value |-> Grown(HeadOf(s), read, n),
                   at |-> q + 1 + Len(saved[n])]
    BY <2>1
  <2>. HIDE DEF g, read, ar, q, before, p
  <2>. QED
    BY <2>4, <2>6, <2>7, <2>8, <2>9
<1>11. ar[par.at] = N
  BY <1>6, <1>7
<1>12. LoadSegment(ar, 1) = g[N]
  <2>1. g = [n \in 0..N |-> g[n]]
    OBVIOUS
  <2>2. Loads(ar, 1, g)
    <3>. HIDE DEF g, ar, N
    <3>. QED
      BY <1>2, <1>9, <1>10, <1>11, <2>1 DEF Loads
  <2>. HIDE DEF g, ar, N
  <2>. QED
    BY <1>11, <2>2, LoadLoop
<1>13. g[N] = [value |-> Grown(HeadOf(s), read, N), at |-> q + 1 + Len(body)]
  BY <1>2
<1>14. q + 1 + Len(body) = Len(ar) + 1
  <2>. HIDE DEF ar, pars, body
  <2>. QED
    BY <1>4, <1>5
<1>. HIDE DEF g
<1>. QED
  BY <1>12, <1>13, <1>14

\* Whatever segment create() and append() make, the other end reads all of it
\* but the packets with more than one element of side data, and the archive to
\* its end; a copy is what it copies.
THEOREM SegmentSurvives ==
  ASSUME NEW V, Nat \subseteq V, NEW s \in WireSegments(V)
  PROVE  /\ LoadSegment(SaveSegment(s), 1).value = Arrives(s)
         /\ LoadSegment(SaveSegment(s), 1).at = Len(SaveSegment(s)) + 1
         /\ CopySegment(s) = s
<1>. DEFINE read == [i \in 1..Len(s.packets) |-> FirstOf(s.packets[i])]
            loaded == LoadSegment(SaveSegment(s), 1)
<1>1. loaded = [value |-> Grown(HeadOf(s), read, Len(s.packets)),
                at |-> Len(SaveSegment(s)) + 1]
  BY SegmentLoads
<1>2. Grown(HeadOf(s), read, Len(s.packets)) = Arrives(s)
  BY GrownRead
<1>3. CopySegment(s) = s
  BY SegmentCopies
<1>. HIDE DEF read, loaded
<1>4. loaded.value = Arrives(s) /\ loaded.at = Len(SaveSegment(s)) + 1
  BY <1>1, <1>2
<1>. QED
  BY <1>3, <1>4 DEF loaded

\* The values a segmenter's packets are made of.
WireValues == Int \cup BOOLEAN \cup {"job", "1/30", "video", "audio", "size", "side"}

\* A packet on the wire is whole.
LEMMA WireTypes ==
  ASSUME NEW p \in Packet
  PROVE  Wire(p) \in WirePackets(WireValues)
<1>. DEFINE data == [i \in 1..p.pos % 3 |-> p.pos + i]
            SideBytes(i) == [j \in 1..i - 1 |-> p.pos]
            side == [i \in 1..p.pos % 4 |-> [type |-> "side", bytes |-> SideBytes(i)]]
<1>1. p.pos \in Nat /\ p.key \in BOOLEAN /\ p.pos % 3 \in Nat /\ p.pos % 4 \in Nat
  BY DEF Packet
<1>2. data \in Seq(WireValues)
  <2>1. data \in [1..p.pos % 3 -> WireValues]
    BY <1>1 DEF WireValues
  <2>. HIDE DEF data
  <2>. QED
    BY <1>1, <2>1
<1>3. side \in Seq(SideData(WireValues)) /\ Len(side) = p.pos % 4
  <2>1. ASSUME NEW i \in 1..p.pos % 4
        PROVE  [type |-> "side", bytes |-> SideBytes(i)] \in SideData(WireValues)
    <3>. DEFINE bytes == SideBytes(i)
    <3>1. i - 1 \in Nat
      BY <1>1
    <3>2. bytes \in [1..i - 1 -> WireValues]
      BY <1>1 DEF WireValues
    <3>. HIDE DEF bytes
    <3>3. bytes \in Seq(WireValues)
      BY <3>1, <3>2
    <3>4. "side" \in WireValues
      BY DEF WireValues
    <3>5. [type |-> "side", bytes |-> bytes] \in SideData(WireValues)
      BY <3>3, <3>4 DEF SideData
    <3>. QED
      BY <3>5 DEF bytes
  <2>2. side \in [1..p.pos % 4 -> SideData(WireValues)]
    <3>. HIDE DEF SideBytes
    <3>. QED
      BY <2>1
  <2>. HIDE DEF side
  <2>. QED
    BY <1>1, <2>2
<1>4. Wire(p) = [pts |-> 10 * p.pos, dts |-> 10 * p.pos - 1, data |-> data,
                 stream_index |-> 3, flags |-> p.key,
                 side_data_elems |-> p.pos % 4, side_data |-> side,
                 duration |-> 2, pos |-> p.pos]
  BY DEF Wire
<1>5. {10 * p.pos, 10 * p.pos - 1, 3, p.key, 2, p.pos} \subseteq WireValues
  BY <1>1 DEF WireValues
<1>. HIDE DEF data, side
<1>. QED
  BY <1>1, <1>2, <1>3, <1>4, <1>5 DEF WirePackets

\* What process() signals is made by create() and append().
LEMMA SignalledTypes ==
  ASSUME TypeOK, NEW segment \in Segment
  PROVE  Signalled(segment) \in WireSegments(WireValues)
<1>. DEFINE V == WireValues
            head == NextOf(CreateSegment("job", Parameters, "1/30"))
            packets == [i \in 1..Len(segment) |-> Wire(segment[i])]
            N == Len(segment)
<1>1. N \in Nat /\ \A i \in 1..N : segment[i] \in Packet
  BY DEF Segment
<1>2. \A i \in 1..N : Wire(segment[i]) \in WirePackets(V)
  BY <1>1, WireTypes
<1>3. packets \in Seq(WirePackets(V)) /\ Len(packets) = N
  <2>1. packets \in [1..N -> WirePackets(V)]
    <3>. HIDE DEF V
    <3>. QED
      BY <1>2
  <2>. HIDE DEF packets, N, V
  <2>. QED
    BY <1>1, <2>1
<1>4. head \in Heads(V)
  <2>1. Parameters \in WireParameters(V)
    <3>1. <<7, 8>> \in Seq(V) /\ <<>> \in Seq(V)
      BY DEF WireValues
    <3>2. mediaType \in V /\ "size" \in V
      BY DEF TypeOK, WireValues
    <3>. HIDE DEF V
    <3>. QED
      BY <3>1, <3>2 DEF Parameters, WireParameters
  <2>2. {"job", "1/30", 0} \subseteq V
    BY DEF WireValues
  <2>. HIDE DEF V
  <2>. QED
    BY <2>1, <2>2 DEF NextOf, CreateSegment, Heads
<1>5. Signalled(segment) = Grown(head, packets, N)
  <2>1. Signalled(segment) = AppendAll(head, packets)
    BY DEF Signalled
  <2>. HIDE DEF head, packets, N, V
  <2>. QED
    BY <1>1, <1>3, <1>4, <2>1, AppendsAll
<1>. HIDE DEF head, packets, N, V
<1>6. ASSUME NEW i \in 1..N PROVE PacketCopy(packets[i]) = packets[i]
  <2>1. packets[i] \in WirePackets(V)
    BY <1>1, <1>3
  <2>. QED
    BY <2>1, CopyWhole
<1>7. [i \in 1..N |-> PacketCopy(packets[i])] = packets
  BY <1>1, <1>3, <1>6
<1>8. Grown(head, packets, N)
        = [head EXCEPT !.packets = packets, !.npackets = N,
                       !.pts = IF N = 0 THEN @ ELSE packets[1].pts,
                       !.dts = IF N = 0 THEN @ ELSE packets[1].dts]
  BY <1>7 DEF Grown
<1>9. N # 0 => packets[1].pts \in V /\ packets[1].dts \in V
  <2>1. N # 0 => packets[1] \in WirePackets(V)
    BY <1>1, <1>3
  <2>. QED
    BY <2>1 DEF WirePackets
<1>10. packets # <<>> <=> N # 0
  BY <1>1, <1>3
<1>11. ASSUME NEW pts \in V, NEW dts \in V,
              N # 0 => pts = packets[1].pts /\ dts = packets[1].dts
       PROVE  [head EXCEPT !.packets = packets, !.npackets = N,
                           !.pts = pts, !.dts = dts] \in WireSegments(V)
  <2>. DEFINE made == [head EXCEPT !.packets = packets, !.npackets = N,
                                   !.pts = pts, !.dts = dts]
  <2>1. made = [head EXCEPT !.packets = packets, !.npackets = N,
                            !.pts = pts, !.dts = dts]
    OBVIOUS
  <2>. HIDE DEF made
  <2>2. /\ made \in [jobId : V, parameters : WireParameters(V), time_base : V,
                     pts : V, dts : V, npackets : Nat,
                     packets : Seq(WirePackets(V))]
        /\ made.packets = packets /\ made.npackets = N
        /\ made.pts = pts /\ made.dts = dts
    <3>. DEFINE P == Seq(WirePackets(V))
    <3>1. head \in Heads(V) /\ packets \in P /\ N \in Nat
      BY <1>1, <1>3, <1>4
    <3>. HIDE DEF P
    <3>2. /\ made \in [jobId : V, parameters : WireParameters(V), time_base : V,
                       pts : V, dts : V, npackets : Nat, packets : P]
          /\ made.packets = packets /\ made.npackets = N
          /\ made.pts = pts /\ made.dts = dts
      BY <2>1, <3>1 DEF Heads
    <3>. QED
      BY <3>2 DEF P
  <2>3. made.npackets = Len(made.packets)
    BY <1>3, <2>2
  <2>4. made.packets # <<>> => /\ made.pts = made.packets[1].pts
                              /\ made.dts = made.packets[1].dts
    BY <1>10, <1>11, <2>2
  <2>. QED
    BY <2>2, <2>3, <2>4 DEF WireSegments, made
<1>12. head.pts \in V /\ head.dts \in V
  BY <1>4 DEF Heads
<1>13. [head EXCEPT !.packets = packets, !.npackets = N,
                    !.pts = IF N = 0 THEN @ ELSE packets[1].pts,
                    !.dts = IF N = 0 THEN @ ELSE packets[1].dts]
         = [head EXCEPT !.packets = packets, !.npackets = N,
                        !.pts = IF N = 0 THEN head.pts ELSE packets[1].pts,
                        !.dts = IF N = 0 THEN head.dts ELSE packets[1].dts]
  OBVIOUS
<1>14. [head EXCEPT !.packets = packets, !.npackets = N,
                    !.pts = IF N = 0 THEN head.pts ELSE packets[1].pts,
                    !.dts = IF N = 0 THEN head.dts ELSE packets[1].dts]
         \in WireSegments(V)
  <2>. DEFINE pts == IF N = 0 THEN head.pts ELSE packets[1].pts
              dts == IF N = 0 THEN head.dts ELSE packets[1].dts
  <2>1. pts \in V /\ dts \in V
    BY <1>9, <1>12
  <2>2. N # 0 => pts = packets[1].pts /\ dts = packets[1].dts
    OBVIOUS
  <2>. HIDE DEF pts, dts
  <2>3. [head EXCEPT !.packets = packets, !.npackets = N,
                     !.pts = pts, !.dts = dts] \in WireSegments(V)
    BY <1>11, <2>1, <2>2
  <2>. QED
    BY <2>3 DEF pts, dts
<1>. QED
  BY <1>5, <1>8, <1>13, <1>14 DEF V

\* Every segment a segmenter signals survives the wire, its packets with more
\* than one element of side data excepted.
THEOREM WireCorrect == Spec => []SurvivesWire
<1>1. TypeOK => SurvivesWire
  <2>. SUFFICES ASSUME TypeOK, sent # <<>>
                PROVE  /\ Received.value = Arrives(Sent)
                       /\ Received.at = Len(SaveSegment(Sent)) + 1
                       /\ CopySegment(Sent) = Sent
    BY DEF SurvivesWire
  <2>1. sent[Len(sent)] \in Segment
    BY DEF TypeOK
  <2>2. Sent \in WireSegments(WireValues)
    BY <2>1, SignalledTypes DEF Sent
  <2>3. Nat \subseteq WireValues
    BY DEF WireValues
  <2>. QED
    BY <2>2, <2>3, SegmentSurvives DEF Received
<1>. QED
  BY <1>1, TypeCorrect, PTL
====
