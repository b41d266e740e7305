---------------------------- MODULE Muxer_proofs ----------------------------
(***************************************************************************)
(* Theorems about Muxer, for every set of sources, buffer size and bound.  *)
(***************************************************************************)
EXTENDS Muxer, FiniteSetTheorems, SequenceTheorems, TLAPS

\* What the bound on the buffer depends on.
BufferTypes == /\ buffer \in Seq(Packet)
               /\ pc \in [Sources -> {"idle", "append", "evict"}]
               /\ count \in [Sources -> Nat]

\* A source between its test and its push holds a packet.
LEMMA HeldType ==
  ASSUME BufferTypes, NEW s \in Sources
  PROVE  Held(s) \in Packet
BY DEF BufferTypes, Held, Packet

\* The user thread leaves the sources alone and only ever shortens the buffer.
UserStep == \/ \E s \in Sources : Subscribe(s) \/ SubscribeEnds(s)
            \/ Unsubscribe \/ Open \/ Flush \/ Close \/ Destroy \/ UserSteps

\* The user thread takes the first packet from the buffer, or none.
LEMMA UserBuffer ==
  ASSUME BufferTypes, UserStep
  PROVE  /\ pc' = pc /\ count' = count
         /\ \/ buffer' = buffer
            \/ buffer # <<>> /\ buffer' = Tail(buffer)
BY DEF UserStep, Subscribe, SubscribeEnds, Unsubscribe, Open, Flush, Close,
       Destroy, UserSteps, FlushPacket, FlushEnds, CloseFile

\* Every reachable buffer is a sequence of packets.
THEOREM BufferTypeCorrect == Spec => []BufferTypes
<1>1. Init => BufferTypes
  BY DEF Init, BufferTypes
<1>2. BufferTypes /\ [Next]_vars => BufferTypes'
  <2>. SUFFICES ASSUME BufferTypes, [Next]_vars PROVE BufferTypes'
    OBVIOUS
  <2>1. ASSUME NEW s \in Sources, Offer(s) PROVE BufferTypes'
    BY <2>1 DEF Offer, BufferTypes
  <2>2. ASSUME NEW s \in Sources, AppendPacket(s) PROVE BufferTypes'
    BY <2>2, HeldType DEF AppendPacket, BufferTypes
  <2>3. ASSUME NEW s \in Sources, Evict(s) PROVE BufferTypes'
    <3>1. Append(buffer, Held(s)) \in Seq(Packet) /\ Append(buffer, Held(s)) # <<>>
      BY HeldType DEF BufferTypes
    <3>. QED
      BY <2>3, <3>1 DEF Evict, BufferTypes
  <2>4. CASE UserStep
    <3>1. /\ pc' = pc /\ count' = count
          /\ buffer' = buffer \/ (buffer # <<>> /\ buffer' = Tail(buffer))
      BY <2>4, UserBuffer
    <3>2. buffer' \in Seq(Packet)
      BY <3>1 DEF BufferTypes
    <3>. QED
      BY <3>1, <3>2 DEF BufferTypes
  <2>5. ASSUME NEW s \in Sources, OfferUnlinked(s) PROVE BufferTypes'
    BY <2>5 DEF OfferUnlinked, BufferTypes
  <2>6. CASE UNCHANGED vars
    BY <2>6 DEF vars, BufferTypes
  <2>. QED
    BY <2>1, <2>2, <2>3, <2>4, <2>5, <2>6 DEF Next, SourceSteps, UserStep
<1>. QED
  BY <1>1, <1>2, PTL DEF Spec

-----------------------------------------------------------------------------
(* The bound on the buffer: sources past the unlocked test count already. *)

\* There are at most as many of them as sources, and at least one source.
LEMMA AppendingFinite ==
  /\ IsFiniteSet(Appending) /\ Cardinality(Appending) \in Nat
  /\ Cardinality(Sources) \in Nat /\ Cardinality(Sources) > 0
  /\ Cardinality(Appending) <= Cardinality(Sources)
<1>1. Appending \subseteq Sources
  BY DEF Appending
<1>2. Cardinality(Sources) # 0
  BY MuxerAssumption, FS_EmptySet
<1>. QED
  BY <1>1, <1>2, MuxerAssumption, FS_Subset, FS_CardinalityType

\* However the unlocked tests, pushes, evictions and flushes interleave, the
\* buffer exceeds bufferMax by less than one packet per source.
THEOREM BufferCorrect == Spec => []BufferBound
<1>1. Init => BufferBound
  <2>. SUFFICES ASSUME Init PROVE BufferBound
    OBVIOUS
  <2>1. Appending = {} /\ Len(buffer) = 0
    BY DEF Init, Appending
  <2>2. Cardinality(Appending) = 0
    BY <2>1, FS_EmptySet
  <2>. QED
    BY <2>1, <2>2, AppendingFinite, MuxerAssumption DEF BufferBound
<1>2. BufferTypes /\ BufferBound /\ [Next]_vars => BufferBound'
  <2>. SUFFICES ASSUME BufferTypes, BufferBound, [Next]_vars PROVE BufferBound'
    OBVIOUS
  <2>. DEFINE N == Cardinality(Sources)
  <2>a. /\ Len(buffer) \in Nat /\ BufferMax \in Nat /\ N \in Nat /\ N > 0
        /\ IsFiniteSet(Appending) /\ Cardinality(Appending) \in Nat
    BY AppendingFinite, MuxerAssumption DEF BufferTypes
  <2>b. Len(buffer) + Cardinality(Appending) <= BufferMax + N - 1
    BY DEF BufferBound
  <2>1. ASSUME NEW s \in Sources, Offer(s) PROVE BufferBound'
    <3>1. buffer' = buffer
      BY <2>1 DEF Offer
    <3>2. CASE Len(buffer) < BufferMax
      <4>1. IsFiniteSet(Appending') /\ Cardinality(Appending') \in Nat
            /\ Cardinality(Appending') <= N
        <5>1. Appending' \subseteq Sources
          BY DEF Appending
        <5>. QED
          BY <5>1, MuxerAssumption, FS_Subset, FS_CardinalityType
      <4>. QED
        BY <2>a, <3>1, <3>2, <4>1 DEF BufferBound
    <3>3. CASE ~(Len(buffer) < BufferMax)
      <4>1. Appending' = Appending
        BY <2>1, <3>3 DEF Offer, Appending, BufferTypes
      <4>. QED
        BY <3>1, <4>1 DEF BufferBound
    <3>. QED
      BY <3>2, <3>3
  <2>2. ASSUME NEW s \in Sources, AppendPacket(s) PROVE BufferBound'
    <3>1. s \in Appending /\ Appending' = Appending \ {s}
      BY <2>2 DEF AppendPacket, Appending, BufferTypes
    <3>2. Cardinality(Appending') = Cardinality(Appending) - 1
      BY <2>a, <3>1, FS_RemoveElement
    <3>3. Len(buffer') = Len(buffer) + 1
      BY <2>2, HeldType DEF AppendPacket, BufferTypes
    <3>. QED
      BY <2>a, <2>b, <3>2, <3>3 DEF BufferBound
  <2>3. ASSUME NEW s \in Sources, Evict(s) PROVE BufferBound'
    <3>1. Appending' = Appending
      BY <2>3 DEF Evict, Appending, BufferTypes
    <3>2. Len(buffer') = Len(buffer)
      <4>1. /\ Append(buffer, Held(s)) \in Seq(Packet)
            /\ Len(Append(buffer, Held(s))) = Len(buffer) + 1
        BY HeldType DEF BufferTypes
      <4>2. buffer' = Tail(Append(buffer, Held(s)))
        BY <2>3 DEF Evict
      <4>. QED
        BY <4>1, <4>2, <2>a
    <3>. QED
      BY <3>1, <3>2 DEF BufferBound
  <2>4. CASE UserStep
    <3>1. Appending' = Appending
      BY <2>4, UserBuffer DEF Appending
    <3>2. Len(buffer') \in Nat /\ Len(buffer') <= Len(buffer)
      BY <2>4, <2>a, UserBuffer DEF BufferTypes
    <3>. QED
      BY <2>a, <2>b, <3>1, <3>2 DEF BufferBound
  <2>5. ASSUME NEW s \in Sources, OfferUnlinked(s) PROVE BufferBound'
    BY <2>5 DEF OfferUnlinked, BufferBound, Appending
  <2>6. CASE UNCHANGED vars
    BY <2>6 DEF vars, BufferBound, Appending
  <2>. QED
    BY <2>1, <2>2, <2>3, <2>4, <2>5, <2>6 DEF Next, SourceSteps, UserStep
<1>. QED
  BY <1>1, <1>2, BufferTypeCorrect, PTL DEF Spec

-----------------------------------------------------------------------------
(* Types. *)

\* The file with one more packet.
Extend(w, p) == [w EXCEPT ![p.source] = Append(@, p.n)]

\* One packet more, of one source; the others' are as they were.
LEMMA ExtendFile ==
  ASSUME NEW w \in [Sources -> Seq(Nat)], NEW p \in Packet
  PROVE  /\ p.source \in Sources /\ p.n \in Nat
         /\ Extend(w, p) \in [Sources -> Seq(Nat)]
         /\ \A s \in Sources \ {p.source} : Extend(w, p)[s] = w[s]
         /\ Len(w[p.source]) \in Nat
         /\ Len(Extend(w, p)[p.source]) = Len(w[p.source]) + 1
         /\ \A k \in 1..Len(w[p.source]) : Extend(w, p)[p.source][k] = w[p.source][k]
         /\ Extend(w, p)[p.source][Len(w[p.source]) + 1] = p.n
<1>1. p.source \in Sources /\ p.n \in Nat /\ w[p.source] \in Seq(Nat)
  BY DEF Packet
<1>2. /\ Append(w[p.source], p.n) \in Seq(Nat) /\ Len(w[p.source]) \in Nat
      /\ Len(Append(w[p.source], p.n)) = Len(w[p.source]) + 1
      /\ \A k \in 1..Len(w[p.source]) : Append(w[p.source], p.n)[k] = w[p.source][k]
      /\ Append(w[p.source], p.n)[Len(w[p.source]) + 1] = p.n
  BY <1>1, AppendProperties, LenProperties
<1>3. Extend(w, p)[p.source] = Append(w[p.source], p.n)
  BY <1>1 DEF Extend
<1>4. Extend(w, p) \in [Sources -> Seq(Nat)]
  BY <1>1, <1>2 DEF Extend
<1>5. \A s \in Sources \ {p.source} : Extend(w, p)[s] = w[s]
  BY DEF Extend
<1>. QED
  BY <1>1, <1>2, <1>3, <1>4, <1>5

\* What one write may do to the file: nothing, with or without the loss of the
\* packet, or the packet is added to the open file.
LEMMA WriteEffects ==
  ASSUME NEW p, WriteOk(p) \/ WriteFails \/ WriteCrashes(crashed')
  PROVE  /\ state' = state /\ base' = base /\ trailer' = trailer
         /\ \/ WriteOk(p) /\ written' = Extend(written, p) /\ lost' = lost
            \/ WriteFails /\ written' = written /\ lost' = TRUE
            \/ /\ WriteCrashes(crashed') /\ crashed' # "no"
               /\ written' = written /\ lost' = lost
BY DEF WriteOk, WriteFails, WriteCrashes, Extend, file

\* The types of the file, and of the flags around it.
FileTypes ==
  /\ state \in {"OPEN", "CLOSED", "ERROR"}
  /\ streamStart \in BOOLEAN /\ header \in BOOLEAN /\ trailer \in BOOLEAN
  /\ lost \in BOOLEAN

\* However a write ends, the file and its flags stay of their types.
LEMMA WriteTypes ==
  ASSUME FileTypes, NEW p, WriteOk(p) \/ WriteFails \/ WriteCrashes(crashed')
  PROVE  FileTypes'
BY DEF FileTypes, WriteOk, WriteFails, WriteCrashes, file

\* The muxer's steps, the flush's and the eviction's apart, grow no file, but
\* open() starts a new one.
LEMMA FileSteps ==
  ASSUME [Next]_vars
  PROVE  \/ written' = written /\ base' = base
         \/ Open
         \/ \E s \in Sources : Evict(s)
         \/ FlushPacket
BY DEF Next, SourceSteps, UserSteps, Offer, OfferUnlinked, AppendPacket, Subscribe,
       SubscribeEnds, Unsubscribe, Flush, Close, Destroy, FlushEnds, CloseFile,
       file, vars

\* Every reachable state of the muxer is of the right type.
THEOREM MuxerTypes == Spec => []TypeOK
<1>. DEFINE Others ==
       /\ locked \in BOOLEAN /\ patient \in BOOLEAN /\ destroying \in BOOLEAN
       /\ linked \in [Sources -> {"no", "connecting", "failed", "set"}]
       /\ user \in {"idle", "subscribe", "flush", "closeFlush", "closeFile",
                    "destroyed"}
       /\ crashed \in {"no", "closedFile", "noHeader", "noStream", "lateStream",
                       "terminate"}
<1>. DEFINE Calls == flushes \in Nat /\ opens \in Nat
<1>. DEFINE Growing == base \in [Sources -> Nat] /\ written \in [Sources -> Seq(Nat)]
<1>1. Init => FileTypes
  BY DEF Init, FileTypes
<1>2. Init => Others
  BY DEF Init
<1>2a. Init => Calls
  BY DEF Init
<1>3. Init => Growing
  <2>1. <<>> \in Seq(Nat)
    OBVIOUS
  <2>. QED
    BY <2>1 DEF Init
<1>4. FileTypes /\ [Next]_vars => FileTypes'
  <2>. SUFFICES ASSUME FileTypes, [Next]_vars PROVE FileTypes'
    OBVIOUS
  <2>1. ASSUME NEW s \in Sources, Evict(s) PROVE FileTypes'
    BY <2>1, WriteTypes DEF Evict
  <2>2. CASE FlushPacket
    BY <2>2, WriteTypes DEF FlushPacket
  <2>3. CASE CloseFile
    BY <2>3 DEF CloseFile, FileTypes, file
  <2>4. CASE Open
    BY <2>4 DEF Open, FileTypes
  <2>5. CASE UNCHANGED file
    BY <2>5 DEF file, FileTypes
  <2>. QED
    BY <2>1, <2>2, <2>3, <2>4, <2>5
    DEF Next, SourceSteps, UserSteps, Offer, OfferUnlinked, AppendPacket, Subscribe,
        SubscribeEnds, Unsubscribe, Flush, Close, Destroy, FlushEnds, vars, file
<1>5. Others /\ [Next]_vars => Others'
  <2>. SUFFICES ASSUME Others, [Next]_vars PROVE Others'
    OBVIOUS
  <2>1. ASSUME NEW s \in Sources, SourceSteps(s) PROVE Others'
    BY <2>1 DEF SourceSteps, Offer, OfferUnlinked, AppendPacket, Evict, WriteCrashes,
                calls, budget
  <2>2. ASSUME NEW s \in Sources, Subscribe(s) \/ SubscribeEnds(s) PROVE Others'
    BY <2>2 DEF Subscribe, SubscribeEnds, budget
  <2>3. CASE Unsubscribe \/ Close \/ Destroy
    BY <2>3 DEF Unsubscribe, Close, Destroy, budget
  <2>4. CASE Open \/ Flush
    BY <2>4 DEF Open, Flush
  <2>5. CASE FlushPacket
    BY <2>5 DEF FlushPacket, WriteCrashes, budget
  <2>6. CASE FlushEnds \/ CloseFile
    BY <2>6 DEF FlushEnds, FlushReturns, CloseFile, CloseReturns, budget
  <2>7. CASE UNCHANGED vars
    BY <2>7 DEF vars, calls, budget
  <2>. QED
    BY <2>1, <2>2, <2>3, <2>4, <2>5, <2>6, <2>7 DEF Next, UserSteps
<1>5a. Calls /\ [Next]_vars => Calls'
  BY DEF Next, SourceSteps, UserSteps, Offer, OfferUnlinked, AppendPacket, Evict,
         Subscribe, SubscribeEnds, Unsubscribe, Open, Flush, Close, Destroy,
         FlushPacket, FlushEnds, CloseFile, calls, budget, vars
<1>6. BufferTypes /\ Growing /\ [Next]_vars => Growing'
  <2>. HIDE DEF Growing
  <2>. SUFFICES ASSUME BufferTypes, Growing, [Next]_vars PROVE Growing'
    OBVIOUS
  <2>1. ASSUME NEW p \in Packet, WriteOk(p) \/ WriteFails \/ WriteCrashes(crashed')
        PROVE  Growing'
    <3>1. base' = base /\ (written' = written \/ written' = Extend(written, p))
      BY <2>1, WriteEffects
    <3>2. Extend(written, p) \in [Sources -> Seq(Nat)]
      BY ExtendFile DEF Growing
    <3>. QED
      BY <3>1, <3>2 DEF Growing
  <2>2. ASSUME NEW s \in Sources, Evict(s) PROVE Growing'
    <3>1. Append(buffer, Held(s)) \in Seq(Packet) /\ Append(buffer, Held(s)) # <<>>
      BY HeldType DEF BufferTypes
    <3>2. Head(Append(buffer, Held(s))) \in Packet
      BY <3>1, HeadTailProperties
    <3>. QED
      BY <2>1, <2>2, <3>2 DEF Evict
  <2>3. CASE FlushPacket
    <3>1. Head(buffer) \in Packet
      BY <2>3, HeadTailProperties DEF FlushPacket, BufferTypes
    <3>. QED
      BY <2>1, <2>3, <3>1 DEF FlushPacket
  <2>4. CASE Open
    <3>1. \A s \in Sources : base[s] + Len(written[s]) \in Nat
      BY LenProperties DEF Growing
    <3>2. <<>> \in Seq(Nat)
      OBVIOUS
    <3>. QED
      BY <2>4, <3>1, <3>2 DEF Open, Growing
  <2>. QED
    BY <2>2, <2>3, <2>4, FileSteps DEF Growing
<1>7. TypeOK <=> BufferTypes /\ FileTypes /\ Others /\ Calls /\ Growing
  BY DEF TypeOK, BufferTypes, FileTypes
<1>. HIDE DEF Others, Calls, Growing
<1>. QED
  BY <1>1, <1>2, <1>2a, <1>3, <1>4, <1>5, <1>5a, <1>6, <1>7, BufferTypeCorrect, PTL
  DEF Spec

-----------------------------------------------------------------------------
(* The order of the packets: a queue q behind a file w, and the number top of  *)
(* the last packet of each source that has joined them.                        *)

\* Each source's packets rise from the file through the queue up to top.
Rising(q, w, top) ==
  /\ \A i, j \in 1..Len(q) : i < j /\ q[i].source = q[j].source => q[i].n < q[j].n
  /\ \A i \in 1..Len(q) :
       /\ q[i].n <= top[q[i].source]
       /\ \A k \in 1..Len(w[q[i].source]) : w[q[i].source][k] < q[i].n
  /\ \A s \in Sources :
       /\ \A k \in 1..Len(w[s]) : w[s][k] <= top[s]
       /\ \A k \in 1..Len(w[s]) - 1 : w[s][k] < w[s][k + 1]

\* None is missing: the file has those from b on, and the queue all the others.
Whole(q, w, b, top) ==
  \A s \in Sources :
    /\ \A k \in 1..Len(w[s]) : w[s][k] = b[s] + k
    /\ b[s] + Len(w[s]) <= top[s]
    /\ \A i \in 1..Len(q) : q[i].source = s => b[s] + Len(w[s]) < q[i].n
    /\ \A n \in Nat : b[s] + Len(w[s]) < n /\ n <= top[s]
                        => \E i \in 1..Len(q) : q[i] = [source |-> s, n |-> n]

\* A packet is its source and its number.
LEMMA PacketParts ==
  ASSUME NEW p \in Packet
  PROVE  /\ p.source \in Sources /\ p.n \in Nat
         /\ p = [source |-> p.source, n |-> p.n]
BY DEF Packet

\* A source's next packet joins the queue.
LEMMA Push ==
  ASSUME NEW q \in Seq(Packet), NEW w \in [Sources -> Seq(Nat)],
         NEW b \in [Sources -> Nat],
         NEW top \in [Sources -> Nat], NEW top2 \in [Sources -> Nat],
         NEW p \in Packet, p.n = top[p.source] + 1, top2[p.source] = p.n,
         \A s \in Sources \ {p.source} : top2[s] = top[s]
  PROVE  /\ Rising(q, w, top) => Rising(Append(q, p), w, top2)
         /\ Whole(q, w, b, top) => Whole(Append(q, p), w, b, top2)
<1>. DEFINE r == Append(q, p)
<1>1. /\ Len(q) \in Nat /\ Len(r) = Len(q) + 1 /\ r[Len(q) + 1] = p
      /\ \A i \in 1..Len(q) : r[i] = q[i]
  BY AppendProperties, LenProperties
<1>2. \A i \in 1..Len(q) : q[i] \in Packet
  BY ElementOfSeq
<1>3. \A i \in 1..Len(r) : i \in 1..Len(q) \/ i = Len(q) + 1
  BY <1>1
<1>4. /\ p.source \in Sources /\ p.n \in Nat
      /\ \A s \in Sources : top[s] \in Nat /\ top2[s] \in Nat /\ top[s] <= top2[s]
  <2>1. p.source \in Sources /\ p.n \in Nat
    BY PacketParts
  <2>2. \A s \in Sources : top[s] \in Nat /\ top2[s] \in Nat
    OBVIOUS
  <2>3. \A s \in Sources : s = p.source \/ top2[s] = top[s]
    OBVIOUS
  <2>4. top[p.source] <= top2[p.source]
    BY <2>1, <2>2
  <2>5. ASSUME NEW s \in Sources PROVE top[s] <= top2[s]
    <3>1. CASE s = p.source
      BY <2>4, <3>1
    <3>2. CASE s # p.source
      <4>1. top2[s] = top[s] /\ top[s] \in Nat
        BY <2>2, <2>3, <3>2
      <4>. QED
        BY <4>1
    <3>. QED
      BY <3>1, <3>2
  <2>. QED
    BY <2>1, <2>2, <2>5
<1>5. \A i \in 1..Len(q) : /\ q[i].source \in Sources /\ q[i].n \in Nat
  BY <1>2, PacketParts
<1>6. \A s \in Sources : /\ w[s] \in Seq(Nat) /\ Len(w[s]) \in Nat
                         /\ \A k \in 1..Len(w[s]) : w[s][k] \in Nat
                         /\ b[s] \in Nat
  BY LenProperties, ElementOfSeq
<1>. HIDE DEF r
<1>7. ASSUME Rising(q, w, top) PROVE Rising(r, w, top2)
  <2>1. ASSUME NEW i \in 1..Len(r), NEW j \in 1..Len(r), i < j,
               r[i].source = r[j].source
        PROVE  r[i].n < r[j].n
    <3>1. i \in 1..Len(q)
      BY <1>1, <2>1
    <3>2. CASE j \in 1..Len(q)
      BY <1>1, <1>7, <2>1, <3>1, <3>2 DEF Rising
    <3>3. CASE j = Len(q) + 1
      <4>1. q[i].n <= top[q[i].source] /\ q[i].source = p.source
        BY <1>1, <1>7, <2>1, <3>1, <3>3 DEF Rising
      <4>. QED
        BY <1>1, <1>4, <1>5, <3>1, <3>3, <4>1
    <3>. QED
      BY <1>3, <3>2, <3>3
  <2>2. ASSUME NEW i \in 1..Len(r)
        PROVE  /\ r[i].n <= top2[r[i].source]
               /\ \A k \in 1..Len(w[r[i].source]) : w[r[i].source][k] < r[i].n
    <3>1. CASE i \in 1..Len(q)
      <4>1. /\ r[i] = q[i] /\ q[i].n <= top[q[i].source]
            /\ \A k \in 1..Len(w[q[i].source]) : w[q[i].source][k] < q[i].n
        BY <1>1, <1>7, <3>1 DEF Rising
      <4>2. q[i].source \in Sources /\ q[i].n \in Nat
        BY <1>5, <3>1
      <4>3. q[i].n <= top2[q[i].source]
        <5>1. /\ top[q[i].source] \in Nat /\ top2[q[i].source] \in Nat
              /\ top[q[i].source] <= top2[q[i].source]
          BY <1>4, <4>2
        <5>2. q[i].n <= top[q[i].source]
          BY <4>1
        <5>. QED
          BY <4>2, <5>1, <5>2
      <4>. QED
        BY <4>1, <4>3
    <3>2. CASE i = Len(q) + 1
      <4>1. r[i] = p
        BY <1>1, <3>2
      <4>2. ASSUME NEW k \in 1..Len(w[p.source]) PROVE w[p.source][k] < p.n
        <5>. p.source \in Sources
          BY <1>4
        <5>1. w[p.source][k] \in Nat
          BY <1>6, <4>2
        <5>2. w[p.source][k] <= top[p.source]
          BY <1>7, <4>2 DEF Rising
        <5>3. top[p.source] \in Nat /\ p.n = top[p.source] + 1
          BY <1>4
        <5>. QED
          BY <5>1, <5>2, <5>3
      <4>. QED
        BY <1>4, <4>1, <4>2
    <3>. QED
      BY <1>3, <3>1, <3>2
  <2>3. ASSUME NEW s \in Sources
        PROVE  /\ \A k \in 1..Len(w[s]) : w[s][k] <= top2[s]
               /\ \A k \in 1..Len(w[s]) - 1 : w[s][k] < w[s][k + 1]
    <3>1. /\ \A k \in 1..Len(w[s]) : w[s][k] <= top[s] /\ w[s][k] \in Nat
          /\ \A k \in 1..Len(w[s]) - 1 : w[s][k] < w[s][k + 1]
      BY <1>6, <1>7 DEF Rising
    <3>. QED
      BY <1>4, <3>1
  <2>. QED
    BY <2>1, <2>2, <2>3 DEF Rising
<1>8. ASSUME Whole(q, w, b, top) PROVE Whole(r, w, b, top2)
  <2>. SUFFICES ASSUME NEW s \in Sources
                PROVE  /\ \A k \in 1..Len(w[s]) : w[s][k] = b[s] + k
                       /\ b[s] + Len(w[s]) <= top2[s]
                       /\ \A i \in 1..Len(r) :
                            r[i].source = s => b[s] + Len(w[s]) < r[i].n
                       /\ \A n \in Nat :
                            b[s] + Len(w[s]) < n /\ n <= top2[s]
                              => \E i \in 1..Len(r) : r[i] = [source |-> s, n |-> n]
    BY DEF Whole
  <2>. DEFINE done == b[s] + Len(w[s])
  <2>1. /\ done \in Nat /\ done <= top[s]
        /\ \A k \in 1..Len(w[s]) : w[s][k] = b[s] + k
        /\ \A i \in 1..Len(q) : q[i].source = s => done < q[i].n
        /\ \A n \in Nat : done < n /\ n <= top[s]
                            => \E i \in 1..Len(q) : q[i] = [source |-> s, n |-> n]
    BY <1>6, <1>8 DEF Whole
  <2>. HIDE DEF done
  <2>2. done <= top2[s]
    BY <1>4, <2>1
  <2>3. ASSUME NEW i \in 1..Len(r), r[i].source = s PROVE done < r[i].n
    <3>1. CASE i \in 1..Len(q)
      BY <1>1, <2>1, <2>3, <3>1
    <3>2. CASE i = Len(q) + 1
      <4>1. r[i] = p /\ s = p.source
        BY <1>1, <2>3, <3>2
      <4>. QED
        BY <1>4, <2>1, <4>1
    <3>. QED
      BY <1>3, <3>1, <3>2
  <2>4. ASSUME NEW n \in Nat, done < n, n <= top2[s]
        PROVE  \E i \in 1..Len(r) : r[i] = [source |-> s, n |-> n]
    <3>1. CASE n <= top[s]
      <4>1. PICK i \in 1..Len(q) : q[i] = [source |-> s, n |-> n]
        BY <2>1, <2>4, <3>1
      <4>2. i \in 1..Len(r) /\ r[i] = q[i]
        BY <1>1
      <4>. QED
        BY <4>1, <4>2
    <3>2. CASE ~(n <= top[s])
      <4>1. s = p.source /\ n = p.n
        BY <1>4, <2>4, <3>2
      <4>2. Len(q) + 1 \in 1..Len(r) /\ r[Len(q) + 1] = [source |-> s, n |-> n]
        BY <1>1, <4>1, PacketParts
      <4>. QED
        BY <4>2
    <3>. QED
      BY <3>1, <3>2
  <2>. QED
    BY <2>1, <2>2, <2>3, <2>4 DEF done
<1>. QED
  BY <1>7, <1>8 DEF r

\* The first of the queue is taken.
LEMMA PopQueue ==
  ASSUME NEW q \in Seq(Packet), q # <<>>
  PROVE  /\ Head(q) \in Packet /\ Head(q) = q[1] /\ 1 \in 1..Len(q)
         /\ Tail(q) \in Seq(Packet)
         /\ \A i \in 1..Len(Tail(q)) :
              Tail(q)[i] = q[i + 1] /\ i + 1 \in 1..Len(q) /\ 1 < i + 1
         /\ \A i \in 1..Len(q) : i # 1 => \E j \in 1..Len(Tail(q)) : Tail(q)[j] = q[i]
<1>1. /\ Head(q) = q[1] /\ Head(q) \in Packet /\ Len(q) \in Nat /\ Len(q) > 0
      /\ Tail(q) \in Seq(Packet) /\ Len(Tail(q)) = Len(q) - 1
      /\ \A i \in 1..Len(Tail(q)) : Tail(q)[i] = q[i + 1]
  BY HeadTailProperties, EmptySeq
<1>2. \A i \in 1..Len(Tail(q)) : i + 1 \in 1..Len(q) /\ 1 < i + 1
  BY <1>1
<1>3. ASSUME NEW i \in 1..Len(q), i # 1
      PROVE  \E j \in 1..Len(Tail(q)) : Tail(q)[j] = q[i]
  <2>1. i - 1 \in 1..Len(Tail(q)) /\ (i - 1) + 1 = i
    BY <1>1, <1>3
  <2>. QED
    BY <1>1, <2>1
<1>. QED
  BY <1>1, <1>2, <1>3

\* The first of the queue is dropped, or goes to the end of its file; none is
\* missing then either.
LEMMA Pop ==
  ASSUME NEW q \in Seq(Packet), q # <<>>, NEW w \in [Sources -> Seq(Nat)],
         NEW b \in [Sources -> Nat], NEW top \in [Sources -> Nat],
         Rising(q, w, top)
  PROVE  /\ Rising(Tail(q), w, top)
         /\ Rising(Tail(q), Extend(w, Head(q)), top)
         /\ Whole(q, w, b, top) => Whole(Tail(q), Extend(w, Head(q)), b, top)
<1>1. PICK h \in Packet : h = Head(q)
  BY PopQueue
<1>. DEFINE r == Tail(q)
            v == Extend(w, h)
<1>2. /\ h = q[1] /\ 1 \in 1..Len(q)
      /\ \A i \in 1..Len(r) : r[i] = q[i + 1] /\ i + 1 \in 1..Len(q) /\ 1 < i + 1
      /\ \A i \in 1..Len(q) : i # 1 => \E j \in 1..Len(r) : r[j] = q[i]
  BY <1>1, PopQueue
<1>3. \A i \in 1..Len(r) : r[i].source \in Sources /\ r[i].n \in Nat
  BY <1>2, ElementOfSeq, PacketParts
<1>4. /\ h.source \in Sources /\ h.n \in Nat
      /\ \A s \in Sources \ {h.source} : v[s] = w[s]
      /\ Len(w[h.source]) \in Nat /\ Len(v[h.source]) = Len(w[h.source]) + 1
      /\ \A k \in 1..Len(w[h.source]) : v[h.source][k] = w[h.source][k]
      /\ v[h.source][Len(w[h.source]) + 1] = h.n
  BY ExtendFile
<1>5. \A s \in Sources : /\ w[s] \in Seq(Nat) /\ Len(w[s]) \in Nat
                         /\ \A k \in 1..Len(w[s]) : w[s][k] \in Nat
                         /\ b[s] \in Nat /\ top[s] \in Nat
  BY LenProperties, ElementOfSeq
<1>6. /\ \A i, j \in 1..Len(r) : i < j /\ r[i].source = r[j].source => r[i].n < r[j].n
      /\ \A i \in 1..Len(r) : r[i].source = h.source => h.n < r[i].n
  <2>1. \A i, j \in 1..Len(r) : i < j => i + 1 < j + 1
    OBVIOUS
  <2>. QED
    BY <1>2, <2>1 DEF Rising
<1>7. /\ \A i \in 1..Len(r) :
           /\ r[i].n <= top[r[i].source]
           /\ \A k \in 1..Len(w[r[i].source]) : w[r[i].source][k] < r[i].n
      /\ h.n <= top[h.source]
      /\ \A k \in 1..Len(w[h.source]) : w[h.source][k] < h.n
  BY <1>2 DEF Rising
<1>8. \A s \in Sources :
        /\ \A k \in 1..Len(w[s]) : w[s][k] <= top[s]
        /\ \A k \in 1..Len(w[s]) - 1 : w[s][k] < w[s][k + 1]
  BY DEF Rising
<1>9. \A k \in 1..Len(v[h.source]) :
        k \in 1..Len(w[h.source]) \/ k = Len(w[h.source]) + 1
  BY <1>4
<1>. HIDE DEF r, v
<1>10. Rising(r, w, top)
  BY <1>6, <1>7, <1>8 DEF Rising
<1>11. Rising(r, v, top)
  <2>1. ASSUME NEW i \in 1..Len(r), NEW k \in 1..Len(v[r[i].source])
        PROVE  v[r[i].source][k] < r[i].n
    <3>1. CASE r[i].source # h.source
      <4>1. v[r[i].source] = w[r[i].source]
        BY <1>3, <1>4, <3>1
      <4>. QED
        BY <1>7, <4>1
    <3>2. CASE r[i].source = h.source
      <4>1. CASE k \in 1..Len(w[h.source])
        BY <1>4, <1>7, <3>2, <4>1
      <4>2. CASE k = Len(w[h.source]) + 1
        BY <1>4, <1>6, <3>2, <4>2
      <4>. QED
        BY <1>9, <3>2, <4>1, <4>2
    <3>. QED
      BY <3>1, <3>2
  <2>2. ASSUME NEW s \in Sources
        PROVE  /\ \A k \in 1..Len(v[s]) : v[s][k] <= top[s]
               /\ \A k \in 1..Len(v[s]) - 1 : v[s][k] < v[s][k + 1]
    <3>1. CASE s # h.source
      <4>1. v[s] = w[s]
        BY <1>4, <3>1
      <4>. QED
        BY <1>8, <4>1
    <3>2. CASE s = h.source
      <4>1. \A k \in 1..Len(v[s]) : v[s][k] <= top[s]
        BY <1>4, <1>7, <1>8, <1>9, <3>2
      <4>2. ASSUME NEW k \in 1..Len(v[s]) - 1 PROVE v[s][k] < v[s][k + 1]
        <5>1. k \in 1..Len(w[s]) /\ v[s][k] = w[s][k]
          BY <1>4, <3>2
        <5>2. CASE k = Len(w[s])
          BY <1>4, <1>7, <3>2, <5>1, <5>2
        <5>3. CASE k # Len(w[s])
          <6>1. k \in 1..Len(w[s]) - 1 /\ k + 1 \in 1..Len(w[s])
            BY <1>5, <5>1, <5>3
          <6>. QED
            BY <1>4, <1>8, <3>2, <5>1, <6>1
        <5>. QED
          BY <5>2, <5>3
      <4>. QED
        BY <4>1, <4>2
    <3>. QED
      BY <3>1, <3>2
  <2>. QED
    BY <1>6, <1>7, <2>1, <2>2 DEF Rising
<1>12. ASSUME Whole(q, w, b, top) PROVE Whole(r, v, b, top)
  <2>1. h.n = b[h.source] + Len(w[h.source]) + 1
    <3>. DEFINE next == b[h.source] + Len(w[h.source]) + 1
    <3>1. next \in Nat /\ next <= h.n
      BY <1>2, <1>4, <1>5, <1>12 DEF Whole
    <3>2. next <= top[h.source]
      BY <1>4, <1>5, <1>7, <3>1
    <3>3. PICK i \in 1..Len(q) : q[i] = [source |-> h.source, n |-> next]
      <4>1. b[h.source] + Len(w[h.source]) < next
        BY <1>4, <1>5
      <4>. QED
        BY <1>4, <1>12, <3>1, <3>2, <4>1 DEF Whole
    <3>. HIDE DEF next
    <3>4. q[i].source = h.source /\ q[i].n = next
      BY <3>3
    <3>5. i = 1 \/ h.n < next
      <4>1. i # 1 => 1 < i
        OBVIOUS
      <4>. QED
        BY <1>2, <3>4, <4>1 DEF Rising
    <3>6. h.n = next
      BY <1>2, <1>4, <3>1, <3>4, <3>5
    <3>. QED
      BY <3>6 DEF next
  <2>. SUFFICES ASSUME NEW s \in Sources
                PROVE  /\ \A k \in 1..Len(v[s]) : v[s][k] = b[s] + k
                       /\ b[s] + Len(v[s]) <= top[s]
                       /\ \A i \in 1..Len(r) :
                            r[i].source = s => b[s] + Len(v[s]) < r[i].n
                       /\ \A n \in Nat :
                            b[s] + Len(v[s]) < n /\ n <= top[s]
                              => \E i \in 1..Len(r) : r[i] = [source |-> s, n |-> n]
    BY DEF Whole
  <2>2. /\ \A k \in 1..Len(w[s]) : w[s][k] = b[s] + k
        /\ b[s] + Len(w[s]) <= top[s]
        /\ \A i \in 1..Len(q) : q[i].source = s => b[s] + Len(w[s]) < q[i].n
        /\ \A n \in Nat : b[s] + Len(w[s]) < n /\ n <= top[s]
                            => \E i \in 1..Len(q) : q[i] = [source |-> s, n |-> n]
    BY <1>12 DEF Whole
  <2>3. ASSUME NEW n \in Nat, b[s] + Len(w[s]) < n, n <= top[s],
               s # h.source \/ n # h.n
        PROVE  \E i \in 1..Len(r) : r[i] = [source |-> s, n |-> n]
    <3>1. PICK i \in 1..Len(q) : q[i] = [source |-> s, n |-> n]
      BY <2>2, <2>3
    <3>2. i # 1
      BY <1>2, <2>3, <3>1
    <3>. QED
      BY <1>2, <3>1, <3>2
  <2>4. CASE s # h.source
    <3>1. v[s] = w[s]
      BY <1>4, <2>4
    <3>2. ASSUME NEW i \in 1..Len(r), r[i].source = s
          PROVE  b[s] + Len(w[s]) < r[i].n
      <4>1. r[i] = q[i + 1] /\ i + 1 \in 1..Len(q)
        BY <1>2
      <4>. QED
        BY <2>2, <3>2, <4>1
    <3>3. \A n \in Nat : b[s] + Len(w[s]) < n /\ n <= top[s]
                           => \E i \in 1..Len(r) : r[i] = [source |-> s, n |-> n]
      BY <2>3, <2>4
    <3>. QED
      BY <2>2, <3>1, <3>2, <3>3
  <2>5. CASE s = h.source
    <3>1. /\ Len(v[s]) = Len(w[s]) + 1 /\ b[s] + Len(v[s]) = h.n
          /\ b[s] \in Nat /\ Len(w[s]) \in Nat
      BY <1>4, <1>5, <2>1, <2>5
    <3>2. \A k \in 1..Len(v[s]) : v[s][k] = b[s] + k
      BY <1>4, <1>9, <2>2, <2>5, <3>1
    <3>3. b[s] + Len(v[s]) <= top[s]
      BY <1>7, <2>5, <3>1
    <3>4. \A i \in 1..Len(r) : r[i].source = s => b[s] + Len(v[s]) < r[i].n
      BY <1>6, <2>5, <3>1
    <3>5. ASSUME NEW n \in Nat, b[s] + Len(v[s]) < n, n <= top[s]
          PROVE  \E i \in 1..Len(r) : r[i] = [source |-> s, n |-> n]
      <4>1. n # h.n /\ b[s] + Len(w[s]) < n
        BY <1>4, <3>1, <3>5, SMTT(30)
      <4>. QED
        BY <2>3, <3>5, <4>1
    <3>. QED
      BY <3>2, <3>3, <3>4, <3>5
  <2>. QED
    BY <2>4, <2>5
<1>. QED
  BY <1>1, <1>10, <1>11, <1>12 DEF r, v

\* The last packet of each source that has joined the buffer: one that the
\* source still holds is behind it.
Joined == [s \in Sources |-> IF pc[s] = "idle" THEN count[s] ELSE count[s] - 1]

\* The buffer's packets follow the file's, and while none was lost none is
\* missing.
Following ==
  /\ Joined \in [Sources -> Nat]
  /\ Rising(buffer, written, Joined)
  /\ ~lost => Whole(buffer, written, base, Joined)

\* A packet that a source holds, joins the buffer.
LEMMA HeldJoins ==
  ASSUME TypeOK, Following, NEW s \in Sources, pc[s] # "idle",
         pc' = [pc EXCEPT ![s] = "idle"], count' = count
  PROVE  /\ Append(buffer, Held(s)) \in Seq(Packet) /\ Append(buffer, Held(s)) # <<>>
         /\ Joined' \in [Sources -> Nat]
         /\ Rising(Append(buffer, Held(s)), written, Joined')
         /\ ~lost => Whole(Append(buffer, Held(s)), written, base, Joined')
<1>1. /\ Held(s) \in Packet /\ Held(s).source = s /\ Held(s).n = count[s]
      /\ count[s] \in Nat
  BY DEF TypeOK, Held, Packet
<1>2. Joined[s] + 1 = count[s] /\ Joined'[s] = count[s]
  BY <1>1 DEF Joined, TypeOK
<1>3. \A t \in Sources \ {s} : Joined'[t] = Joined[t]
  BY DEF Joined, TypeOK
<1>4. Joined' \in [Sources -> Nat]
  <2>1. \A t \in Sources : Joined'[t] \in Nat
    BY <1>1, <1>2, <1>3 DEF Following
  <2>2. Joined' = [t \in Sources |-> Joined'[t]]
    BY DEF Joined
  <2>. QED
    BY <2>1, <2>2
<1>5. /\ buffer \in Seq(Packet) /\ written \in [Sources -> Seq(Nat)]
      /\ base \in [Sources -> Nat]
  BY DEF TypeOK
<1>6. Append(buffer, Held(s)) \in Seq(Packet) /\ Append(buffer, Held(s)) # <<>>
  <2>. DEFINE q == buffer
              p == Held(s)
  <2>1. q \in Seq(Packet) /\ p \in Packet
    BY <1>1, <1>5
  <2>. HIDE DEF q, p
  <2>2. Append(q, p) \in Seq(Packet) /\ Append(q, p) # <<>>
    BY <2>1, AppendProperties
  <2>. QED
    BY <2>2 DEF q, p
<1>. QED
  BY <1>1, <1>2, <1>3, <1>4, <1>5, <1>6, Push DEF Following

\* The packet that is taken from the front of a queue is written, or lost.
LEMMA WriteFollows ==
  ASSUME TypeOK, NEW q \in Seq(Packet), q # <<>>, buffer' = Tail(q),
         Joined' \in [Sources -> Nat], Rising(q, written, Joined'),
         ~lost => Whole(q, written, base, Joined'),
         \/ WriteOk(Head(q)) \/ WriteFails \/ WriteCrashes(crashed'),
         Running'
  PROVE  Following'
<1>1. base' = base
      /\ \/ written' = Extend(written, Head(q)) /\ lost' = lost
         \/ written' = written /\ lost' = TRUE
  BY WriteEffects DEF Running
<1>2. written \in [Sources -> Seq(Nat)] /\ base \in [Sources -> Nat]
  BY DEF TypeOK
<1>3. /\ Rising(Tail(q), written, Joined')
      /\ Rising(Tail(q), Extend(written, Head(q)), Joined')
      /\ ~lost => Whole(Tail(q), Extend(written, Head(q)), base, Joined')
  BY <1>2, Pop
<1>4. CASE written' = Extend(written, Head(q)) /\ lost' = lost
  BY <1>1, <1>3, <1>4 DEF Following
<1>5. CASE written' = written /\ lost' = TRUE
  BY <1>1, <1>3, <1>5 DEF Following
<1>. QED
  BY <1>1, <1>4, <1>5

\* The steps that leave the buffer, the file and what the sources hold alone.
LEMMA FollowingKept ==
  ASSUME Following, UNCHANGED <<buffer, written, base>>, lost => lost',
         Joined' = Joined
  PROVE  Following'
BY DEF Following

\* Pushes, evictions, flushes and new files keep that, as long as no step crashed.
LEMMA FollowingInv == Spec => [](Running => Following)
<1>1. Init => Following
  <2>. SUFFICES ASSUME Init PROVE Following
    OBVIOUS
  <2>1. Joined = [s \in Sources |-> 0] /\ Joined \in [Sources -> Nat]
    BY DEF Init, Joined
  <2>2. /\ Len(buffer) = 0 /\ \A s \in Sources : Len(written[s]) = 0
        /\ \A s \in Sources : base[s] = 0 /\ Joined[s] = 0
    BY <2>1 DEF Init
  <2>3. Rising(buffer, written, Joined)
    BY <2>2 DEF Rising
  <2>4. Whole(buffer, written, base, Joined)
    BY <2>2 DEF Whole
  <2>. QED
    BY <2>1, <2>3, <2>4 DEF Following
<1>2. TypeOK /\ TypeOK' /\ (Running => Following) /\ [Next]_vars
        => (Running => Following)'
  <2>. SUFFICES ASSUME TypeOK, TypeOK', Running => Following, [Next]_vars, Running'
                PROVE  Following'
    OBVIOUS
  <2>1. Following
    <3>1. CASE Running
      BY <3>1
    <3>2. CASE UNCHANGED vars
      BY <3>2 DEF vars, Running
    <3>. QED
      BY <3>1, <3>2 DEF Next, SourceSteps, UserSteps, Offer, OfferUnlinked,
         AppendPacket, Evict, Subscribe, UserCalls, SubscribeEnds, Unsubscribe, Open,
         Flush, Close, Destroy, FlushPacket, FlushEnds, InFlush, CloseFile
  <2>2. ASSUME NEW s \in Sources, Offer(s) PROVE Following'
    <3>1. /\ pc[s] = "idle" /\ count' = [count EXCEPT ![s] = count[s] + 1]
          /\ pc' = [pc EXCEPT ![s] = pc'[s]] /\ pc'[s] # "idle"
          /\ UNCHANGED <<buffer, written, base, lost>>
      BY <2>2 DEF Offer, TypeOK, file
    <3>2. \A t \in Sources : Joined'[t] = Joined[t]
      BY <3>1 DEF Joined, TypeOK
    <3>3. Joined' = Joined
      BY <3>2 DEF Joined
    <3>. QED
      BY <2>1, <3>1, <3>3, FollowingKept
  <2>3. ASSUME NEW s \in Sources, AppendPacket(s) PROVE Following'
    <3>1. /\ pc[s] # "idle" /\ pc' = [pc EXCEPT ![s] = "idle"] /\ count' = count
          /\ buffer' = Append(buffer, Held(s)) /\ UNCHANGED <<written, base, lost>>
      BY <2>3 DEF AppendPacket, file
    <3>. QED
      BY <2>1, <3>1, HeldJoins DEF Following
  <2>4. ASSUME NEW s \in Sources, Evict(s) PROVE Following'
    <3>1. /\ pc[s] # "idle" /\ pc' = [pc EXCEPT ![s] = "idle"] /\ count' = count
          /\ buffer' = Tail(Append(buffer, Held(s)))
          /\ \/ WriteOk(Head(Append(buffer, Held(s)))) \/ WriteFails
             \/ WriteCrashes(crashed')
      BY <2>4 DEF Evict
    <3>. QED
      BY <2>1, <3>1, HeldJoins, WriteFollows
  <2>5. CASE FlushPacket
    <3>1. /\ buffer # <<>> /\ buffer' = Tail(buffer) /\ pc' = pc /\ count' = count
          /\ WriteOk(Head(buffer)) \/ WriteFails \/ WriteCrashes(crashed')
      BY <2>5 DEF FlushPacket
    <3>2. Joined' = Joined /\ buffer \in Seq(Packet)
      BY <3>1 DEF Joined, TypeOK
    <3>3. Joined' \in [Sources -> Nat] /\ Rising(buffer, written, Joined')
          /\ (~lost => Whole(buffer, written, base, Joined'))
      BY <2>1, <3>2 DEF Following
    <3>. QED
      BY <3>1, <3>2, <3>3, WriteFollows
  <2>6. CASE Open
    <3>1. UNCHANGED <<buffer, lost, pc, count>>
      BY <2>6 DEF Open
    <3>2. Joined' = Joined
      BY <3>1 DEF Joined
    <3>3. CASE written' = written /\ base' = base
      BY <2>1, <3>1, <3>2, <3>3, FollowingKept
    <3>4. CASE /\ base' = [s \in Sources |-> base[s] + Len(written[s])]
               /\ written' = [s \in Sources |-> <<>>]
      <4>1. \A s \in Sources :
              /\ Len(written'[s]) = 0 /\ base'[s] = base[s] + Len(written[s])
              /\ base'[s] + Len(written'[s]) = base[s] + Len(written[s])
        BY <3>4 DEF TypeOK
      <4>2. \A i \in 1..Len(buffer) : buffer[i].source \in Sources
        BY ElementOfSeq, PacketParts DEF TypeOK
      <4>3. Rising(buffer, written', Joined)
        BY <2>1, <4>1, <4>2 DEF Following, Rising
      <4>4. ~lost => Whole(buffer, written', base', Joined)
        BY <2>1, <4>1 DEF Following, Whole
      <4>. QED
        BY <2>1, <3>1, <3>2, <4>3, <4>4 DEF Following
    <3>. QED
      BY <2>6, <3>3, <3>4 DEF Open
  <2>7. ASSUME NEW s \in Sources, OfferUnlinked(s) PROVE Following'
    BY <2>7 DEF OfferUnlinked, Running
  <2>8. CASE UNCHANGED <<buffer, written, base, pc, count>> /\ (lost => lost')
    <3>1. Joined' = Joined
      BY <2>8 DEF Joined
    <3>. QED
      BY <2>1, <2>8, <3>1, FollowingKept
  <2>. QED
    BY <2>2, <2>3, <2>4, <2>5, <2>6, <2>7, <2>8
    DEF Next, SourceSteps, UserSteps, Subscribe, SubscribeEnds, Unsubscribe, Flush,
        Close, Destroy, FlushEnds, CloseFile, file, vars
<1>. QED
  BY <1>1, <1>2, MuxerTypes, PTL DEF Spec

\* Whatever fails and whoever closes early or opens again, no packet is in the
\* file twice or behind a later one of its source, and while no write failed
\* none is missing: for every set of sources, buffer size and number of packets.
THEOREM OrderCorrect == Spec => []Ordered
<1>1. Init => Ordered
  BY DEF Init, Ordered
<1>2. TypeOK /\ Following => Ordered
  BY DEF Following, Rising, Whole, Ordered
<1>3. TypeOK /\ Ordered /\ (Running' => Ordered') /\ [Next]_vars => Ordered'
  <2>. SUFFICES ASSUME TypeOK, Ordered, ~Running', [Next]_vars PROVE Ordered'
    OBVIOUS
  <2>1. written' = written /\ base' = base /\ (lost => lost')
    <3>1. ASSUME NEW p, WriteOk(p) /\ UNCHANGED crashed PROVE crashed # "no"
      BY <3>1 DEF Running
    <3>2. CASE crashed # "no"
      BY <3>2 DEF Running, Next, SourceSteps, UserSteps, Offer, OfferUnlinked,
         AppendPacket, Evict, Subscribe, UserCalls, SubscribeEnds, Unsubscribe, Open,
         Flush, Close, Destroy, FlushPacket, FlushEnds, InFlush, CloseFile, vars
    <3>3. CASE crashed = "no"
      <4>1. ASSUME NEW s \in Sources, Evict(s)
            PROVE  WriteFails \/ WriteCrashes(crashed')
        BY <3>1, <3>3, <4>1 DEF Evict
      <4>2. CASE FlushPacket
        <5>1. WriteFails \/ WriteCrashes(crashed')
          BY <3>1, <3>3, <4>2 DEF FlushPacket
        <5>2. CASE WriteFails
          BY <5>2 DEF WriteFails
        <5>3. CASE WriteCrashes(crashed')
          BY <5>3 DEF WriteCrashes, file
        <5>. QED
          BY <5>1, <5>2, <5>3
      <4>3. CASE Open
        BY <3>3, <4>3 DEF Open, Running
      <4>4. CASE UNCHANGED <<written, base, lost>>
        BY <4>4
      <4>5. ASSUME NEW s \in Sources, Evict(s)
            PROVE  written' = written /\ base' = base /\ (lost => lost')
        <5>1. CASE WriteFails
          BY <5>1 DEF WriteFails
        <5>2. CASE WriteCrashes(crashed')
          BY <5>2 DEF WriteCrashes, file
        <5>. QED
          BY <4>1, <4>5, <5>1, <5>2
      <4>. QED
        BY <4>2, <4>3, <4>4, <4>5
        DEF Next, SourceSteps, UserSteps, Offer, OfferUnlinked, AppendPacket, Subscribe,
            SubscribeEnds, Unsubscribe, Flush, Close, Destroy, FlushEnds, CloseFile,
            file, vars
    <3>. QED
      BY <3>2, <3>3
  <2>. QED
    BY <2>1 DEF Ordered
<1>. QED
  BY <1>1, <1>2, <1>3, MuxerTypes, FollowingInv, PTL DEF Spec

-----------------------------------------------------------------------------
(* A user who waits for the sources. *)

\* Such a user subscribes before any packet is written, and closes and destroys
\* the muxer only when no source holds a packet; a file that is closed leaves
\* nothing behind.
Patient ==
  patient =>
    /\ user \in {"subscribe", "closeFlush", "closeFile", "destroyed"} => SourcesDone
    /\ user = "subscribe" => streamStart
    /\ user = "closeFile" => buffer = <<>>
    /\ state # "OPEN" => SourcesDone /\ buffer = <<>>

\* A slot that is connected while its stream is not set is subscribe()'s, which
\* is at no other.
Connecting ==
  \A s \in Sources : linked[s] = "connecting" =>
    user = "subscribe" /\ \A t \in Sources : linked[t] = "connecting" => t = s

\* The user thread is in one call at a time.
LEMMA ConnectingInv == Spec => []Connecting
<1>1. Init => Connecting
  BY DEF Init, Connecting
<1>2. TypeOK /\ Connecting /\ [Next]_vars => Connecting'
  <2>. SUFFICES ASSUME TypeOK, Connecting, [Next]_vars PROVE Connecting'
    OBVIOUS
  <2>0. linked \in [Sources -> {"no", "connecting", "failed", "set"}]
    BY DEF TypeOK
  <2>1. ASSUME NEW s \in Sources, Subscribe(s) PROVE Connecting'
    BY <2>0, <2>1 DEF Subscribe, UserCalls, Connecting
  <2>2. ASSUME NEW s \in Sources, SubscribeEnds(s) PROVE Connecting'
    <3>1. /\ linked[s] = "connecting"
          /\ \/ linked' = [linked EXCEPT ![s] = "set"]
             \/ linked' = [linked EXCEPT ![s] = "failed"]
      BY <2>2 DEF SubscribeEnds
    <3>2. ASSUME NEW t \in Sources PROVE linked'[t] # "connecting"
      BY <2>0, <3>1 DEF Connecting
    <3>. QED
      BY <3>2 DEF Connecting
  <2>3. CASE Unsubscribe \/ Destroy
    BY <2>3 DEF Unsubscribe, Destroy, Connecting
  <2>4. ASSUME linked' = linked, user' = user \/ user # "subscribe"
        PROVE  Connecting'
    BY <2>4 DEF Connecting
  <2>5. CASE FlushPacket
    BY <2>4, <2>5 DEF FlushPacket, InFlush
  <2>6. CASE FlushEnds \/ CloseFile
    BY <2>4, <2>6 DEF FlushEnds, InFlush, CloseFile
  <2>7. ASSUME NEW s \in Sources, SourceSteps(s) PROVE Connecting'
    BY <2>4, <2>7
    DEF SourceSteps, Offer, OfferUnlinked, AppendPacket, Evict, calls
  <2>8. CASE Open \/ Flush \/ Close
    BY <2>4, <2>8 DEF Open, Flush, Close, UserCalls
  <2>9. CASE UNCHANGED vars
    BY <2>4, <2>9 DEF vars
  <2>. QED
    BY <2>1, <2>2, <2>3, <2>5, <2>6, <2>7, <2>8, <2>9 DEF Next, UserSteps
<1>. QED
  BY <1>1, <1>2, MuxerTypes, PTL DEF Spec

\* The header is there when a packet is, and the trailer when both are.
Framed ==
  ~lost =>
    /\ state # "OPEN" => streamStart
    /\ state = "OPEN" => /\ header <=> ~streamStart
                         /\ header <=> \E s \in Sources : written[s] # <<>>
    /\ state = "CLOSED" => (trailer <=> \E s \in Sources : written[s] # <<>>)

\* A user keeps to it, and what is lost is lost.
LEMMA StaysSo ==
  ASSUME [Next]_vars
  PROVE  patient' = patient /\ (lost => lost')
<1>1. ASSUME NEW p, WriteOk(p) \/ WriteFails \/ WriteCrashes(crashed')
      PROVE  lost => lost'
  BY <1>1, WriteEffects
<1>2. ASSUME NEW s \in Sources, Evict(s) PROVE patient' = patient /\ (lost => lost')
  <2>1. patient' = patient
    BY <1>2 DEF Evict, calls, budget
  <2>2. lost => lost'
    BY <1>1, <1>2 DEF Evict
  <2>. QED
    BY <2>1, <2>2
<1>3. CASE FlushPacket
  <2>1. patient' = patient
    BY <1>3 DEF FlushPacket, budget
  <2>2. lost => lost'
    BY <1>1, <1>3 DEF FlushPacket
  <2>. QED
    BY <2>1, <2>2
<1>4. CASE CloseFile
  BY <1>4 DEF CloseFile, file, budget
<1>5. CASE Open
  BY <1>5 DEF Open
<1>6. CASE UNCHANGED <<patient, lost>>
  BY <1>6
<1>. QED
  BY <1>2, <1>3, <1>4, <1>5, <1>6
  DEF Next, SourceSteps, UserSteps, Offer, OfferUnlinked, AppendPacket, Subscribe,
      SubscribeEnds, Unsubscribe, Flush, Close, Destroy, FlushEnds, calls, budget, file,
      vars

\* Each step of such a user, and of the sources, keeps that.
LEMMA PatientStep ==
  ASSUME TypeOK, Patient, [Next]_vars
  PROVE  Patient'
<1>1. ASSUME NEW s \in Sources, Offer(s) PROVE Patient'
  BY <1>1 DEF Offer, Patient, SourcesDone, file, calls, budget
<1>2. ASSUME NEW s \in Sources, OfferUnlinked(s) PROVE Patient'
  BY <1>2 DEF OfferUnlinked, Patient, SourcesDone, file, calls, budget
<1>3. ASSUME NEW s \in Sources, pc[s] # "idle", state' = state, UNCHANGED <<user, patient>>
      PROVE  Patient'
  BY <1>3 DEF Patient, SourcesDone
<1>4. ASSUME NEW s \in Sources, AppendPacket(s) PROVE Patient'
  BY <1>3, <1>4 DEF AppendPacket, file, calls, budget
<1>5. ASSUME NEW s \in Sources, Evict(s) PROVE Patient'
  <2>1. state' = state
    BY <1>5, WriteEffects DEF Evict
  <2>. QED
    BY <1>3, <1>5, <2>1 DEF Evict, calls, budget
<1>6. ASSUME NEW s \in Sources, Subscribe(s) \/ SubscribeEnds(s) PROVE Patient'
  BY <1>6 DEF Subscribe, SubscribeEnds, UserCalls, Patient, SourcesDone, file, budget
<1>7. CASE Unsubscribe \/ Flush
  BY <1>7 DEF Unsubscribe, Flush, Patient, SourcesDone, file, budget
<1>8. CASE Open
  <2>1. state # "OPEN" /\ user = "idle" /\ UNCHANGED <<patient, user, buffer, pc>>
    BY <1>8 DEF Open
  <2>. QED
    BY <2>1 DEF Patient, SourcesDone
<1>9. CASE Close \/ Destroy
  BY <1>9 DEF Close, Destroy, UserCalls, Patient, SourcesDone, file, budget
<1>10. CASE FlushPacket
  <2>1. /\ state' = state /\ UNCHANGED <<patient, pc>> /\ buffer # <<>>
        /\ user \in {"flush", "closeFlush"} /\ user' \in {user, "idle"}
    BY <1>10, WriteEffects DEF FlushPacket, InFlush, budget
  <2>. QED
    BY <2>1 DEF Patient, SourcesDone
<1>11. CASE FlushEnds
  BY <1>11 DEF FlushEnds, FlushReturns, InFlush, Patient, SourcesDone, file, budget
<1>12. CASE CloseFile
  <2>1. /\ user = "closeFile" /\ user' \in {"destroyed", "idle"}
        /\ UNCHANGED <<patient, buffer, pc>>
    BY <1>12 DEF CloseFile, CloseReturns, budget
  <2>. QED
    BY <2>1 DEF Patient, SourcesDone
<1>13. CASE UNCHANGED vars
  BY <1>13 DEF vars, Patient, SourcesDone
<1>. QED
  BY <1>1, <1>2, <1>4, <1>5, <1>6, <1>7, <1>8, <1>9, <1>10, <1>11, <1>12, <1>13
  DEF Next, SourceSteps, UserSteps

\* Each write, and each new file, keeps that.
LEMMA FramedStep ==
  ASSUME TypeOK, Framed, Running', [Next]_vars
  PROVE  Framed'
<1>1. ASSUME NEW p \in Packet, WriteOk(p) \/ WriteFails \/ WriteCrashes(crashed')
      PROVE  Framed'
  <2>1. CASE WriteOk(p) /\ written' = Extend(written, p) /\ lost' = lost
    <3>1. state' = "OPEN" /\ streamStart' = FALSE /\ header' = TRUE
      BY <2>1 DEF WriteOk
    <3>2. p.source \in Sources /\ Len(written'[p.source]) > 0
      <4>1. written \in [Sources -> Seq(Nat)]
        BY DEF TypeOK
      <4>2. /\ p.source \in Sources /\ Len(written[p.source]) \in Nat
            /\ Len(Extend(written, p)[p.source]) = Len(written[p.source]) + 1
        BY <4>1, ExtendFile
      <4>. QED
        BY <2>1, <4>2
    <3>3. \E s \in Sources : written'[s] # <<>>
      BY <3>2
    <3>. QED
      BY <3>1, <3>3 DEF Framed
  <2>2. CASE lost' = TRUE
    BY <2>2 DEF Framed
  <2>. QED
    BY <1>1, <2>1, <2>2, WriteEffects DEF Running
<1>2. ASSUME NEW s \in Sources, Evict(s) PROVE Framed'
  <2>1. Append(buffer, Held(s)) \in Seq(Packet) /\ Append(buffer, Held(s)) # <<>>
    BY HeldType, AppendProperties DEF TypeOK, BufferTypes
  <2>2. Head(Append(buffer, Held(s))) \in Packet
    BY <2>1, PopQueue
  <2>. QED
    BY <1>1, <1>2, <2>2 DEF Evict
<1>3. CASE FlushPacket
  <2>1. Head(buffer) \in Packet
    BY <1>3, PopQueue DEF FlushPacket, TypeOK
  <2>. QED
    BY <1>1, <1>3, <2>1 DEF FlushPacket
<1>4. CASE CloseFile
  <2>1. CASE state = "OPEN" /\ lost' # TRUE
    <3>1. /\ state' = "CLOSED" /\ streamStart' = TRUE
          /\ trailer' = (~streamStart /\ header) /\ UNCHANGED <<written, lost>>
      BY <1>4, <2>1 DEF CloseFile
    <3>2. ~lost => /\ header <=> ~streamStart
                   /\ header <=> \E s \in Sources : written[s] # <<>>
      BY <2>1 DEF Framed
    <3>3. ~lost => (trailer' <=> \E s \in Sources : written[s] # <<>>)
      BY <3>1, <3>2
    <3>. QED
      BY <3>1, <3>3 DEF Framed
  <2>2. CASE state # "OPEN"
    BY <1>4, <2>2 DEF CloseFile, Framed, file
  <2>3. CASE lost' = TRUE
    BY <2>3 DEF Framed
  <2>. QED
    BY <2>1, <2>2, <2>3
<1>5. CASE Open
  <2>1. CASE /\ state' = "OPEN" /\ header' = FALSE /\ written' = [s \in Sources |-> <<>>]
             /\ UNCHANGED <<streamStart, lost>>
    <3>1. state # "OPEN"
      BY <1>5 DEF Open
    <3>2. ~\E s \in Sources : written'[s] # <<>>
      BY <2>1
    <3>3. ~lost' => streamStart' = TRUE
      BY <2>1, <3>1 DEF Framed, TypeOK
    <3>. QED
      BY <2>1, <3>2, <3>3 DEF Framed
  <2>2. CASE state' = "ERROR" /\ UNCHANGED <<streamStart, lost>>
    BY <1>5, <2>2 DEF Open, Framed
  <2>. QED
    BY <1>5, <2>1, <2>2 DEF Open
<1>6. CASE UNCHANGED file
  BY <1>6 DEF file, Framed
<1>. QED
  BY <1>2, <1>3, <1>4, <1>5, <1>6
  DEF Next, SourceSteps, UserSteps, Offer, OfferUnlinked, AppendPacket, Subscribe,
      SubscribeEnds, Unsubscribe, Flush, Close, Destroy, FlushEnds, vars, file

\* The process met the slot that a failed subscribe() left, in an open file.
SlotCrash ==
  /\ crashed = "noStream" /\ state = "OPEN"
  /\ \E s \in Sources : linked[s] = "failed"

\* A user who waits for the sources gets no step past libavformat that crashes
\* it, as long as no write failed, but that.
LEMMA CrashStep ==
  ASSUME TypeOK, Running, Patient, Connecting, Framed, [Next]_vars, patient,
         ~lost'
  PROVE  Running' \/ SlotCrash'
<1>0. ~lost /\ patient' = patient
  BY StaysSo
<1>1. ~WriteFails
  BY DEF WriteFails
<1>2. state = "OPEN" => ~WriteCrashes(crashed')
  BY <1>0 DEF WriteCrashes, Framed
<1>3. ASSUME NEW s \in Sources, Evict(s) PROVE Running'
  <2>1. state = "OPEN"
    BY <1>3 DEF Evict, Patient, SourcesDone
  <2>. QED
    BY <1>1, <1>2, <1>3, <2>1 DEF Evict, Running
<1>4. CASE FlushPacket
  <2>1. state = "OPEN"
    BY <1>4 DEF FlushPacket, Patient
  <2>. QED
    BY <1>1, <1>2, <1>4, <2>1 DEF FlushPacket, Running
<1>5. ASSUME NEW s \in Sources, SubscribeEnds(s) PROVE Running'
  <2>1. streamStart
    BY <1>5 DEF SubscribeEnds, Patient
  <2>. QED
    BY <1>5, <2>1 DEF SubscribeEnds, Running
<1>6. CASE CloseFile
  <2>1. CASE state = "OPEN"
    <3>1. header <=> ~streamStart
      BY <1>0, <2>1 DEF Framed
    <3>. QED
      BY <1>6, <2>1, <3>1 DEF CloseFile, Running
  <2>2. CASE state # "OPEN"
    BY <1>6, <2>2 DEF CloseFile, Running
  <2>. QED
    BY <2>1, <2>2
<1>7. ASSUME NEW s \in Sources, OfferUnlinked(s) PROVE SlotCrash'
  <2>1. /\ user # "subscribe" /\ state = "OPEN"
        /\ linked[s] \in {"connecting", "failed"}
    BY <1>7 DEF OfferUnlinked
  <2>2. linked[s] = "failed"
    BY <2>1 DEF Connecting
  <2>. QED
    BY <1>7, <2>1, <2>2 DEF OfferUnlinked, SlotCrash, file, calls
<1>8. CASE UNCHANGED crashed
  BY <1>8 DEF Running
<1>. QED
  BY <1>3, <1>4, <1>5, <1>6, <1>7, <1>8
  DEF Next, SourceSteps, UserSteps, Offer, AppendPacket, Subscribe, Unsubscribe, Open,
      Flush, Close, Destroy, FlushEnds, vars

\* A process that crashed moves no more.
LEMMA RunningMoves == [Next]_vars => Running \/ UNCHANGED vars
BY DEF Next, SourceSteps, UserSteps, Offer, OfferUnlinked, AppendPacket, Evict,
       Subscribe, UserCalls, SubscribeEnds, Unsubscribe, Open, Flush, Close,
       Destroy, FlushPacket, FlushEnds, InFlush, CloseFile

\* Both hold as long as no step crashed.
LEMMA PatientInv == Spec => [](Running => Patient /\ Framed)
<1>1. Init => Patient /\ Framed
  BY DEF Init, Patient, Framed, SourcesDone
<1>2. TypeOK /\ (Running => Patient /\ Framed) /\ [Next]_vars
        => (Running => Patient /\ Framed)'
  <2>. SUFFICES ASSUME TypeOK, Running => Patient /\ Framed, [Next]_vars, Running'
                PROVE  Patient' /\ Framed'
    OBVIOUS
  <2>1. Running
    BY RunningMoves DEF Running, vars
  <2>. QED
    BY <2>1, PatientStep, FramedStep
<1>. QED
  BY <1>1, <1>2, MuxerTypes, PTL DEF Spec

\* How such a user's process may end.
Ending == patient /\ ~lost => Running \/ SlotCrash

\* It ends in no other way, and then nothing moves any more.
LEMMA EndingInv == Spec => []Ending
<1>1. Init => Ending
  BY DEF Init, Ending, Running
<1>2. TypeOK /\ (Running => Patient /\ Framed) /\ Connecting /\ Ending /\ [Next]_vars
        => Ending'
  <2>. SUFFICES ASSUME TypeOK, Running => Patient /\ Framed, Connecting, Ending,
                       [Next]_vars, patient', ~lost'
                PROVE  Running' \/ SlotCrash'
    BY DEF Ending
  <2>1. patient /\ ~lost
    BY StaysSo
  <2>2. CASE Running
    BY <2>1, <2>2, CrashStep
  <2>3. CASE ~Running
    <3>1. UNCHANGED vars
      BY <2>3, RunningMoves
    <3>. QED
      BY <2>1, <2>3, <3>1 DEF Ending, SlotCrash, vars
  <2>. QED
    BY <2>2, <2>3
<1>. QED
  BY <1>1, <1>2, MuxerTypes, PatientInv, ConnectingInv, PTL DEF Spec

\* A user who waits for the sources never brings the process down while every
\* write succeeds, but through the slot of a subscribe() that threw: libavformat
\* sees no packet or trailer without a header, no packet for a closed file and no
\* new stream behind the header.
THEOREM CrashCorrect == Spec => []NeverCrashes
<1>1. Ending => NeverCrashes
  BY DEF Ending, NeverCrashes, Running, SlotCrash
<1>. QED
  BY <1>1, EndingInv, PTL

\* Closed by a user who waits for the sources, the file has every packet handed
\* over since it was opened, and its trailer: for every number of them.
THEOREM ClosedCorrect == Spec => []ClosedComplete
<1>1. TypeOK /\ Ending /\ (Running => Following) /\ (Running => Patient /\ Framed)
        => ClosedComplete
  <2>. SUFFICES ASSUME TypeOK, Ending, Running => Following,
                       Running => Patient /\ Framed,
                       patient, state = "CLOSED", ~lost
                PROVE  /\ \A s \in Sources : base[s] + Len(written[s]) = count[s]
                       /\ trailer <=> \E s \in Sources : written[s] # <<>>
    BY DEF ClosedComplete
  <2>1. Following /\ Patient /\ Framed
    BY DEF Ending, SlotCrash
  <2>2. SourcesDone /\ buffer = <<>>
    BY <2>1 DEF Patient
  <2>3. ASSUME NEW s \in Sources PROVE base[s] + Len(written[s]) = count[s]
    <3>1. Joined[s] = count[s] /\ count[s] \in Nat
      BY <2>2 DEF Joined, SourcesDone, TypeOK
    <3>2. base[s] \in Nat /\ Len(written[s]) \in Nat /\ Len(buffer) = 0
      BY <2>2, LenProperties DEF TypeOK
    <3>3. /\ base[s] + Len(written[s]) <= count[s]
          /\ \A n \in Nat : base[s] + Len(written[s]) < n /\ n <= count[s]
                              => \E i \in 1..Len(buffer) :
                                   buffer[i] = [source |-> s, n |-> n]
      BY <2>1, <3>1 DEF Following, Whole
    <3>4. ~(base[s] + Len(written[s]) < count[s])
      BY <3>1, <3>2, <3>3
    <3>. QED
      BY <3>1, <3>2, <3>3, <3>4
  <2>4. trailer <=> \E s \in Sources : written[s] # <<>>
    BY <2>1 DEF Framed
  <2>. QED
    BY <2>3, <2>4
<1>. QED
  BY <1>1, MuxerTypes, EndingInv, FollowingInv, PatientInv, PTL
=============================================================================
