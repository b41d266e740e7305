--------------------------- MODULE SegmentUnpacker ---------------------------
(***************************************************************************)
(* fr::media2::SegmentUnpacker: a pool of workers takes segments off a     *)
(* deque and forwards their packets to the Stream the StreamCache holds    *)
(* for the segment's job, calling setupStream when the cache misses.  The  *)
(* subscriber's thread feeds the deque, a user thread closes the unpacker, *)
(* the cache's own thread expires entries.  workMutex covers one push or   *)
(* one take and is never held across a step, so those are single actions;  *)
(* empty() and size() are read without it.                                 *)
(***************************************************************************)
EXTENDS Integers, Sequences, FiniteSets

CONSTANTS
  Workers, Jobs,
  Pools,            \* the sets of workers an unpacker may be made with
  PacketsPerSegment,
  MaxSegments,      \* bound on the segments received per job
  MaxExpired        \* bound: no cache entry expires after so many Streams
                    \* were made

ASSUME UnpackerAssumption ==
  /\ IsFiniteSet(Workers) /\ "none" \notin Jobs
  /\ Pools \subseteq SUBSET Workers /\ {} \notin Pools
  /\ PacketsPerSegment \in Nat \ {0} /\ MaxSegments \in Nat
  /\ MaxExpired \in Nat

Segment == [job : Jobs, n : Nat]
NoSegment == [job |-> "none", n |-> 0]

VARIABLES
  pool,       \* the workers of this unpacker
  received,   \* segments of each job handed to receive() so far
  arriving,   \* the segment the subscriber's thread is in receive() with
  connected,  \* is the unpacker subscribed to the subscriber?
  work,       \* the deque
  shutdownFlag,
  closer,     \* the user thread: "open", "flagged", "joining" or "closed"
  late,       \* ghost: the segment that was in receive() when close() began
  pc,         \* where each worker is
  seg,        \* the segment each worker holds
  stream,     \* the Stream each worker forwards to, 0 for nullptr
  packet,     \* packets of its segment each worker has forwarded
  cache,      \* the StreamCache: job -> Stream, 0 for a miss
  made,       \* Streams the cache has made
  subscribed, \* how often setupStream was called with each Stream
  out,        \* the packets each job's consumer received, by position
  crashed     \* "no", or what the process died of: "null" is unpack(nullptr),
              \* "sweep" the cache's use of an entry it erased

vars == <<pool, received, arriving, connected, work, shutdownFlag, closer, late,
          pc, seg, stream, packet, cache, made, subscribed, out, crashed>>
input == <<received, arriving, connected>>
closing == <<pool, shutdownFlag, closer, late>>
streams == <<cache, made>>

TypeOK ==
  /\ pool \in Pools
  /\ received \in [Jobs -> 0..MaxSegments]
  /\ {arriving, late} \subseteq Segment \cup {NoSegment}
  /\ connected \in BOOLEAN /\ shutdownFlag \in BOOLEAN
  /\ crashed \in {"no", "null", "sweep"}
  /\ work \in Seq(Segment)
  /\ closer \in {"open", "flagged", "joining", "closed"}
  /\ pc \in [Workers -> {"check", "take", "lookup", "create", "setup",
                         "forward", "exited"}]
  /\ seg \in [Workers -> Segment \cup {NoSegment}]
  /\ stream \in [Workers -> 0..made]
  /\ packet \in [Workers -> 0..PacketsPerSegment]
  /\ cache \in [Jobs -> 0..made] /\ made \in Nat
  /\ subscribed \in [1..made -> Nat]
  /\ out \in [Jobs -> Seq(Nat)]

Init ==
  /\ pool \in Pools
  /\ received = [j \in Jobs |-> 0] /\ arriving = NoSegment
  /\ connected = TRUE /\ work = <<>>
  /\ shutdownFlag = FALSE /\ closer = "open" /\ late = NoSegment
  /\ pc = [w \in Workers |-> "check"]
  /\ seg = [w \in Workers |-> NoSegment]
  /\ stream = [w \in Workers |-> 0] /\ packet = [w \in Workers |-> 0]
  /\ cache = [j \in Jobs |-> 0] /\ made = 0 /\ subscribed = <<>>
  /\ out = [j \in Jobs |-> <<>>] /\ crashed = "no"

-----------------------------------------------------------------------------
(* The subscriber's thread and the cache's thread. *)

Running == crashed = "no"

\* The signal runs the slot of a connected unpacker; a disconnect does not
\* wait for a slot that is running.
Arrive(j) ==
  /\ Running /\ connected /\ arriving = NoSegment /\ received[j] < MaxSegments
  /\ received' = [received EXCEPT ![j] = @ + 1]
  /\ arriving' = [job |-> j, n |-> received[j] + 1]
  /\ UNCHANGED <<connected, work, closing, pc, seg, stream, packet, streams,
                 subscribed, out, crashed>>

Push ==
  /\ Running /\ arriving # NoSegment
  /\ work' = Append(work, arriving) /\ arriving' = NoSegment
  /\ UNCHANGED <<received, connected, closing, pc, seg, stream, packet,
                 streams, subscribed, out, crashed>>

\* The sweep erases an entry and walks on from it, see StreamCache.
Expire(j) ==
  /\ Running /\ made <= MaxExpired /\ cache[j] # 0
  /\ cache' = [cache EXCEPT ![j] = 0]
  /\ crashed' \in {"no", "sweep"}
  /\ UNCHANGED <<input, work, closing, pc, seg, stream, packet, made,
                 subscribed, out>>

-----------------------------------------------------------------------------
(* A worker: doSomeWork() and unpack(). *)

At(w, where) == pc[w] = where /\ Running
Goto(w, where) == pc' = [pc EXCEPT ![w] = where]

\* Mutant: the loop runs until the flag is set, whatever is left to do.
CheckFlagOnly(w) ==
  /\ At(w, "check")
  /\ \/ work # <<>> /\ ~shutdownFlag /\ Goto(w, "take")
     \/ shutdownFlag /\ Goto(w, "exited")
  /\ UNCHANGED <<input, work, closing, seg, stream, packet, streams,
                 subscribed, out, crashed>>

\* The loop condition and the unlocked empty(): go and take, leave, or sleep.
Check(w) ==
  /\ At(w, "check")
  /\ \/ work # <<>> /\ Goto(w, "take")
     \/ work = <<>> /\ shutdownFlag /\ Goto(w, "exited")
  /\ UNCHANGED <<input, work, closing, seg, stream, packet, streams,
                 subscribed, out, crashed>>

\* Mutant: the segment is popped from the back.
TakeBack(w) ==
  /\ At(w, "take")
  /\ IF work = <<>>
     THEN crashed' = "null" /\ UNCHANGED <<pc, seg, work>>
     ELSE /\ seg' = [seg EXCEPT ![w] = work[Len(work)]]
          /\ work' = SubSeq(work, 1, Len(work) - 1)
          /\ Goto(w, "lookup") /\ UNCHANGED crashed
  /\ UNCHANGED <<input, closing, stream, packet, streams, subscribed, out>>

\* The locked double check: an empty deque leaves seg null, and unpack is
\* called with it all the same.
Take(w) ==
  /\ At(w, "take")
  /\ IF work = <<>>
     THEN crashed' = "null" /\ UNCHANGED <<pc, seg, work>>
     ELSE /\ seg' = [seg EXCEPT ![w] = Head(work)] /\ work' = Tail(work)
          /\ Goto(w, "lookup") /\ UNCHANGED crashed
  /\ UNCHANGED <<input, closing, stream, packet, streams, subscribed, out>>

\* cache->get(jobId)
Lookup(w) ==
  /\ At(w, "lookup")
  /\ stream' = [stream EXCEPT ![w] = cache[seg[w].job]]
  /\ Goto(w, IF cache[seg[w].job] = 0 THEN "create" ELSE "forward")
  /\ UNCHANGED <<input, work, closing, seg, packet, streams, subscribed, out,
                 crashed>>

\* cache->get(Segment*): makes a Stream unless another worker just did.
Create(w) ==
  /\ At(w, "create")
  /\ LET j == seg[w].job IN
       IF cache[j] # 0
       THEN /\ stream' = [stream EXCEPT ![w] = cache[j]]
            /\ UNCHANGED <<streams, subscribed>>
       ELSE /\ stream' = [stream EXCEPT ![w] = made + 1]
            /\ cache' = [cache EXCEPT ![j] = made + 1] /\ made' = made + 1
            /\ subscribed' = Append(subscribed, 0)
  /\ Goto(w, "setup")
  /\ UNCHANGED <<input, work, closing, seg, packet, out, crashed>>

\* setupStream subscribes the consumer of the job to the Stream.
Setup(w) ==
  /\ At(w, "setup")
  /\ subscribed' = [subscribed EXCEPT ![stream[w]] = @ + 1]
  /\ Goto(w, "forward")
  /\ UNCHANGED <<input, work, closing, seg, stream, packet, streams, out,
                 crashed>>

Position(segment, p) == (segment.n - 1) * PacketsPerSegment + p

\* Mutant: the last packet of a segment is skipped.
ForwardFew(w) ==
  /\ At(w, "forward")
  /\ LET s == seg[w]  p == packet[w] + 1 IN
       IF p = PacketsPerSegment
       THEN /\ Goto(w, "check")
            /\ packet' = [packet EXCEPT ![w] = 0]
            /\ seg' = [seg EXCEPT ![w] = NoSegment]
            /\ stream' = [stream EXCEPT ![w] = 0] /\ UNCHANGED out
       ELSE /\ out' = [out EXCEPT ![s.job] =
                         @ \o [i \in 1..subscribed[stream[w]]
                                 |-> Position(s, p)]]
            /\ packet' = [packet EXCEPT ![w] = p]
            /\ UNCHANGED <<pc, seg, stream>>
  /\ UNCHANGED <<input, work, closing, streams, subscribed, crashed>>

\* stream->forward(packet): every subscription of the Stream receives it.
Forward(w) ==
  /\ At(w, "forward")
  /\ LET s == seg[w]  p == packet[w] + 1 IN
       /\ out' = [out EXCEPT ![s.job] =
                    @ \o [i \in 1..subscribed[stream[w]] |-> Position(s, p)]]
       /\ IF p = PacketsPerSegment
          THEN /\ Goto(w, "check")
               /\ packet' = [packet EXCEPT ![w] = 0]
               /\ seg' = [seg EXCEPT ![w] = NoSegment]
               /\ stream' = [stream EXCEPT ![w] = 0]
          ELSE /\ packet' = [packet EXCEPT ![w] = p]
               /\ UNCHANGED <<pc, seg, stream>>
  /\ UNCHANGED <<input, work, closing, streams, subscribed, crashed>>

-----------------------------------------------------------------------------
(* The user thread: close(). *)

\* unsubscribe() and the flag; nothing the workers do tells them apart.
Close ==
  /\ Running /\ closer = "open"
  /\ connected' = FALSE /\ shutdownFlag' = TRUE /\ closer' = "flagged"
  /\ late' = arriving
  /\ UNCHANGED <<pool, received, arriving, work, pc, seg, stream, packet,
                 streams, subscribed, out, crashed>>

\* Mutant: close() does not wait for the workers.
CloseNoJoin ==
  /\ Running /\ closer = "joining"
  /\ closer' = "closed"
  /\ UNCHANGED <<pool, input, work, shutdownFlag, late, pc, seg, stream,
                 packet, streams, subscribed, out, crashed>>

\* The polling loop sees an empty deque.
CloseDrained ==
  /\ Running /\ closer = "flagged" /\ work = <<>>
  /\ closer' = "joining"
  /\ UNCHANGED <<pool, input, work, shutdownFlag, late, pc, seg, stream,
                 packet, streams, subscribed, out, crashed>>

CloseJoin ==
  /\ Running /\ closer = "joining" /\ \A w \in pool : pc[w] = "exited"
  /\ closer' = "closed"
  /\ UNCHANGED <<pool, input, work, shutdownFlag, late, pc, seg, stream,
                 packet, streams, subscribed, out, crashed>>

Work(w) == Check(w) \/ Take(w) \/ Lookup(w) \/ Create(w) \/ Setup(w)
             \/ Forward(w)

Next == \/ \E j \in Jobs : Arrive(j) \/ Expire(j)
        \/ \E w \in pool : Work(w)
        \/ Push \/ Close \/ CloseDrained \/ CloseJoin

Spec == Init /\ [][Next]_vars

\* Every thread is scheduled; arrivals, expiry and close() may never happen.
FairSpec == /\ Spec /\ \A w \in Workers : WF_vars(w \in pool /\ Work(w))
            /\ WF_vars(Push) /\ WF_vars(CloseDrained \/ CloseJoin)

-----------------------------------------------------------------------------
(* Properties. *)

\* Whatever the pool, every segment goes to one worker, and those of a job in
\* the order they were received: what is in receive() is younger than what is
\* queued, which is in order and younger than what any worker holds, however
\* late it is, and no two workers hold one segment (SegmentUnpacker.cpp:77-107).
TakenInOrder ==
  /\ \A b \in 1..Len(work) :
       /\ arriving.job = work[b].job => work[b].n < arriving.n
       /\ \A a \in 1..(b - 1) :
            work[a].job = work[b].job => work[a].n < work[b].n
       /\ \A w \in Workers : seg[w].job = work[b].job => seg[w].n < work[b].n
  /\ \A v, w \in Workers :
       v # w /\ seg[v] # NoSegment => seg[v] # seg[w] /\ seg[v] # arriving

\* With one worker "processing should be linear" (Transport.cpp:118-119): such
\* an unpacker implements PacketStream, whatever the cache expires.
Linearly == Cardinality(pool) = 1
Packets == INSTANCE PacketStream WITH
  sent <- [j \in Jobs |->
             IF Linearly THEN received[j] * PacketsPerSegment ELSE 0],
  delivered <- [j \in Jobs |-> IF Linearly THEN out[j] ELSE <<>>]
Linear == Packets!Spec

\* With one worker all the packets of every segment are delivered in the end,
\* closed or not. Two things excuse it: that the cache's sweep brought the
\* process down, and that close() began while the segment was in receive(), after
\* which none is received.
Due(j) == PacketsPerSegment * (received[j] - (IF late.job = j THEN 1 ELSE 0))
Delivered ==
  []<>(Linearly => crashed = "sweep" \/ \A j \in Jobs : Len(out[j]) >= Due(j))

\* close() "will unsubscribe to new messages, process any remaining work and
\* shut down" (SegmentUnpacker.h:59-60): when it returns, everything that was
\* received has been processed, but for the segment in receive() when it began,
\* which may be there still, or left in the deque.
CloseDrains ==
  closer = "closed" =>
    /\ work \in {<<>>, <<late>>} /\ arriving \in {NoSegment, late}
    /\ \A w \in Workers : seg[w] = NoSegment

\* close() returns, unless the process dies or that segment enters the deque
\* when the last worker has left: then close() polls for ever.
Stranded == work = <<late>> /\ \A w \in pool : pc[w] = "exited"
CloseTerminates ==
  closer = "flagged" ~> closer = "closed" \/ ~Running \/ Stranded

-----------------------------------------------------------------------------
(* What comments promise and the code does not keep: no run checks these, see
   the README. *)

\* "process any remaining work and shut down" (SegmentUnpacker.h:59-60), with no
\* exception made for the segment in receive() when close() begins.
ClosesAll ==
  closer = "closed" =>
    work = <<>> /\ arriving = NoSegment /\ \A w \in Workers : seg[w] = NoSegment
CloseReturns == closer = "flagged" ~> closer = "closed" \/ ~Running

\* "Doublecheck work empty now that it's locked" (SegmentUnpacker.cpp:97): no
\* worker unpacks a segment that is not there.
NeverNull == crashed # "null"

\* "set up subscriptions if we get a cache miss" (SegmentUnpacker.h:48): a
\* Stream is set up once, and before packets are forwarded to it.
SetUpOnce ==
  /\ \A s \in 1..made : subscribed[s] <= 1
  /\ \A w \in Workers : pc[w] = "forward" => subscribed[stream[w]] >= 1

\* "It will start a thread for each stream it's handling"
\* (SegmentUnpacker.h:19-20): no two workers unpack the same stream.
ThreadPerStream ==
  \A v, w \in Workers :
    v # w /\ seg[v] # NoSegment => seg[v].job # seg[w].job
=============================================================================
