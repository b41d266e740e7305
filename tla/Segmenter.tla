----------------------------- MODULE Segmenter -----------------------------
(***************************************************************************)
(* fr::media2::Segmenter, subscribed to one stream: it cuts the packets it *)
(* receives into segments and signals each one to its subscribers.  The    *)
(* packets arrive in the reader's worker thread; flush() and the           *)
(* destructor run in the user's, after the reader was joined, so the calls *)
(* do not overlap (currentSegmentMutex is declared and never locked).      *)
(***************************************************************************)
EXTENDS Integers, Sequences

CONSTANTS
  NFrames,     \* the constructor's nframes
  MaxPackets,  \* bound on the packets of the stream
  MaxFlushes   \* bound on the calls of flush()

ASSUME SegmenterAssumption ==
  NFrames \in Nat /\ MaxPackets \in Nat /\ MaxFlushes \in Nat

VARIABLES
  mediaType,      \* the stream's: video is cut at key frames, audio by count
  seen,           \* packets received; the n-th is the packet with pos = n
  created,        \* currentSegment # nullptr
  current,        \* the packets of currentSegment
  currentFrames,
  sent,           \* the segments signalled so far
  flushes,        \* calls of flush() so far
  status          \* "running", "threw" (no parameters, or no key frame first),
                  \* "nullSegment" (a null segment was signalled: the
                  \* publisher dereferences it) or "destroyed"

vars == <<mediaType, seen, created, current, currentFrames, sent, flushes,
          status>>

Packet == [pos : Nat, key : BOOLEAN]
Segment == Seq(Packet)

TypeOK ==
  /\ mediaType \in {"video", "audio"}
  /\ seen \in Nat /\ created \in BOOLEAN
  /\ current \in Segment /\ currentFrames \in Nat
  /\ sent \in Seq(Segment) /\ flushes \in Nat
  /\ status \in {"running", "threw", "nullSegment", "destroyed"}

Init ==
  /\ mediaType \in {"video", "audio"}
  /\ seen = 0 /\ created = FALSE /\ current = <<>> /\ currentFrames = 0
  /\ sent = <<>> /\ flushes = 0 /\ status = "running"

Next1(key) == [pos |-> seen + 1, key |-> key]

Receive ==
  /\ status = "running" /\ seen < MaxPackets
  /\ seen' = seen + 1 /\ UNCHANGED mediaType

\* The first packet creates the segment; a video stream that does not start
\* with a key frame makes process() throw.
FirstPacket(key) ==
  /\ Receive /\ ~created
  /\ created' = TRUE
  /\ IF mediaType = "video" /\ ~key
     THEN status' = "threw" /\ UNCHANGED <<current, currentFrames>>
     ELSE /\ current' = Append(current, Next1(key))
          /\ currentFrames' = currentFrames + 1
          /\ UNCHANGED status
  /\ UNCHANGED <<sent, flushes>>

\* A stream without parameters makes the first process() throw, before there is
\* a segment.
MissingParameters ==
  /\ Receive /\ ~created
  /\ status' = "threw"
  /\ UNCHANGED <<created, current, currentFrames, sent, flushes>>

\* Mutants: audio is cut one packet late; video is not cut at key frames.
CutLate(key) ==
  IF mediaType = "video" THEN key ELSE currentFrames > NFrames
CutByCount(key) == currentFrames >= NFrames

\* Does this packet start a segment?
Cut(key) == IF mediaType = "video" THEN key ELSE currentFrames >= NFrames

\* Mutant: the packet that cuts is lost.
NextSegmentLosesPacket(key) ==
  /\ Receive /\ created /\ Cut(key)
  /\ sent' = Append(sent, current)
  /\ current' = <<>> /\ currentFrames' = 0
  /\ UNCHANGED <<created, flushes, status>>

NextSegment(key) ==
  /\ Receive /\ created /\ Cut(key)
  /\ sent' = Append(sent, current)
  /\ current' = <<Next1(key)>> /\ currentFrames' = 1
  /\ UNCHANGED <<created, flushes, status>>

ExtendSegment(key) ==
  /\ Receive /\ created /\ ~Cut(key)
  /\ current' = Append(current, Next1(key))
  /\ currentFrames' = currentFrames + 1
  /\ UNCHANGED <<created, sent, flushes, status>>

\* flush() signals the current segment, null or not, and keeps it.
Signal(next) ==
  IF created
  THEN sent' = Append(sent, current) /\ status' = next
  ELSE status' = "nullSegment" /\ UNCHANGED sent

Flush ==
  /\ status = "running" /\ flushes < MaxFlushes
  /\ flushes' = flushes + 1
  /\ Signal("running")
  /\ UNCHANGED <<mediaType, seen, created, current, currentFrames>>

\* Mutant: the destructor does not flush.
DestroyQuietly ==
  /\ status = "running" /\ status' = "destroyed"
  /\ UNCHANGED <<mediaType, seen, created, current, currentFrames, sent,
                 flushes>>

\* The destructor flushes, too.
Destroy ==
  /\ status = "running"
  /\ Signal("destroyed")
  /\ UNCHANGED <<mediaType, seen, created, current, currentFrames, flushes>>

Next == \/ \E key \in BOOLEAN :
             FirstPacket(key) \/ NextSegment(key) \/ ExtendSegment(key)
        \/ MissingParameters \/ Flush \/ Destroy

Spec == Init /\ [][Next]_vars

-----------------------------------------------------------------------------
(* Properties. *)

GroupOfPictures(segment) ==
  \A i \in 1..Len(segment) : segment[i].key <=> i = 1

Positions(segment, first) ==
  \A i \in 1..Len(segment) : segment[i].pos = first + i - 1

\* The position of the last packet of the k-th segment sent.
End(k) == IF k = 0 THEN 0 ELSE sent[k][Len(sent[k])].pos

\* Until a flush repeats one, the segments partition the stream in order: each
\* continues where the one before it ended, none is empty, and the current one
\* reaches the last packet received (process() cuts, loses nothing).
Partition ==
  flushes = 0 /\ status = "running" =>
    /\ \A k \in 1..Len(sent) :
         sent[k] # <<>> /\ Positions(sent[k], End(k - 1) + 1)
    /\ Positions(current, End(Len(sent)) + 1)
    /\ seen = End(Len(sent)) + Len(current)

\* A video segment is one group of pictures: "from an iFrame to the next"
\* (Segmenter.h:17-18), however often it is flushed.
VideoShape ==
  mediaType = "video" =>
    /\ GroupOfPictures(current)
    /\ \A k \in 1..Len(sent) : GroupOfPictures(sent[k])

\* "Audio segments should just be a fixed number of packets" (Segmenter.h:19):
\* every segment process() cuts has NFrames of them (one when NFrames is 0).
AudioSize ==
  mediaType = "audio" /\ flushes = 0 /\ status = "running" =>
    /\ \A k \in 1..Len(sent) : Len(sent[k]) = IF NFrames = 0 THEN 1 ELSE NFrames
    /\ NFrames > 0 => Len(current) <= NFrames

\* Nothing received is missing from the segments once the segmenter is
\* destroyed, whatever flushes came before (~Segmenter calls flush()).
NoneLost ==
  status = "destroyed" =>
    \A n \in 1..seen :
      \E k \in 1..Len(sent) : \E i \in 1..Len(sent[k]) : sent[k][i].pos = n

-----------------------------------------------------------------------------
(* What comments promise and the code does not keep: no run checks these, see
   the README. *)

\* "you can just keep calling flush until the segment you receive returns true
\* when you call empty() on it" (Segmenter.cpp:32-33): the second of two
\* flushes in a row signals an empty segment.
FlushDrains ==
  [][flushes > 0 /\ flushes' = flushes + 1 /\ created
       => sent'[Len(sent')] = <<>>]_vars

\* "This will happily send an empty one" (Segmenter.cpp:32): a flush before
\* the first packet signals an empty segment, never a null one.
FlushNeverNull == status # "nullSegment"
=============================================================================
