---------------------------- MODULE MCSegmenter ----------------------------
(***************************************************************************)
(* Segmenter, and its segments on the wire: what a publisher subscribed to *)
(* it writes and the other end reads.  The bytes, the side data and the    *)
(* other fields of a packet vary with its position, the extradata with the *)
(* medium, so that each run of the stream has all of their combinations.   *)
(***************************************************************************)
EXTENDS Segmenter, Serialization

Wire(p) ==
  [pts |-> 10 * p.pos, dts |-> 10 * p.pos - 1,
   data |-> [i \in 1..p.pos % 3 |-> p.pos + i], stream_index |-> 3,
   flags |-> p.key, side_data_elems |-> p.pos % 4,
   side_data |-> [i \in 1..p.pos % 4 |->
                    [type |-> "side", bytes |-> [j \in 1..i - 1 |-> p.pos]]],
   duration |-> 2, pos |-> p.pos]

Parameters ==
  [head |-> mediaType, rest |-> "size",
   extradata |-> IF mediaType = "video" THEN <<7, 8>> ELSE <<>>]

\* The segment process() signals for these packets.
Signalled(segment) ==
  AppendAll(NextOf(CreateSegment("job", Parameters, "1/30")),
            [i \in 1..Len(segment) |-> Wire(segment[i])])

Sent == Signalled(sent[Len(sent)])
Received == LoadSegment(SaveSegment(Sent), 1)

\* Of side data one element is written: the copy that append() makes of a packet
\* with more reads past it.
Arrives(segment) ==
  [segment EXCEPT !.packets =
     [i \in 1..Len(@) |-> IF @[i].side_data_elems > 1 THEN Overread ELSE @[i]]]

\* Whatever was cut, the other end reads the archive to its end and has the
\* segment that was signalled, except for the packets with more than one element
\* of side data, which may cost it the process: the lengths and counts load
\* reads, and its test of side_data_elems, fit what save wrote of packets whose
\* side data is as long as they say, as libav's is.  A copy of a segment that
\* was not on the wire is what it copies.
SurvivesWire ==
  sent # <<>> =>
    /\ Received.value = Arrives(Sent)
    /\ Received.at = Len(SaveSegment(Sent)) + 1
    /\ CopySegment(Sent) = Sent

\* SerializationTest.cpp:72-73 compares a packet with what was read: no run
\* checks this one, see the README; a packet with two elements of side data is
\* not read back.
SideDataWhole == sent # <<>> => Received.value = Sent
=============================================================================
