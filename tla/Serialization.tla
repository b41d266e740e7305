--------------------------- MODULE Serialization ---------------------------
(***************************************************************************)
(* Packets and segments in memory and on the wire: Packet::copy, class     *)
(* Segment, and the boost archives Serialization.h writes and reads them   *)
(* with.  An archive is the sequence of the values written: it has no tags *)
(* and no lengths but the ones written, so what a load makes of it depends *)
(* on reading exactly what save wrote.  A binary object is its bytes.      *)
(***************************************************************************)
EXTENDS Integers, Sequences

\* What is left of a packet when its side data was read past the end of the
\* array: undefined, so this stands for a process that is gone, for an empty
\* packet (av_packet_ref() may fail, and copy() does not look) and for garbage.
Overread == [overread |-> TRUE]

\* av_packet_ref() copies the bytes, the properties, and side_data_elems
\* elements of side data, however many there are.
PacketCopy(p) ==
  IF p.side_data_elems > Len(p.side_data) THEN Overread ELSE p

-----------------------------------------------------------------------------
(* Segments: jobId and parameters are the stream's, pts and dts those of the *)
(* first packet.                                                             *)

CreateSegment(jobId, parameters, time_base) ==
  [jobId |-> jobId, parameters |-> parameters, time_base |-> time_base,
   pts |-> 0, dts |-> 0, npackets |-> 0, packets |-> <<>>]

AppendTo(segment, p) ==
  [segment EXCEPT
     !.packets = Append(@, PacketCopy(p)), !.npackets = @ + 1,
     !.pts = IF segment.packets = <<>> THEN p.pts ELSE @,
     !.dts = IF segment.packets = <<>> THEN p.dts ELSE @]

AppendAll(segment, packets) ==
  LET filled[n \in 0..Len(packets)] ==
        IF n = 0 THEN segment ELSE AppendTo(filled[n - 1], packets[n])
  IN filled[Len(packets)]

NextOf(segment) ==
  CreateSegment(segment.jobId, segment.parameters, segment.time_base)

CopySegment(segment) ==
  AppendAll([NextOf(segment) EXCEPT !.pts = segment.pts, !.dts = segment.dts],
            segment.packets)

-----------------------------------------------------------------------------
(* What is written. *)

SaveSideData(d) == <<Len(d.bytes), d.type>> \o d.bytes

\* Of the side data, how many elements there are and the first of them, unless
\* side_data is null, which load does not ask.
SavePacket(p) ==
  <<p.pts, p.dts, Len(p.data)>> \o p.data
  \o <<p.stream_index, p.flags, p.side_data_elems>>
  \o (IF p.side_data_elems # 0 /\ p.side_data # <<>>
      THEN SaveSideData(p.side_data[1]) ELSE <<>>)
  \o <<p.duration, p.pos>>

\* "head" and "rest" stand for the plain fields before and after extradata.
SaveParameters(par) ==
  <<par.head, Len(par.extradata)>> \o par.extradata \o <<par.rest>>

SaveSegment(segment) ==
  LET saved[n \in 0..Len(segment.packets)] ==
        IF n = 0 THEN <<>> ELSE saved[n - 1] \o SavePacket(segment.packets[n])
  IN <<segment.jobId, segment.pts, segment.dts, segment.time_base>>
     \o SaveParameters(segment.parameters) \o <<segment.npackets>>
     \o saved[Len(segment.packets)]

-----------------------------------------------------------------------------
(* What is read: each load starts at a position of the archive and returns *)
(* what it read and the position it stopped at.                            *)

Bytes(ar, at, n) == SubSeq(ar, at, at + n - 1)

LoadSideData(ar, at) ==
  [value |-> [type |-> ar[at + 1], bytes |-> Bytes(ar, at + 2, ar[at])],
   at |-> at + 2 + ar[at]]

LoadPacket(ar, at) ==
  LET flags == at + 4 + ar[at + 2]
      elems == ar[flags + 1]
      side == IF elems > 0 THEN LoadSideData(ar, flags + 2)
              ELSE [value |-> <<>>, at |-> flags + 2]
  IN [value |-> [pts |-> ar[at], dts |-> ar[at + 1],
                 data |-> Bytes(ar, at + 3, ar[at + 2]),
                 stream_index |-> ar[flags - 1], flags |-> ar[flags],
                 side_data_elems |-> elems,
                 side_data |-> IF elems > 0 THEN <<side.value>> ELSE <<>>,
                 duration |-> ar[side.at], pos |-> ar[side.at + 1]],
      at |-> side.at + 2]

LoadParameters(ar, at) ==
  LET rest == at + 2 + ar[at + 1]
  IN [value |-> [head |-> ar[at], extradata |-> Bytes(ar, at + 2, ar[at + 1]),
                 rest |-> ar[rest]],
      at |-> rest + 1]

\* Mutant: the number of packets is read into the segment, and counted.
LoadHeadCounted(ar, at, par) ==
  [CreateSegment(ar[at], par.value, ar[at + 3])
     EXCEPT !.pts = ar[at + 1], !.dts = ar[at + 2], !.npackets = ar[par.at]]

\* All but the packets, into a segment just constructed.
LoadHead(ar, at, par) ==
  [CreateSegment(ar[at], par.value, ar[at + 3])
     EXCEPT !.pts = ar[at + 1], !.dts = ar[at + 2]]

\* append() counts the packets again, and takes pts and dts of the first.
LoadSegment(ar, at) ==
  LET par == LoadParameters(ar, at + 4)
      loaded[n \in 0..ar[par.at]] ==
        IF n = 0 THEN [value |-> LoadHead(ar, at, par), at |-> par.at + 1]
        ELSE LET p == LoadPacket(ar, loaded[n - 1].at)
             IN [value |-> AppendTo(loaded[n - 1].value, p.value), at |-> p.at]
  IN loaded[ar[par.at]]
=============================================================================
