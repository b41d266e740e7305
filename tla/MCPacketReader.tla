--------------------------- MODULE MCPacketReader ---------------------------
(* Instances of PacketReader for TLC: a file with one audio and one video   *)
(* stream.                                                                  *)
EXTENDS PacketReader

Entry(i, live) == [av |-> i, live |-> live]

\* Every stream has a decoder; the second one's codec may fail to open.
CompleteLayouts ==
  { <<Entry(1, TRUE), Entry(2, b)>> : b \in BOOLEAN }

\* Any codec may fail to open, and either stream may have no decoder in this
\* build of libavcodec.
AnyLayouts ==
  { <<Entry(1, a), Entry(2, b)>> : a, b \in BOOLEAN }
  \cup { <<Entry(i, a)>> : i \in 1..2, a \in BOOLEAN }

AllOps == {"open", "process", "pause", "unpause", "join", "reset", "destroy"}
PlayOps == {"process", "destroy"}
=============================================================================
