---------------------------- MODULE MCTranscode ----------------------------
(* An instance of Transcode for TLC: packets of one, two, one, ... frames. *)
EXTENDS Transcode
OneOrTwo == [p \in 0..MaxPackets |-> (3 * p) \div 2]
=============================================================================
