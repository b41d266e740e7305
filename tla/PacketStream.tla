---------------------------- MODULE PacketStream ----------------------------
(***************************************************************************)
(* What the transport promises a consumer, abstractly: the packets of each *)
(* job are handed over one at a time, in the order they were sent, none    *)
(* lost and none repeated.  A packet is its position in its job's stream.  *)
(***************************************************************************)
EXTENDS Integers, Sequences

CONSTANTS Jobs

VARIABLES
  sent,       \* packets of each job that entered the transport
  delivered   \* the packets of each job handed to its consumer, in order

Init == sent = [j \in Jobs |-> 0] /\ delivered = [j \in Jobs |-> <<>>]

\* Any number of packets of j enters at once: whole segments travel.
Send(j) ==
  /\ sent'[j] > sent[j] /\ sent' = [sent EXCEPT ![j] = sent'[j]]
  /\ UNCHANGED delivered

Deliver(j) ==
  /\ Len(delivered[j]) < sent[j]
  /\ delivered' = [delivered EXCEPT ![j] = Append(@, Len(@) + 1)]
  /\ UNCHANGED sent

Next == \E j \in Jobs : Send(j) \/ Deliver(j)

Spec == Init /\ [][Next]_<<sent, delivered>>
=============================================================================
