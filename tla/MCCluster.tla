----------------------------- MODULE MCCluster -----------------------------
(* Instances of Cluster: clients that may propose the same ids. *)
EXTENDS Cluster

ClashingStreams == {{1}, {2}}
=============================================================================
