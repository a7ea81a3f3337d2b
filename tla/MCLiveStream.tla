----------------------------- MODULE MCLiveStream -----------------------------
(* Instances of the live event stream for TLC. *)
EXTENDS LiveStream, TLC

Symmetry == Permutations(Clients) \cup Permutations(Replicas)
===============================================================================
