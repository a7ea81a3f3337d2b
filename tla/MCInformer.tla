------------------------------ MODULE MCInformer ------------------------------
(* Instances of the Kubernetes event informer for TLC. *)
EXTENDS Informer, TLC

Symmetry == Permutations(Replicas)
===============================================================================
