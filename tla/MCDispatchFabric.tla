-------------------------- MODULE MCDispatchFabric --------------------------
(* Symmetry of DispatchFabric's constants for TLC. *)
EXTENDS DispatchFabric, TLC

WorkerSymmetry == Permutations(Workers)
RequestSymmetry == Permutations(Workers) \cup Permutations(Dispatches)
=============================================================================
