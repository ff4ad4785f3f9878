-------------------------- MODULE MCKeeneticClient --------------------------
(* Instances of KeeneticClient for TLC. *)
EXTENDS KeeneticClient, TLC

Symmetry == Permutations(Requests)

\* What the environment may do in the various runs.
Everything == FaultKinds \ {"open"}
Disruptions == {"timeout", "cancel"}
Anonymous == {"timeout", "open", "http"}
=============================================================================
