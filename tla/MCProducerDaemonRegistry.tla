---------------------- MODULE MCProducerDaemonRegistry ----------------------
(* The registry for TLC; callers and names are interchangeable. *)
EXTENDS ProducerDaemonRegistry, TLC

RegistrySymmetry == Permutations(Callers) \cup Permutations(Names)

=============================================================================
