-------------------------- MODULE MCProducerDaemon --------------------------
(* ProducerDaemon instantiated for TLC; the writers are interchangeable. *)
EXTENDS ProducerDaemon, TLC

WriterSymmetry == Permutations(Writers)

=============================================================================
