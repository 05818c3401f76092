-------------------------- MODULE MCImplicitProducer --------------------------
\* Model values for the runs of ImplicitProducer.
EXTENDS ImplicitProducer, TLC

Symmetry == Permutations(Consumer) \cup Permutations(Block)
=============================================================================
