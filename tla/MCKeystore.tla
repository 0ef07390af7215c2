----------------------------- MODULE MCKeystore ------------------------------
EXTENDS Keystore

Symmetry == Permutations(Calls)
=============================================================================
