----------------------------- MODULE MCK8sAdapter -----------------------------
EXTENDS K8sAdapter, TLC

Symmetry == Permutations(Ids) \cup Permutations(Calls)

=============================================================================
