--------------------------- MODULE MCDockerAdapter ---------------------------
EXTENDS DockerAdapter, TLC

Symmetry == Permutations(Ids) \cup Permutations(Calls)

=============================================================================
