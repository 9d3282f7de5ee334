----------------------------- MODULE MCInstances -----------------------------
EXTENDS Instances, TLC

\* Room for one instance, so that requests compete for it, or for all but one of
\* them, so that only the duplicate check stands between a team and two.
MCTight == [w \in Workers |-> 1]
MCRoomy == [w \in Workers |-> Cardinality(Ids) - 1]

Symmetry == Permutations(Ids) \cup Permutations(Procs) \cup Permutations(Workers)

=============================================================================
