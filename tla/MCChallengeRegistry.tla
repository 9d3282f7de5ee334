-------------------------- MODULE MCChallengeRegistry --------------------------
EXTENDS ChallengeRegistry, TLC

\* A challenge that does not speak the default protocol.
MCDefault == [a \in Attrs |-> "v1"]
MCProto   == [c \in Cids |-> "v2"]

Symmetry == Permutations(Clients)

=============================================================================
