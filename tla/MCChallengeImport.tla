--------------------------- MODULE MCChallengeImport ---------------------------
EXTENDS ChallengeImport

\* A challenge that does not speak the default protocol, with all the files.
MCDefault == [a \in Attrs |-> "v1"]
MCProto   == [c \in Cids |-> "v2"]
MCChalOf == [f \in Files |-> CHOOSE c \in Cids : TRUE]

=============================================================================
