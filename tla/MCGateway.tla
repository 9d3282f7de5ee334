----------------------------- MODULE MCGateway -----------------------------
EXTENDS Gateway

CONSTANTS i1, i2, t1, t2

\* One instance per team, of which the second is that of a tcp challenge.
MCOwner == [i \in Ids |-> IF i = i1 THEN t1 ELSE t2]

=============================================================================
