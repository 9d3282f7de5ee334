-------------------------- MODULE MCInstancesClaims --------------------------
EXTENDS InstancesClaims, MCInstances

=============================================================================
