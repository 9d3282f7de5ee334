---------------------------- MODULE MCPlayerPanel ----------------------------
EXTENDS PlayerPanel



=============================================================================
