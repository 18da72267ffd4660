---------------------------- MODULE MCRunRegistry ----------------------------
EXTENDS RunRegistry, TLC
=============================================================================
