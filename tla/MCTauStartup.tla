---------------------------- MODULE MCTauStartup ----------------------------
EXTENDS TauStartup

CONSTANTS c1, c2, c3, m1
=============================================================================
