---------------------------- MODULE MCHerdrFinish ----------------------------
EXTENDS HerdrFinish

CONSTANTS w1, w2, p1
=============================================================================
