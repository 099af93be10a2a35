---------------------------- MODULE MCBackstop ----------------------------
EXTENDS Backstop, TLC
=============================================================================
