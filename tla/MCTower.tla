------------------------------- MODULE MCTower -------------------------------
EXTENDS Tower, TLC
=============================================================================
