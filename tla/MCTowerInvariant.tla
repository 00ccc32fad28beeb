-------------------------- MODULE MCTowerInvariant --------------------------
EXTENDS TowerInvariant, TLC
=============================================================================
