----------------------------- MODULE MCBrowser ------------------------------
EXTENDS Browser, TLC

Symmetry == Permutations(Slots) \cup Permutations(Cells)
=============================================================================
