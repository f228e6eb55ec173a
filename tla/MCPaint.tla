------------------------------- MODULE MCPaint -------------------------------
EXTENDS Paint, TLC

PaintSymmetry == Permutations(Contexts) \cup Permutations(Views)
=============================================================================
