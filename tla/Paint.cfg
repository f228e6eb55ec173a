\* Two web views on two rendering contexts, and two painters.
CONSTANTS
    Contexts = {c1, c2}
    Views = {w1, w2}
    Askers = {a1}
    MaxPainters = 2
    MaxFrames = 1
    MaxMessages = 2
    None = None
SPECIFICATION Spec
SYMMETRY PaintSymmetry
INVARIANTS ViewsHavePainter PendingFramesMatch RepaintNotLost RequestsAnswered
