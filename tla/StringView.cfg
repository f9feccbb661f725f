\* Two views over one text; sizes of four bits, integers of three.
CONSTANTS
    Width = 4
    Bits = 3
    Blocks <- MCBlocks
    Views = {v1, v2}
    Bases = {2, 3}
SPECIFICATION Spec
SYMMETRY Alike
INVARIANTS SearchAgrees NumbersAgree
