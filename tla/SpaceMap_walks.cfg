SPECIFICATION Spec
CONSTANTS
    Size = 5
    MaxOps = 2
INVARIANTS
    SegmentsAreTheSet
    NoPanic
