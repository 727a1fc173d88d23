SPECIFICATION Spec
CONSTANTS
    FileSets = {f1, f2}
    Works = {w1}
    Threads = {t1, t2}
    Queues = {q1, q2, q3, q4}
    NoQueue = NoQueue
    InstantQueue = InstantQueue
    MaxAttempts = 2
    MaxSaves = 2
SYMMETRY Symmetry
CONSTRAINT Mixed
INVARIANTS
    IndexNotBehind
    PreservedOrTold
    DerivativesKept
