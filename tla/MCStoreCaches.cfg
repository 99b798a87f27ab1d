SPECIFICATION Spec
CONSTANTS
    Rep = {r1}
    Thread = {t1, t2}
    Hash = {h1, h2}
    Block = {b1}
    MaxSequence = 3
    MaxGenerated = 3
    Nobody = Nobody
    Flush = Flush
SYMMETRY ThreadSymmetry
INVARIANTS
    KnownIsHighest
    SequencesRise
    UncheckedFoundOnce
