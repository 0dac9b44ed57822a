SPECIFICATION SumSpec
CONSTANTS
    Capacity = 4
    Reserved = 2
    MaxBatch = 3
    MaxSeq   = 6
    Revisions <- MCRevisions
    Anchors = {a1, a2}
    Tries = {t1, t2}
SYMMETRY MCSymmetry
INVARIANTS
    TypeOK
    ReserveHoldsTransitions
    InOrder
    CopyStaysPrefix
    EveryNumberAccounted
    EnvelopeNeverLost
    RecordFrozenOnce
    ConflictNeedsRestore
    RevisionOrder
    RestoreKeepsData
PROPERTIES
    ImplementsFifo
    RevisionNeverRegresses
