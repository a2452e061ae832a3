\* Two connections, two consolidations, one seal, one compaction, a restart.
SPECIFICATION FairSpec
CONSTANTS
    Conns = {c1, c2}
    None = None
    MaxLessons = 2
    MaxSeals = 1
    MaxSleeps = 1
    MaxBoots = 1
INVARIANTS
    TypeOK
    MemoryIsBacked
PROPERTIES
    MemorySettles
