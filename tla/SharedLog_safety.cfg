\* A writer and a reader, every disposition, covers and deltas, snapshots refused or not.
SPECIFICATION Spec
CONSTANTS
    Replica = {a, b}
    Writers = {a}
    Kinds = {"delta", "cover"}
    Dispositions = {"absorb", "hold", "stall", "drop"}
    SnapshotVerdicts = {TRUE, FALSE}
    K = 2
    MaxEntries = 2
    MaxSnapshots = 3
SYMMETRY Symmetry
INVARIANTS
    TypeOK
    BlockersAreClamped
    HeadIsBacked
    
    
    
PROPERTIES
    CoverageNeverRegresses
\* The bounds on entries and snapshots stop the system.
CHECK_DEADLOCK FALSE
