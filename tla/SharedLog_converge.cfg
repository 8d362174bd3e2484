\* Everything is absorbed, sooner or later, deleted or not.
SPECIFICATION FairSpec
CONSTANTS
    Replica = {a, b}
    Writers = {a}
    Kinds = {"delta"}
    Dispositions = {"absorb"}
    SnapshotVerdicts = {TRUE}
    K = 1
    MaxEntries = 2
    MaxSnapshots = 2
PROPERTIES
    EverythingArrives
\* The bounds on entries and snapshots stop the system.
CHECK_DEADLOCK FALSE
