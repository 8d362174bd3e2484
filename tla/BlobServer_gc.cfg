\* Two log PUTs of three dots and room for two, a retention window, publishes cut short.
SPECIFICATION Spec
CONSTANTS
    Replica = {a}
    Owner = owner
    Member = {owner}
    Request = {q1, q2}
    None = none
    Quota = 2
    Retention = TRUE
    HeadCounts = {0, 1}
    MaxCounter = 3
    MaxSnapshots = 1
SYMMETRY Symmetry
INVARIANTS
    
    RepublishIsAccepted
    IndexedIsServed
    MeterIsExact
PROPERTIES
    RatchetsHold
\* The bounds on counters and snapshots, and the quota, may stop the system.
CHECK_DEADLOCK FALSE
