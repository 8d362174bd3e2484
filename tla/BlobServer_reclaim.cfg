\* The collector keeps running; two members, of which one may leave.
SPECIFICATION FairSpec
CONSTANTS
    Replica = {a}
    Owner = owner
    Member = {owner, m}
    Request = {q}
    None = none
    Quota = 2
    Retention = FALSE
    HeadCounts = {}
    MaxCounter = 2
    MaxSnapshots = 1
PROPERTIES
    CoveredIsReclaimed
\* The bounds on counters and snapshots, and the quota, may stop the system.
CHECK_DEADLOCK FALSE
