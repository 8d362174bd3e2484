\* Two devices edit a family; every set of twelve records is projected.
SPECIFICATION MCSpec
CONSTANTS
    d1 = d1
    d2 = d2
    ann = ann
    bob = bob
    None = None
    Devices <- MCDevices
    AuthorOf <- MCAuthorOf
    Text = {"x", "y", "c", "q", "m"}
    Dates <- MCDates
    MaxEdits <- MCMaxEdits
    MaxNow = 2
    MaxCheckpoints = 1
    LogicalPerMilli = 4
\* The bounds on edits, checkpoints and reopenings stop the system.
CHECK_DEADLOCK FALSE
INVARIANTS
    ReplicasAgree
    CheckpointLosesNothing
    ProjectionIsSound
PROPERTIES
    PeersClaimsSurvive
    
