\* One device edits one field and undoes.
SPECIFICATION UndoSpec
CONSTANTS
    d1 = d1
    d2 = d2
    ann = ann
    bob = bob
    None = None
    Devices <- MCDevices
    AuthorOf <- MCAuthorOf
    Text = {"x", "y", "c", "q", "m"}
    Dates <- MCDates
    MaxEdits <- UndoMaxEdits
    MaxNow = 2
    MaxCheckpoints = 1
    LogicalPerMilli = 4
\* The bound on edits stops the system.
CHECK_DEADLOCK FALSE
PROPERTY UndoRestores
