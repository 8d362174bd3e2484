\* Chain: the founder, one co-owner, a newcomer; one draft at a time; three revisions.
\* Tree: one owner device and one guest, at first shared or not; two or three changes of
\* membership, one entry, one crash.
SPECIFICATION MCSpec
CONSTANTS
    NoKey = NoKey
    Rvk = Rvk
    Founder = f
    CoOwners = {a}
    Newcomer = p
    NewKey = f2
    Rules <- MCRules
    Drafts = {d1}
    MaxRev = 3
    MaxDocs = 3
    None = None
    Founding = founder
    Owners = {o1}
    Guests = {g1}
    AtStart = {g1}
    GuestRoles = {3}
    MaxBodies = 4
    MaxEntries = 1
    MaxCrashes = 1
    Lookahead = 1
    NoSnap = NoSnap
    Parts = {"chain", "tree"}
INVARIANTS
    SignedIsReviewed
    
    
    
PROPERTIES
    ConsentedMove
    OneRegister
\* The bounds on revisions, bodies and entries stop the system.
CHECK_DEADLOCK FALSE
