\* Two other accounts beside the owner; two requests at a time in every part.
SPECIFICATION MCSpec
CONSTANTS
    own = own
    ann = ann
    bob = bob
    u1 = u1
    u2 = u2
    u3 = u3
    u4 = u4
    s1 = s1
    m1 = m1
    f1 = f1
    f2 = f2
    Parts = {"account", "tabs", "devices", "switch", "verifying", "proposing", "inviting", "media"}
    Sub = {s1,s2}
    MemberId = {m1,m2}
    Instance = {i1}
    MaxSeals = 3
    Tab = {u1,u2,u3,u4}
    Profile = {f1,f2}
    ProfileOf <- MCProfileOf
    NoSub = NoSub
    MaxMishaps = 1
    Kid = {k1, k2}
    Bearer = {q1, q2}
    Account = {own, ann, bob}
    TreeOwner = own
    Roster <- MCRoster
    Session = {p1, p2}
    Invite = {v}
    PinnedTo <- MCPinned
    MaxRevision = 2
    MaxGen = 1
    MaxOpen = 1
    MaxDay = 2
    MediaBlob = {b1, b2}
    Task = {t1, t2}
    MaxStorageBytes = 3
    MaxBlobBytes = 2
    MaxBlobCount = 2
    MaxRefs = 2
    Exclusive = TRUE

    
    
    
PROPERTIES
    NoUnseenOverwrite
    ClaimIsExclusive
    RevocationsReachTheServer
SYMMETRY MCSymmetry
\* The bounds and the quotas stop every part.
CHECK_DEADLOCK FALSE
