SPECIFICATION Spec
CONSTANTS
    u1 = u1
    u2 = u2
    u3 = u3
    c1 = c1
    c2 = c2
    c3 = c3
    Nobody = Nobody
    Users <- MC_Users
    Calls <- MC_Calls
    MaxInvites = 2
    MaxOverlap = 2
VIEW MC_View
SYMMETRY MC_Symmetry
CHECK_DEADLOCK FALSE
INVARIANT TypeOK
INVARIANT OneOwner
PROPERTY AdminsSafe
PROPERTY OwnershipHandedOver
