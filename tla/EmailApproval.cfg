SPECIFICATION ReplySpec
CONSTANTS
    r1 = r1
    r2 = r2
    r3 = r3
    b1 = b1
    b2 = b2
    Requests <- MC_Requests
    Bodies <- MC_Bodies
    Overruns = FALSE
    MaxReplyFaults = 2
SYMMETRY MC_Symmetry
CHECK_DEADLOCK FALSE
INVARIANT ReplyTypeOK
INVARIANT OneReply
PROPERTY ClosedStaysClosed
