SPECIFICATION ClientFairSpec
CONSTANTS
    u1 = u1
    u2 = u2
    c1 = c1
    c2 = c2
    d1 = d1
    e1 = e1
    e2 = e2
    s1 = s1
    s2 = s2
    s3 = s3
    s4 = s4
    Users = {u1}
    Msgs = {c1, e1}
    UserOf <- MCUserOf
    CallbackMsgs <- MCCallbackMsgs
    NoMsg = NoMsg
    Streams = {s1, s3}
    StreamMsg <- MCStreamMsg
    NoStream = NoStream
    Faults = {}
    SlowUsers = {}
PROPERTIES
    EveryMessageResolved
\* The clients send a bounded number of requests; then everything stops.
CHECK_DEADLOCK FALSE
