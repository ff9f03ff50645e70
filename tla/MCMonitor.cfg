SPECIFICATION MonitorSpec
CONSTANTS
    u1 = u1
    u2 = u2
    c1 = c1
    c2 = c2
    d1 = d1
    Users = {u1, u2}
    Msgs = {c1, c2, d1}
    UserOf <- MCUserOf
    CallbackMsgs = {c1, c2, d1}
    NoMsg = NoMsg
    Streams = {}
    StreamMsg <- MCStreamMsg
    NoStream = NoStream
    MaxBatches = 2
INVARIANTS
    IdleMeansServed
    HealthCountsBacklog
