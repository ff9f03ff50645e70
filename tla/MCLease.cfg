SPECIFICATION FairLeaseSpec
CONSTANTS
    u1 = u1
    c1 = c1
    c2 = c2
    e1 = e1
    s1 = s1
    Users = {u1}
    Msgs = {c1, c2, e1}
    UserOf <- MCUserOf
    CallbackMsgs <- MCCallbackMsgs
    NoMsg = NoMsg
    Streams = {s1}
    StreamMsg <- MCStreamMsg
    NoStream = NoStream
    Faults = {}
    SlowUsers = {}
    WorkerTimeout = 2
    LockBuffer = 2
    RegistrationLimit = 1
    HandoffLimit = 4
    CallTime = 2
    CallbackTime = 1
    StreamTime = 2
INVARIANTS
    LeaseCoversWork
PROPERTIES
    KeepsFifo
    DiscardOnlyIfLate
    QueueResumes
\* The clients send a bounded number of requests; then everything stops.
CHECK_DEADLOCK FALSE
