SPECIFICATION RepliesSpec
CONSTANTS
    text = text
    Values <- MCValues
    Empty = Empty
    Default = Default
    MessageId = MessageId
    Reason = Reason
    MaxLines = 6
INVARIANTS
    ForwardsBlocks
    DoneMeansComplete
\* One stream; then everything stops.
CHECK_DEADLOCK FALSE
