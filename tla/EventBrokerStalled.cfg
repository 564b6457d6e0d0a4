\* A client that stops reading holds its stream in a write without a deadline.
SPECIFICATION FairSpec
CONSTANTS
    Streams = {s1}
    Publishers = {w1}
    MaxEvents = 1
    BufferSize = 1
    Stalls = TRUE
PROPERTIES CloseEndsStreams
CHECK_DEADLOCK FALSE
