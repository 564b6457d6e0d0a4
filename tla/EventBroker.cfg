\* Two publishers, two streams, a buffer of one, clients that stall or leave at
\* any time; goroutines that can run do run.
SPECIFICATION FairSpec
CONSTANTS
    Streams = {s1, s2}
    Publishers = {w1, w2}
    MaxEvents = 2
    BufferSize = 1
    Stalls = TRUE
INVARIANTS TypeOK SendsMeetOpenChannels OnlyFullBuffersMiss OrderRespectsTime
PROPERTIES PublishAlwaysReturns LeaversUnsubscribe CloseEndsReadStreams
CHECK_DEADLOCK FALSE
