\* A chunk stands for the 64 KB that both a read and the default high-water mark
\* of a transport's write buffer amount to; the low-water mark, a quarter of
\* that, is none.
\* Three chunks one way: a buffer that fills, pauses, drains and fills again.
CONSTANTS
    MaxChunks = 3
    MaxReply = 2
    HighWater = 1
    LowWater = 0
    ReadLimit = 1
SPECIFICATION FairSpec
INVARIANTS TypeOK BufferBound CountersTrackDelivery UploadIsHandedOver
PROPERTIES RelaysInOrder EndTearsDown
