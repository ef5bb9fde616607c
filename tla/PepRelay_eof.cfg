\* A chunk stands for the 64 KB that both a read and the default high-water mark
\* of a transport's write buffer amount to; the low-water mark, a quarter of
\* that, is none.
CONSTANTS
    MaxChunks = 1
    MaxReply = 1
    HighWater = 1
    LowWater = 0
    ReadLimit = 1
SPECIFICATION Spec
INVARIANTS RelaysUntilEof
