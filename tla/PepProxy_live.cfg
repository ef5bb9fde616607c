\* Three clients for one slot.
CONSTANTS
    Conns = {c1, c2, c3}
    MaxConn = 1
SPECIFICATION LoopSpec
PROPERTIES WaitersServed ShutdownCompletes
