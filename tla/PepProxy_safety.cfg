\* Five clients for two slots: a queue of up to three, and grants in flight.
CONSTANTS
    Conns = {c1, c2, c3, c4, c5}
    MaxConn = 2
SPECIFICATION Spec
INVARIANTS TypeOK SlotConservation ActiveIsExact NoLostWakeup NoSocketLeak
PROPERTIES Admits
