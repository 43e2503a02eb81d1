\* Two threads and one tab; a ring of two events and a channel of one signal,
\* so that eviction and lag happen within four signals; one restart.
CONSTANTS
    Emitters = {t1, t2}
    Clients = {c1}
    RingCapacity = 2
    ChannelCapacity = 1
    MaxSignals = 4
    MaxBoots = 2
SPECIFICATION Spec
INVARIANTS
    TypeOK
    RingIsRecent
    InOrder
    NoSilentGap
    ClearIsDurable
PROPERTY StreamsCatchUp
