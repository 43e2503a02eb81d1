\* Two threads and one tab that reconnects; nothing lags, nothing is evicted
\* and the server does not restart.
CONSTANTS
    Emitters = {t1, t2}
    Clients = {c1}
    RingCapacity = 3
    ChannelCapacity = 3
    MaxSignals = 3
    MaxBoots = 1
SPECIFICATION Spec
INVARIANT ResumeLosesNothing
