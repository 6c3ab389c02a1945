SPECIFICATION FairSpec
CONSTANTS
    u1 = u1
    u2 = u2
    s1 = s1
    Updaters = {u1, u2}
    Servers = {s1}
    Stoppable = {s1}
    Nobody = Nobody
    MaxSwaps = 4
    MaxListeners = 1
INVARIANTS NeverSendOnClosed SecondUpdateWaits NoLostUpdate
PROPERTIES ImplementsBarrier UpdateReturnsUnlessStopped
\* An Update() racing a Shutdown() can block for ever (see KvServer_shutdown.cfg).
CHECK_DEADLOCK FALSE
