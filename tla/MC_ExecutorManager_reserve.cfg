\* Pull mode, as in the unit tests: e1 registered, e2 registering while two
\* scheduler tasks reserve and cancel concurrently; backend errors included.
CONSTANTS
    e1 = e1
    e2 = e2
    w1 = w1
    w2 = w2
    NoWorker = NoWorker
    Executor <- MCExecutor
    Worker <- MCWorker
    TaskSlots = 2
    PushMode = FALSE
    ReserveSizes <- MCReserveSizes
    PreRegistered <- MCExecutor
    MaxRegistrations = 1
    MaxTime = 3
    Timeout = 1
SPECIFICATION Spec
INVARIANT TypeOK
INVARIANT SlotConservation
PROPERTY ReserveMaximal
PROPERTY ImplementsClusterState
PROPERTY SlotsLockReleased
