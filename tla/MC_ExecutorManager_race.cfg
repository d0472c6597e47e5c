\* Push-mode registration racing one reserve_slots(1) call.
CONSTANTS
    e1 = e1
    e2 = e2
    w1 = w1
    w2 = w2
    NoWorker = NoWorker
    Executor <- MCExecutor
    Worker <- MCWorker
    TaskSlots = 2
    PushMode = TRUE
    ReserveSizes <- OneReserve
    PreRegistered = {}
    MaxRegistrations = 1
    MaxTime = 3
    Timeout = 1
SPECIFICATION Spec
INVARIANT SlotConservation
