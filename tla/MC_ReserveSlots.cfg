\* Every iterator of up to three executors with up to three free slots
\* each, and every request up to seven slots.
CONSTANTS
    MaxExecutors = 3
    MaxFree = 3
    MaxRequest = 7
SPECIFICATION Spec
INVARIANT ReservationsAccounted
INVARIANT BiasReservesMaximal
