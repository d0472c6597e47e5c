SPECIFICATION Spec
CONSTANTS
    Executors = 5
    Slots = 2
    Tasks = 30
    StatusBuffer = 3
    EventBuffer = 5
PROPERTY TestsEventuallyPass
