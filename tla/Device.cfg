CONSTANTS
    Streams <- DeviceStreams
    Routines <- DeviceRoutine
    RoutineList <- MCRoutines
    Program <- DeviceProgram
    Content <- DeviceContent
    NrSegments = 2
    FlushBefore <- MCFlushBefore
    NrTileBatches = 2
    NrPatches = 5
    NrPatchBuffers = 2
    MaxNrPatches = 4
    NrChannelBlocks = 2
    NrTermBlocks = 2
SPECIFICATION Spec
INVARIANTS
    TypeOK
    RoutineOrdered
    NoRace
    ReturnsQuiescent
    AsIfInOrder
    Delivered
    DeliveredWithLeftovers
