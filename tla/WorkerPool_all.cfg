\* Two workers, one job whose run hangs for ever, a queue of one.
CONSTANTS
    Job = {j1, j2, j3, j4}
    Worker = {w1, w2}
    QueueCap = 1
    Hang = {j1}
    ZeroJob = zero
    NoJob = noJob
    NoWorker = noWorker
SPECIFICATION FairSpec
INVARIANTS
    TypeOK
    HandOversNeverBlock
    FirstInFirstOut
    StartedOnce
    CleanStopIsIdle
PROPERTIES
    ImplementsJobService
    ServesFairly
    WorkersLeave
CHECK_DEADLOCK FALSE
