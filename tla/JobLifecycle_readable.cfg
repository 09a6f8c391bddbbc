\* Documentation: the state of a job can be queried.
CONSTANTS
    Job = {slack, async}
    SlackJob = {slack}
    SyncJob = {}
    AsyncJob = {async}
    Blank = {}
    Path = {p1}
    NoRow = noRow
    Unset = unset
    EnvPath = p1
    MaxWorkers = 1
    MaxFaults = 0
    MaxRestarts = 0
    MaxSets = 0
SPECIFICATION Spec
INVARIANT
    StoredJobIsReadable
CHECK_DEADLOCK FALSE
