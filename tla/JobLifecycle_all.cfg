\* A job of each kind, the path set twice, one failed database statement and
\* one restart of the server.
CONSTANTS
    Job = {slack, sync, async}
    SlackJob = {slack}
    SyncJob = {sync}
    AsyncJob = {async}
    Blank = {}
    Path = {p1}
    NoRow = noRow
    Unset = unset
    EnvPath = unset
    MaxWorkers = 1
    MaxFaults = 1
    MaxRestarts = 1
    MaxSets = 2
SPECIFICATION Spec
INVARIANTS
    TypeOK
    RecordedOutcomeIsReal
    AnswerIsComplete
    IdleListWorks
    ForgottenForAReason
PROPERTIES
    StatusNeverRegresses
    ImplementsJobService
CHECK_DEADLOCK FALSE
