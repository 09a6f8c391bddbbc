\* A job of each kind and two workers, one of which the Slack job's post may
\* keep for ever; a failed statement, shutdown and crash, no restart.
CONSTANTS
    Job = {slack, sync, async}
    SlackJob = {slack}
    SyncJob = {sync}
    AsyncJob = {async}
    Blank = {}
    Path = {p1}
    NoRow = noRow
    Unset = unset
    EnvPath = unset
    MaxWorkers = 2
    MaxFaults = 1
    MaxRestarts = 0
    MaxSets = 1
SPECIFICATION FairSpec
PROPERTIES
    AcceptedIsRecorded
    SyncIsAnswered
CHECK_DEADLOCK FALSE
