\* One call of Run, Slack's limit of five posts, one failure of each kind.
CONSTANTS
    Job = {j1}
    jobID = j1
    Path = {p1}
    Unset = unset
    NoRow = noRow
    SlackLimit = 5
    MaxFaults = 1
SPECIFICATION FairSpec
INVARIANTS
    ResultHasRoom
    ShowWorksWhenTold
PROPERTIES
    WorkerIsFreed
    ProgressEnds
    ImplementsRun
CHECK_DEADLOCK FALSE
