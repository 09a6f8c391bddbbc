\* cursor-agent and three processes it may start.
CONSTANTS
    Desc = {d1, d2, d3}
    leader = agent
SPECIFICATION FairSpec
INVARIANTS
    GroupDiesOnTimeout
    OutputIsWhole
PROPERTY
    CallReturns
CHECK_DEADLOCK FALSE
