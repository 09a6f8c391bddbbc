\* Slack's secret and an old one, a path that CURSOR_CLI_PATH may name, an
\* agent to be installed; a window of one, clocks one apart.
CONSTANTS
    Secret = {app, old}
    Paths = {given}
    AppSecret = app
    NoFile = noFile
    Blank = blank
    Unset = unset
    FirstAgents = {"none"}
    Unsigned = unsigned
    NoRequest = noRequest
    MaxPolls = 2
    Window = 1
    Skew = 1
    MaxClock = 3
SPECIFICATION Spec
INVARIANTS
    HandledIsGenuine
    GenuineIsHandled
    AgentIsFound
CHECK_DEADLOCK FALSE
