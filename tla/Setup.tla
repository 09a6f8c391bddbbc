-------------------------------- MODULE Setup --------------------------------
(***************************************************************************)
(* The setup wizard (internal/setup, --setup) and what main makes of its   *)
(* work when the server is started: the agent's binary, the shell's PATH,  *)
(* and the .env files with Slack's signing secret. Both may be run, aborted *)
(* and run again in any order, built or by "go run"; what they leave on the *)
(* disk is all that connects them. The machine is left alone otherwise:    *)
(* nobody edits a .env or removes the agent between the runs.              *)
(***************************************************************************)
EXTENDS Naturals

CONSTANTS
    Secret,      \* signing secrets
    Paths,       \* what CURSOR_CLI_PATH may say
    NoFile,      \* there is no .env
    Blank,       \* a line of a .env, or a variable, that says nothing
    Unset,       \* the variable is not in the environment
    FirstAgents, \* where cursor-agent may be at first
    MaxPolls     \* how often InstallCursorAgent looks for the binary (10)

ASSUME NilAssumption ==
    /\ {NoFile, Blank, Unset} \cap (Secret \cup Paths) = {}
    /\ NoFile # Blank /\ Blank # Unset
    /\ {"found", "default"} \cap Paths = {}
ASSUME AgentsAssumption == FirstAgents \subseteq {"none", "path", "local"}
ASSUME PollsAssumption == MaxPolls \in Nat \ {0}

\* Where the executable of a process may lie: in a folder of its own, in the
\* working directory (the project's), or where "go run" builds it, in a
\* directory of this process alone that go removes behind it.
Folder == {"bin", "cwd"}
Place  == Folder \cup {"goRun"}

\* A .env: SLACK_SIGNING_SECRET and CURSOR_CLI_PATH.
File == [secret : {Blank} \cup Secret, path : {Blank} \cup Paths]

ASSUME FileAssumption == NoFile \notin File

VARIABLES
    wizard,      \* where RunSetup is
    wizardAt,    \* and its executable ("bin" when it does not run)
    polls,       \* InstallCursorAgent's loop
    agent,       \* where cursor-agent is: "none", "path" or "local" (~/.local/bin)
    onPath,      \* whether the terminal's PATH has ~/.local/bin
    rcLines,     \* export lines in the shell's rc file
    env,         \* the .env of each folder
    saved,       \* the secret the wizard last said to have saved, or Blank
    savedIn,     \* and where
    sysEnv,      \* SLACK_SIGNING_SECRET of the terminal
    sysPath,     \* CURSOR_CLI_PATH of the terminal
    server,      \* main: "off", "serving" or "fatal" (log.Fatal)
    serverAt,    \* its executable ("bin" when it does not run)
    secret,      \* its signingSecret
    agentPath    \* its cursorCLIPath: one that was given, "found", or
                 \* "default" (left to PATH)

wizardVars == <<wizard, wizardAt, polls>>
shellVars  == <<agent, onPath, rcLines, sysEnv, sysPath>>
fileVars   == <<env, saved, savedIn>>
diskVars   == <<shellVars, fileVars>>
serverVars == <<server, serverAt, secret, agentPath>>
setupVars  == <<wizardVars, diskVars, serverVars>>

Ended  == {"done", "failed"}
Stages == {"off", "system", "agent", "askInstall", "install", "await", "askPath",
           "addPath", "ngrok", "env", "askSecret", "write", "init"} \cup Ended

SetupInit ==
    /\ wizard = "off" /\ wizardAt = "bin" /\ polls = 0
    /\ agent \in FirstAgents /\ onPath \in BOOLEAN
    /\ rcLines = 0
    /\ env \in [Folder -> {NoFile} \cup File]
    /\ saved = Blank /\ savedIn = "bin"
    /\ sysEnv \in {Unset, Blank} \cup Secret
    /\ sysPath \in {Unset, Blank} \cup Paths
    /\ server = "off" /\ serverAt = "bin" /\ secret = Blank /\ agentPath = "default"

\* The wizard goes on, or ends.
Step(from, to) ==
    /\ wizard = from /\ wizard' = to
    /\ wizardAt' = IF to \in Ended THEN "bin" ELSE wizardAt

\* CheckCursorAgent looks in PATH and then in the default directories.
Installed == agent # "none"

-----------------------------------------------------------------------------
(* The wizard. *)

\* --setup. (Bound: not while a server runs; it has read the file already.)
RunSetup(at) ==
    /\ wizard \in {"off"} \cup Ended /\ server # "serving"
    /\ wizard' = "system" /\ wizardAt' = at
    /\ UNCHANGED <<polls, diskVars, serverVars>>

\* checkSystem refuses Windows.
CheckSystem ==
    /\ \/ Step("system", "agent")
       \/ Step("system", "failed")
    /\ UNCHANGED <<polls, diskVars, serverVars>>

\* setupCursorAgent: an agent in ~/.local/bin that PATH does not name leads
\* to a question of its own.
CheckAgent ==
    /\ Step("agent", CASE ~Installed -> "askInstall"
                       [] agent = "local" /\ ~onPath -> "askPath"
                       [] OTHER -> "ngrok")
    /\ UNCHANGED <<polls, diskVars, serverVars>>

\* AskYesNo: y, or n; the end of the input is a no. Without the agent there
\* is no setup.
AskInstall ==
    /\ \/ Step("askInstall", "install")
       \/ Step("askInstall", "failed")
    /\ UNCHANGED <<polls, diskVars, serverVars>>

\* curl | bash fails, or ends with or without the binary in place.
Install ==
    /\ \/ Step("install", "failed") /\ UNCHANGED agent
       \/ Step("install", "await") /\ agent' \in {"none", "local"}
    /\ UNCHANGED <<polls, onPath, rcLines, sysEnv, sysPath, fileVars, serverVars>>

\* What the script started, or the user who was told how (setup.go:147), may
\* put the binary there later.
BinaryAppears ==
    /\ wizard \in {"await", "failed"} /\ agent = "none" /\ server # "serving"
    /\ agent' = "local"
    /\ UNCHANGED <<wizardVars, onPath, rcLines, sysEnv, sysPath, fileVars, serverVars>>

\* Variant: a binary that does not show up is only reported.
AwaitAndGoOn ==
    /\ Step("await", "addPath")
    /\ UNCHANGED <<polls, diskVars, serverVars>>

\* One look a second at the default path; after the last one there is only
\* the second's sleep.
AwaitBinary ==
    /\ \/ agent = "local" /\ Step("await", "addPath") /\ polls' = 0
       \/ agent # "local" /\ polls + 1 < MaxPolls
          /\ Step("await", "await") /\ polls' = polls + 1
       \/ agent # "local" /\ polls + 1 = MaxPolls
          /\ Step("await", "failed") /\ polls' = 0
    /\ UNCHANGED <<diskVars, serverVars>>

AskPath ==
    /\ \/ Step("askPath", "addPath")
       \/ Step("askPath", "ngrok")
    /\ UNCHANGED <<polls, diskVars, serverVars>>

\* AddToPATH writes its line unless the rc file has it.
AddLine == rcLines' = IF rcLines > 0 THEN rcLines ELSE rcLines + 1

\* An unknown shell or a file that cannot be written is reported, and the
\* wizard goes on; so it does when PATH has the directory.
AddToPATH ==
    /\ Step("addPath", "ngrok")
    /\ \/ ~onPath /\ AddLine
       \/ UNCHANGED rcLines
    /\ UNCHANGED <<polls, agent, onPath, sysEnv, sysPath, fileVars, serverVars>>

\* setupNgrok: whether it is there, wanted, or fails to install, the setup
\* goes on.
SetupNgrok ==
    /\ Step("ngrok", "env")
    /\ UNCHANGED <<polls, diskVars, serverVars>>

\* setupEnv: a .env beside the executable may be kept, and is not looked
\* into. Beside one that was just built there is none.
CheckEnv ==
    /\ \/ Step("env", "askSecret")
       \/ wizardAt \in Folder /\ env[wizardAt] # NoFile /\ Step("env", "init")
    /\ UNCHANGED <<polls, diskVars, serverVars>>

\* The .env beside the executable is overwritten; nobody sees the one that go
\* removes.
Overwrite(file) ==
    env' = [f \in Folder |-> IF f = wizardAt THEN file ELSE env[f]]

\* AskString: nothing, or the end of the input, is refused; with a secret
\* os.WriteFile first truncates the file.
AskSecret ==
    /\ \/ Step("askSecret", "failed") /\ UNCHANGED env
       \/ Step("askSecret", "write") /\ Overwrite([secret |-> Blank, path |-> Blank])
    /\ UNCHANGED <<polls, shellVars, saved, savedIn, serverVars>>

\* ... and then writes it, or fails. CURSOR_CLI_PATH is in a comment only.
WriteEnv(s) ==
    /\ \/ Step("write", "init") /\ Overwrite([secret |-> s, path |-> Blank])
          /\ saved' = s /\ savedIn' = wizardAt
       \/ Step("write", "failed") /\ UNCHANGED fileVars
    /\ UNCHANGED <<polls, shellVars, serverVars>>

\* initializeProject makes data/ and logs/, or fails.
InitializeProject ==
    /\ \E end \in Ended : Step("init", end)
    /\ UNCHANGED <<polls, diskVars, serverVars>>

\* Ctrl-C, or the machine goes down.
Abort ==
    /\ wizard \notin {"off"} \cup Ended
    /\ wizard' = "off" /\ wizardAt' = "bin" /\ polls' = 0
    /\ UNCHANGED <<diskVars, serverVars>>

\* A new terminal reads the rc file.
NewTerminal ==
    /\ server # "serving" /\ wizard \in {"off"} \cup Ended
    /\ rcLines > 0 /\ ~onPath /\ onPath' = TRUE
    /\ UNCHANGED <<wizardVars, agent, rcLines, sysEnv, sysPath, fileVars, serverVars>>

-----------------------------------------------------------------------------
(* The server's start. *)

\* Variant: the working directory is looked into first.
LoadedFileHereFirst(at) ==
    IF at \in Folder /\ env["cwd"] = NoFile THEN env[at] ELSE env["cwd"]

\* The .env that is loaded: the one beside the executable, and if there is
\* none, the one in the working directory.
LoadedFile(at) ==
    IF at \in Folder /\ env[at] # NoFile THEN env[at] ELSE env["cwd"]

\* godotenv.Load sets a variable only when the environment does not have it,
\* be it empty.
SigningSecret(at) ==
    IF sysEnv = Unset /\ LoadedFile(at) # NoFile THEN LoadedFile(at).secret ELSE sysEnv
CursorCLIPath(at) ==
    IF sysPath = Unset /\ LoadedFile(at) # NoFile THEN LoadedFile(at).path ELSE sysPath

\* main up to the server's configuration: the agent is looked for only when
\* CURSOR_CLI_PATH says nothing.
StartServer(at) ==
    /\ server # "serving" /\ wizard \in {"off"} \cup Ended
    /\ IF SigningSecret(at) \in {Blank, Unset}
         THEN server' = "fatal" /\ UNCHANGED <<serverAt, secret, agentPath>>
         ELSE /\ server' = "serving" /\ serverAt' = at
              /\ secret' = SigningSecret(at)
              /\ agentPath' = CASE CursorCLIPath(at) \in Paths -> CursorCLIPath(at)
                                [] CursorCLIPath(at) \notin Paths /\ Installed -> "found"
                                [] OTHER -> "default"
    /\ UNCHANGED <<wizardVars, diskVars>>

StopServer ==
    /\ server = "serving"
    /\ server' = "off" /\ serverAt' = "bin" /\ secret' = Blank /\ agentPath' = "default"
    /\ UNCHANGED <<wizardVars, diskVars>>

-----------------------------------------------------------------------------

WizardStep ==
    \/ CheckSystem \/ CheckAgent \/ AskInstall \/ Install \/ AwaitBinary \/ AskPath
    \/ AddToPATH \/ SetupNgrok \/ CheckEnv \/ AskSecret \/ InitializeProject
    \/ \E s \in Secret : WriteEnv(s)

SetupNext ==
    \/ WizardStep \/ BinaryAppears \/ Abort \/ NewTerminal
    \/ \E at \in Place : RunSetup(at) \/ StartServer(at)

-----------------------------------------------------------------------------
(* Properties. *)

\* Part of the type of the whole; the rc file never has the line twice,
\* however often the wizard is run in terminals whose PATH is the old one.
SetupTypeOK ==
    /\ wizard \in Stages /\ wizardAt \in Place /\ polls \in 0 .. MaxPolls
    /\ agent \in {"none", "path", "local"} /\ onPath \in BOOLEAN /\ rcLines \in 0 .. 1
    /\ env \in [Folder -> {NoFile} \cup File]
    /\ saved \in {Blank} \cup Secret /\ savedIn \in Place
    /\ sysEnv \in {Unset, Blank} \cup Secret /\ sysPath \in {Unset, Blank} \cup Paths
    /\ server \in {"off", "serving", "fatal"} /\ serverAt \in Place
    /\ secret \in {Blank} \cup Secret
    /\ agentPath \in {"found", "default"} \cup Paths

\* The server is run from where the wizard saved its .env, or built anew in
\* that directory.
RunsWhereSaved ==
    \/ savedIn = serverAt /\ serverAt # "goRun"
    \/ savedIn = "cwd" /\ serverAt = "goRun"

\* After a setup that was successful the server knows where the agent is,
\* also in a terminal whose PATH does not name it yet (main.go:140), or it
\* was told by CURSOR_CLI_PATH: by the terminal, or by a .env that the wizard
\* did not write, but kept unread or never saw (setup.go:237).
AgentIsFound ==
    server = "serving" /\ wizard = "done" =>
        \/ agentPath = "found"
        \/ agentPath \in Paths /\ (agentPath = sysPath \/ saved = Blank \/ ~RunsWhereSaved)

=============================================================================
