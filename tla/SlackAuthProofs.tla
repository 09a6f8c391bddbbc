--------------------------- MODULE SlackAuthProofs ---------------------------
(***************************************************************************)
(* Proofs about Setup and SlackAuth for any secrets, any window, any       *)
(* difference of the clocks and any bound of the installation's wait.      *)
(***************************************************************************)
EXTENDS SlackAuth, TLAPS

-----------------------------------------------------------------------------
(* The inductive invariant, part by part: first what the wizard and the     *)
(* start of the server keep.                                                *)

\* While a server runs, no wizard does.
QuietInv == server = "serving" => wizard \in {"off"} \cup Ended

\* The file that was saved last is what the wizard wrote, or was emptied by a
\* later run; go removed it if it lay beside what "go run" built.
FileInv ==
    saved # Blank /\ savedIn \in Folder =>
        env[savedIn] \in [secret : {saved, Blank}, path : {Blank}]

\* The server has what files and environment gave it.
ConfigInv ==
    server = "serving" =>
        /\ secret = SigningSecret(serverAt) /\ secret \in Secret
        /\ agentPath \in Paths => agentPath = CursorCLIPath(serverAt)

\* Behind its first question the wizard goes on only with an agent.
AgentInv ==
    /\ wizard \in {"askPath", "addPath", "ngrok", "env", "askSecret", "write", "init", "done"}
         => Installed
    /\ server = "serving" /\ wizard = "done" => agentPath # "default"

\* There are looks for the binary left.
PollsInv == polls < MaxPolls

SetupInv == SetupTypeOK /\ QuietInv /\ FileInv /\ ConfigInv /\ AgentInv /\ PollsInv

\* Then the request: it needs a running server, its body is never used up,
\* its clock is near Slack's, and between the two checks no time passes.
RequestInv ==
    /\ request # NoRequest =>
         /\ server = "serving"
         /\ request.body
         /\ request.sent <= clock
         /\ request.timestamp <= request.sent + Skew
         /\ request.sent <= request.timestamp + Skew
    /\ check # "idle" => request # NoRequest
    /\ check = "signature" => Age <= Window

IInv == TypeOK /\ SetupInv /\ RequestInv /\ HandledIsGenuine /\ GenuineIsHandled

-----------------------------------------------------------------------------

\* The machine before the first run satisfies the invariant.
LEMMA Initially == Init => IInv
  <1> SUFFICES ASSUME Init PROVE IInv
    OBVIOUS
  <1>1. SetupInv
    BY NilAssumption, AgentsAssumption, PollsAssumption
    DEF Init, SetupInit, SetupInv, SetupTypeOK, QuietInv, FileInv, ConfigInv, AgentInv,
        PollsInv, Installed, Ended, Stages, Place, Folder
  <1>2. TypeOK
    BY <1>1, TimeAssumption DEF Init, AuthInit, NoAnswer, TypeOK, SetupInv
  <1>3. RequestInv /\ HandledIsGenuine /\ GenuineIsHandled
    BY DEF Init, AuthInit, NoAnswer, RequestInv, HandledIsGenuine, GenuineIsHandled
  <1> QED BY <1>1, <1>2, <1>3 DEF IInv

\* What the wizard writes changes one .env, if any, and it is one of its own.
LEMMA OverwriteStep ==
    ASSUME SetupTypeOK, NEW s \in {Blank} \cup Secret, Overwrite([secret |-> s, path |-> Blank])
    PROVE  /\ env' \in [Folder -> {NoFile} \cup File]
           /\ \A f \in Folder :
                env'[f] = IF f = wizardAt THEN [secret |-> s, path |-> Blank] ELSE env[f]
  <1>1. [secret |-> s, path |-> Blank] \in File
    BY DEF File
  <1> QED BY <1>1 DEF SetupTypeOK, Overwrite

\* A run of the wizard keeps every part; no server is running then.
LEMMA WizardKeeps == SetupInv /\ WizardStep => SetupInv'
  <1> SUFFICES ASSUME SetupInv, WizardStep PROVE SetupInv'
    OBVIOUS
  <1>1. /\ SetupTypeOK /\ FileInv /\ AgentInv /\ PollsInv /\ server # "serving"
        /\ wizard \notin {"off"} \cup Ended
    BY DEF SetupInv, QuietInv, Ended, WizardStep, Step, CheckSystem, CheckAgent, AskInstall,
           Install, AwaitBinary, AskPath, AddToPATH, SetupNgrok, CheckEnv, AskSecret,
           InitializeProject, WriteEnv
  <1>2. UNCHANGED serverVars
    BY DEF WizardStep, CheckSystem, CheckAgent, AskInstall, Install, AwaitBinary, AskPath,
           AddToPATH, SetupNgrok, CheckEnv, AskSecret, InitializeProject, WriteEnv
  <1>3. QuietInv' /\ ConfigInv'
    BY <1>1, <1>2 DEF serverVars, QuietInv, ConfigInv
  <1> USE NilAssumption, PollsAssumption
      DEF Ended, Stages, Step, Place, Folder, shellVars, fileVars, diskVars
  <1>4. SetupTypeOK' /\ AgentInv' /\ PollsInv'
    <2> USE <1>1, <1>2 DEF SetupTypeOK, AgentInv, PollsInv, Installed, serverVars
    <2>1. CASE CheckSystem
      BY <2>1 DEF CheckSystem
    <2>2. CASE CheckAgent
      BY <2>2 DEF CheckAgent
    <2>3. CASE AskInstall
      BY <2>3 DEF AskInstall
    <2>4. CASE Install
      BY <2>4 DEF Install
    <2>5. CASE AwaitBinary
      BY <2>5 DEF AwaitBinary
    <2>6. CASE AskPath
      BY <2>6 DEF AskPath
    <2>7. CASE AddToPATH
      BY <2>7 DEF AddToPATH, AddLine
    <2>8. CASE SetupNgrok
      BY <2>8 DEF SetupNgrok
    <2>9. CASE CheckEnv
      BY <2>9 DEF CheckEnv
    <2>10. CASE AskSecret
      <3>1. env' \in [Folder -> {NoFile} \cup File]
        BY <2>10, OverwriteStep DEF AskSecret
      <3> QED BY <2>10, <3>1 DEF AskSecret
    <2>11. CASE InitializeProject
      BY <2>11 DEF InitializeProject
    <2>12. ASSUME NEW s \in Secret, WriteEnv(s) PROVE SetupTypeOK' /\ AgentInv' /\ PollsInv'
      <3>1. env' \in [Folder -> {NoFile} \cup File]
        BY <2>12, OverwriteStep DEF WriteEnv
      <3> QED BY <2>12, <3>1 DEF WriteEnv
    <2> QED
      BY <2>1, <2>2, <2>3, <2>4, <2>5, <2>6, <2>7, <2>8, <2>9, <2>10, <2>11, <2>12
      DEF WizardStep
  <1>5. FileInv'
    <2>1. CASE AskSecret
      <3>1. UNCHANGED <<saved, savedIn>>
        BY <2>1 DEF AskSecret
      <3>2. CASE UNCHANGED env
        BY <1>1, <3>1, <3>2 DEF FileInv
      <3>3. CASE Overwrite([secret |-> Blank, path |-> Blank])
        <4>1. \A f \in Folder :
                env'[f] = IF f = wizardAt THEN [secret |-> Blank, path |-> Blank] ELSE env[f]
          BY <1>1, <3>3, OverwriteStep
        <4> QED BY <1>1, <3>1, <4>1 DEF FileInv
      <3> QED BY <2>1, <3>2, <3>3 DEF AskSecret
    <2>2. ASSUME NEW s \in Secret, WriteEnv(s) PROVE FileInv'
      <3>1. CASE UNCHANGED fileVars
        BY <1>1, <3>1 DEF FileInv
      <3>2. CASE Overwrite([secret |-> s, path |-> Blank]) /\ saved' = s /\ savedIn' = wizardAt
        <4>1. \A f \in Folder :
                env'[f] = IF f = wizardAt THEN [secret |-> s, path |-> Blank] ELSE env[f]
          BY <1>1, <3>2, OverwriteStep
        <4> QED BY <3>2, <4>1 DEF FileInv
      <3> QED BY <2>2, <3>1, <3>2 DEF WriteEnv
    <2>3. CASE UNCHANGED fileVars
      BY <1>1, <2>3 DEF FileInv
    <2> QED
      BY <2>1, <2>2, <2>3
      DEF WizardStep, CheckSystem, CheckAgent, AskInstall, Install, AwaitBinary, AskPath,
          AddToPATH, SetupNgrok, CheckEnv, InitializeProject
  <1> QED BY <1>3, <1>4, <1>5 DEF SetupInv

\* main keeps of the configuration what it read.
LEMMA StartKeeps == ASSUME SetupInv, NEW at \in Place, StartServer(at) PROVE SetupInv'
  <1>1. /\ SetupTypeOK /\ FileInv /\ AgentInv /\ PollsInv
        /\ UNCHANGED <<wizardVars, diskVars>>
        /\ wizard \in {"off"} \cup Ended
    BY DEF SetupInv, StartServer
  <1>2. FileInv' /\ QuietInv' /\ PollsInv'
    BY <1>1 DEF FileInv, QuietInv, PollsInv, diskVars, fileVars, wizardVars
  <1>3. SigningSecret(at)' = SigningSecret(at) /\ CursorCLIPath(at)' = CursorCLIPath(at)
    BY <1>1 DEF SigningSecret, CursorCLIPath, LoadedFile, diskVars, shellVars, fileVars
  <1>4. SigningSecret(at) \in {Blank, Unset} \cup Secret
    <2>1. LoadedFile(at) \in {NoFile} \cup File
      BY <1>1 DEF SetupTypeOK, LoadedFile, Folder
    <2>2. \A f \in File : f.secret \in {Blank} \cup Secret
      BY DEF File
    <2>3. sysEnv \in {Unset, Blank} \cup Secret
      BY <1>1 DEF SetupTypeOK
    <2> QED BY <2>1, <2>2, <2>3 DEF SigningSecret
  <1>5. /\ server' \in {"fatal", "serving"}
        /\ server' = "fatal" => UNCHANGED <<serverAt, secret, agentPath>>
        /\ server' = "serving" =>
             /\ serverAt' = at
             /\ secret' = SigningSecret(at) /\ secret' \in Secret
             /\ agentPath' = CASE CursorCLIPath(at) \in Paths -> CursorCLIPath(at)
                               [] CursorCLIPath(at) \notin Paths /\ Installed -> "found"
                               [] OTHER -> "default"
    BY <1>4 DEF StartServer
  <1>6. SetupTypeOK'
    BY <1>1, <1>5 DEF SetupTypeOK, diskVars, shellVars, fileVars, wizardVars
  <1>7. ConfigInv'
    <2> SUFFICES ASSUME server' = "serving"
                 PROVE  /\ secret' = SigningSecret(at)' /\ secret' \in Secret
                        /\ agentPath' \in Paths => agentPath' = CursorCLIPath(at)'
      BY <1>5 DEF ConfigInv, SigningSecret, CursorCLIPath, LoadedFile
    <2> QED BY <1>3, <1>5, NilAssumption
  <1>8. AgentInv'
    BY <1>1, <1>5, NilAssumption DEF AgentInv, Installed, diskVars, shellVars, wizardVars, Ended
  <1> QED BY <1>2, <1>6, <1>7, <1>8 DEF SetupInv

\* The wizard, the terminal and the start of a server keep their part.
LEMMA SetupStep == SetupInv /\ SetupNext => SetupInv'
  <1> SUFFICES ASSUME SetupInv, SetupNext PROVE SetupInv'
    OBVIOUS
  <1>1. CASE WizardStep
    BY <1>1, WizardKeeps
  <1>2. ASSUME NEW at \in Place, StartServer(at) PROVE SetupInv'
    BY <1>2, StartKeeps
  <1>3. ASSUME BinaryAppears \/ Abort \/ NewTerminal \/ \E at \in Place : RunSetup(at)
        PROVE  SetupInv'
    <2> USE DEF Ended, diskVars, shellVars, fileVars, wizardVars, serverVars
    <2>1. UNCHANGED <<fileVars, serverVars, sysEnv, sysPath>> /\ server # "serving"
      BY <1>3 DEF SetupInv, QuietInv, BinaryAppears, Abort, NewTerminal, RunSetup
    <2>2. QuietInv' /\ FileInv' /\ ConfigInv'
      BY <2>1 DEF SetupInv, QuietInv, FileInv, ConfigInv
    <2>3. SetupTypeOK' /\ AgentInv' /\ PollsInv'
      <3> USE <2>1, PollsAssumption
          DEF SetupInv, SetupTypeOK, AgentInv, PollsInv, Installed, Stages, Place, Folder
      <3>1. CASE BinaryAppears
        BY <3>1 DEF BinaryAppears
      <3>2. CASE Abort
        BY <3>2 DEF Abort
      <3>3. CASE NewTerminal
        BY <3>3 DEF NewTerminal
      <3>4. ASSUME NEW at \in Place, RunSetup(at) PROVE SetupTypeOK' /\ AgentInv' /\ PollsInv'
        BY <3>4 DEF RunSetup
      <3> QED BY <1>3, <3>1, <3>2, <3>3, <3>4
    <2> QED BY <2>2, <2>3 DEF SetupInv
  <1> QED BY <1>1, <1>2, <1>3 DEF SetupNext

\* Nothing of the configuration changes under a running server.
LEMMA ServingIsStill == SetupInv /\ server = "serving" => ~SetupNext
  BY DEF SetupInv, QuietInv, Ended, SetupNext, WizardStep, Step, CheckSystem, CheckAgent,
         AskInstall, Install, AwaitBinary, AskPath, AddToPATH, SetupNgrok, CheckEnv,
         AskSecret, InitializeProject, WriteEnv, RunSetup, BinaryAppears, Abort,
         NewTerminal, StartServer

\* A server stops and leaves the rest as it was.
LEMMA StopStep == SetupInv /\ StopServer => SetupInv'
  BY NilAssumption
  DEF SetupInv, SetupTypeOK, QuietInv, FileInv, ConfigInv, AgentInv, PollsInv, Installed,
      StopServer, Place, Folder, wizardVars, diskVars, shellVars, fileVars

\* What is about the wizard only does not see the steps of the middleware.
LEMMA SetupUnchanged == SetupInv /\ UNCHANGED setupVars => SetupInv'
  BY DEF setupVars, wizardVars, diskVars, shellVars, fileVars, serverVars, SetupInv,
         SetupTypeOK, QuietInv, FileInv, ConfigInv, AgentInv, PollsInv, Installed, SigningSecret,
         CursorCLIPath, LoadedFile

\* A server that runs where the wizard saved loads the file that was saved.
LEMMA SavedIsLoaded ==
    ASSUME SetupInv, saved # Blank, RunsWhereSaved
    PROVE  LoadedFile(serverAt) \in [secret : {saved, Blank}, path : {Blank}]
  <1>1. savedIn \in Folder /\ env[savedIn] \in [secret : {saved, Blank}, path : {Blank}]
    BY DEF SetupInv, SetupTypeOK, FileInv, RunsWhereSaved, Place, Folder
  <1>2. saved \in Secret
    BY DEF SetupInv, SetupTypeOK
  <1>3. [secret : {saved, Blank}, path : {Blank}] \subseteq File
    BY <1>2 DEF File
  <1>4. env[savedIn] # NoFile
    BY <1>1, <1>3, FileAssumption
  <1>5. LoadedFile(serverAt) = env[savedIn]
    BY <1>1, <1>4 DEF RunsWhereSaved, LoadedFile, Folder, SetupInv, SetupTypeOK, Place
  <1> QED BY <1>1, <1>5

\* The secret of a server that runs where it was saved, in a terminal that
\* hides nothing, is the saved one.
LEMMA SavedIsUsed ==
    SetupInv /\ server = "serving" /\ saved = AppSecret /\ RunsWhereSaved /\ sysEnv = Unset
        => secret = AppSecret
  <1> SUFFICES ASSUME SetupInv, server = "serving", saved = AppSecret, RunsWhereSaved,
                      sysEnv = Unset
               PROVE  secret = AppSecret
    OBVIOUS
  <1>1. saved # Blank /\ saved \in Secret
    BY NilAssumption, KeyAssumption
  <1>2. LoadedFile(serverAt) \in [secret : {saved, Blank}, path : {Blank}]
    BY <1>1, SavedIsLoaded
  <1>3. LoadedFile(serverAt).secret \in {saved, Blank} /\ LoadedFile(serverAt) \in File
    BY <1>1, <1>2 DEF File
  <1>4. SigningSecret(serverAt) \in {saved, Blank}
    BY <1>3, FileAssumption DEF SigningSecret
  <1> QED BY <1>4, NilAssumption DEF SetupInv, ConfigInv

\* An answer to the request that the server has.
LEMMA AnswerStep ==
    ASSUME IInv, request # NoRequest, UNCHANGED <<setupVars, clock, request>>,
           NEW code \in {200, 400, 401, 500}, Answer(code),
           code = 200 => Age <= Window /\ request.key = secret,
           code = 400 => request.key = Unsigned,
           code = 401 => Age > Window \/ request.key # secret
    PROVE  IInv'
  <1> USE TimeAssumption, KeyAssumption DEF IInv
  <1>1. SetupInv'
    BY SetupUnchanged
  <1>2. /\ request' = request /\ clock' = clock /\ check' = "idle"
        /\ server' = server /\ secret' = secret /\ saved' = saved /\ sysEnv' = sysEnv
        /\ savedIn' = savedIn /\ serverAt' = serverAt
        /\ answer' = [code |-> code, age |-> clock - request.sent, body |-> request.body]
    BY DEF Answer, setupVars, serverVars, diskVars, shellVars, fileVars
  <1>3. /\ request.sent \in 0 .. MaxClock /\ clock \in 0 .. MaxClock
        /\ request.timestamp \in -Skew .. MaxClock + Skew
        /\ request \in [sent : 0 .. MaxClock, timestamp : -Skew .. MaxClock + Skew,
                        key : {AppSecret, Unsigned}, body : BOOLEAN]
    BY DEF TypeOK
  <1>4. /\ request.sent <= clock /\ request.body = TRUE
        /\ request.timestamp <= request.sent + Skew /\ request.sent <= request.timestamp + Skew
    BY <1>3 DEF RequestInv
  <1>5. clock - request.sent \in 0 .. MaxClock
    BY <1>3, <1>4
  <1>6. /\ answer'.code = code /\ answer'.age = clock - request.sent
        /\ answer'.body = request.body
    BY <1>2
  <1>7. answer' \in [code : {0, 200, 400, 401, 500}, age : 0 .. MaxClock, body : BOOLEAN]
    BY <1>2, <1>3, <1>5
  <1>8. TypeOK'
    BY <1>1, <1>2, <1>7 DEF TypeOK, SetupInv
  <1>9. RequestInv'
    BY <1>2 DEF RequestInv
  <1>10. HandledIsGenuine'
    BY <1>2, <1>3, <1>4, <1>6 DEF HandledIsGenuine, Age
  <1>11. GenuineIsHandled'
    <2> SUFFICES ASSUME saved = AppSecret, RunsWhereSaved, sysEnv = Unset, code \in {400, 401}
                 PROVE  request.key # AppSecret \/ clock - request.sent + Skew > Window
      BY <1>2, <1>6 DEF GenuineIsHandled, RunsWhereSaved
    <2>1. secret = AppSecret
      BY SavedIsUsed DEF RequestInv
    <2>2. CASE code = 400
      BY <2>2
    <2>3. CASE code = 401 /\ Age > Window
      BY <2>3, <1>3, <1>4 DEF Age
    <2>4. CASE code = 401 /\ request.key # secret
      BY <2>1, <2>4
    <2> QED BY <2>2, <2>3, <2>4
  <1> QED BY <1>1, <1>8, <1>9, <1>10, <1>11

\* Every step keeps the invariant.
LEMMA Inductive == IInv /\ [Next]_vars => IInv'
  <1> SUFFICES ASSUME IInv, [Next]_vars PROVE IInv'
    OBVIOUS
  <1> USE TimeAssumption, KeyAssumption
  <1>1. CASE SetupNext /\ UNCHANGED authVars
    <2>1. SetupInv' /\ server # "serving"
      BY <1>1, SetupStep, ServingIsStill DEF IInv
    <2>2. request = NoRequest /\ check = "idle"
      BY <2>1 DEF IInv, RequestInv
    <2>3. TypeOK'
      BY <1>1, <2>1 DEF IInv, TypeOK, SetupInv, authVars
    <2>4. RequestInv' /\ HandledIsGenuine' /\ GenuineIsHandled'
      BY <1>1, <2>2 DEF IInv, authVars, RequestInv, HandledIsGenuine, GenuineIsHandled
    <2> QED BY <2>1, <2>3, <2>4 DEF IInv
  <1>2. CASE ServerGone
    <2>1. SetupInv'
      BY <1>2, StopStep DEF IInv, ServerGone
    <2>2. TypeOK'
      BY <1>2, <2>1 DEF TypeOK, SetupInv, ServerGone, NoAnswer
    <2>3. RequestInv' /\ HandledIsGenuine' /\ GenuineIsHandled'
      BY <1>2 DEF ServerGone, NoAnswer, RequestInv, HandledIsGenuine, GenuineIsHandled
    <2> QED BY <2>1, <2>2, <2>3 DEF IInv
  <1>3. ASSUME NEW key \in {AppSecret, Unsigned}, NEW skew \in -Skew .. Skew,
               SendRequest(key, skew)
        PROVE  IInv'
    <2>1. SetupInv'
      BY <1>3, SetupUnchanged DEF IInv, SendRequest
    <2>2. /\ server' = "serving" /\ clock' = clock /\ check' = check /\ answer' = NoAnswer
          /\ request' = [sent |-> clock, timestamp |-> clock + skew, key |-> key, body |-> TRUE]
          /\ request = NoRequest
      BY <1>3 DEF SendRequest, setupVars, serverVars
    <2>3. /\ request'.sent = clock /\ request'.timestamp = clock + skew /\ request'.body = TRUE
          /\ clock \in 0 .. MaxClock /\ skew \in Int /\ -Skew <= skew /\ skew <= Skew
      BY <2>2 DEF IInv, TypeOK
    <2>4. request' \in [sent : 0 .. MaxClock, timestamp : -Skew .. MaxClock + Skew,
                        key : {AppSecret, Unsigned}, body : BOOLEAN]
      BY <2>2, <2>3
    <2>5. TypeOK'
      BY <2>1, <2>2, <2>4 DEF IInv, TypeOK, SetupInv, NoAnswer
    <2>6. check = "idle"
      BY <2>2 DEF IInv, RequestInv, TypeOK
    <2>7. RequestInv' /\ HandledIsGenuine' /\ GenuineIsHandled'
      BY <2>2, <2>3, <2>6 DEF NoAnswer, RequestInv, HandledIsGenuine, GenuineIsHandled
    <2> QED BY <2>1, <2>5, <2>7 DEF IInv
  <1>4. CASE Tick
    <2>1. SetupInv'
      BY <1>4, SetupUnchanged DEF IInv, Tick
    <2>2. /\ request' = request /\ check' = check /\ answer' = NoAnswer /\ clock' = clock + 1
          /\ clock \in 0 .. MaxClock /\ clock < MaxClock /\ check # "signature"
          /\ server' = server /\ secret' = secret /\ saved' = saved /\ sysEnv' = sysEnv
          /\ savedIn' = savedIn /\ serverAt' = serverAt
      BY <1>4 DEF IInv, TypeOK, Tick, setupVars, serverVars, diskVars, shellVars, fileVars
    <2>3. TypeOK'
      BY <2>1, <2>2 DEF IInv, TypeOK, SetupInv, NoAnswer
    <2>4. RequestInv'
      <3>1. request # NoRequest => request.sent \in 0 .. MaxClock
        BY DEF IInv, TypeOK
      <3> QED BY <2>2, <3>1 DEF IInv, RequestInv
    <2>5. HandledIsGenuine' /\ GenuineIsHandled'
      BY <2>2 DEF NoAnswer, HandledIsGenuine, GenuineIsHandled
    <2> QED BY <2>1, <2>3, <2>4, <2>5 DEF IInv
  <1>5. CASE BodyFails
    BY <1>5, AnswerStep DEF BodyFails
  <1>6. CASE RequestGone
    <2>1. SetupInv'
      BY <1>6, SetupUnchanged DEF IInv, RequestGone
    <2>2. TypeOK' /\ RequestInv' /\ HandledIsGenuine' /\ GenuineIsHandled'
      BY <1>6, <2>1
      DEF IInv, TypeOK, SetupInv, RequestGone, NoAnswer, RequestInv, HandledIsGenuine,
          GenuineIsHandled
    <2> QED BY <2>1, <2>2 DEF IInv
  <1>7. CASE ReadBody
    <2>1. SetupInv'
      BY <1>7, SetupUnchanged DEF IInv, ReadBody
    <2>2. TypeOK' /\ RequestInv'
      BY <1>7, <2>1
      DEF IInv, TypeOK, SetupInv, ReadBody, NoAnswer, RequestInv, setupVars, serverVars
    <2>3. HandledIsGenuine' /\ GenuineIsHandled'
      BY <1>7 DEF HandledIsGenuine, GenuineIsHandled, ReadBody, NoAnswer
    <2> QED BY <2>1, <2>2, <2>3 DEF IInv
  <1>8. CASE CheckTime
    <2>1. request # NoRequest
      BY <1>8 DEF IInv, RequestInv, CheckTime
    <2>2. CASE Answer(400) /\ request.key = Unsigned
      BY <1>8, <2>1, <2>2, AnswerStep DEF CheckTime
    <2>3. CASE Answer(401) /\ TooOld
      BY <1>8, <2>1, <2>3, AnswerStep DEF CheckTime, TooOld
    <2>4. CASE ~TooOld /\ check' = "signature" /\ UNCHANGED answer
      <3>1. SetupInv'
        BY <1>8, SetupUnchanged DEF IInv, CheckTime
      <3>2. /\ request' = request /\ clock' = clock /\ answer' = answer
            /\ server' = server /\ secret' = secret /\ saved' = saved /\ sysEnv' = sysEnv
            /\ savedIn' = savedIn /\ serverAt' = serverAt
        BY <1>8, <2>4 DEF CheckTime, setupVars, serverVars, diskVars, shellVars, fileVars
      <3>3. TypeOK'
        BY <2>4, <3>1, <3>2 DEF IInv, TypeOK, SetupInv
      <3>4. Age \in Int
        BY <2>1 DEF IInv, TypeOK, Age
      <3>5. RequestInv'
        BY <2>1, <2>4, <3>2, <3>4 DEF IInv, RequestInv, TooOld, Age
      <3>6. HandledIsGenuine' /\ GenuineIsHandled'
        BY <3>2 DEF IInv, HandledIsGenuine, GenuineIsHandled, RunsWhereSaved
      <3> QED BY <3>1, <3>3, <3>5, <3>6 DEF IInv
    <2> QED BY <1>8, <2>2, <2>3, <2>4 DEF CheckTime
  <1>9. CASE CheckSignature
    <2>1. request # NoRequest /\ Age <= Window
      BY <1>9 DEF IInv, RequestInv, CheckSignature
    <2> QED BY <1>9, <2>1, AnswerStep DEF CheckSignature, SignatureMatches
  <1>10. CASE UNCHANGED vars
    <2>1. SetupInv'
      BY <1>10, SetupUnchanged DEF IInv, vars
    <2>2. /\ request' = request /\ clock' = clock /\ answer' = answer /\ check' = check
          /\ server' = server /\ secret' = secret /\ saved' = saved /\ sysEnv' = sysEnv
          /\ savedIn' = savedIn /\ serverAt' = serverAt
      BY <1>10 DEF vars, authVars, setupVars, serverVars, diskVars, shellVars, fileVars
    <2>3. TypeOK' /\ RequestInv' /\ HandledIsGenuine' /\ GenuineIsHandled'
      BY <2>1, <2>2
      DEF IInv, TypeOK, SetupInv, RequestInv, Age, HandledIsGenuine, GenuineIsHandled,
          RunsWhereSaved
    <2> QED BY <2>1, <2>3 DEF IInv
  <1> QED
    BY <1>1, <1>2, <1>3, <1>4, <1>5, <1>6, <1>7, <1>8, <1>9, <1>10 DEF Next, AuthStep

\* The invariant holds in every reachable state.
THEOREM Invariance == Spec => []IInv
  BY Initially, Inductive, PTL DEF Spec

\* Types; in particular no run of the wizard writes its line a second time.
THEOREM AuthTypeCorrect == Spec => []TypeOK
  <1>1. IInv => TypeOK
    BY DEF IInv
  <1> QED BY <1>1, Invariance, PTL

\* A handler runs only for a request that was signed with the configured
\* secret within the window, give or take the clocks, and can read its body.
THEOREM HandledRequestsAreGenuine == Spec => []HandledIsGenuine
  <1>1. IInv => HandledIsGenuine
    BY DEF IInv
  <1> QED BY <1>1, Invariance, PTL

\* When the server runs from where the wizard saved Slack's secret, in a
\* terminal that does not hide it, no request of Slack's that arrives in time
\* is refused, whatever happened to the wizard before and whatever else is in
\* a .env.
THEOREM GenuineRequestsAreHandled == Spec => []GenuineIsHandled
  <1>1. IInv => GenuineIsHandled
    BY DEF IInv
  <1> QED BY <1>1, Invariance, PTL

\* A server that follows a successful setup knows where the agent is, unless
\* the terminal or a .env that the wizard did not write names another place.
THEOREM AgentIsFoundAfterSetup == Spec => []AgentIsFound
  <1>1. IInv => AgentIsFound
    <2> SUFFICES ASSUME IInv, server = "serving", wizard = "done", agentPath # "found",
                        agentPath # sysPath, saved # Blank, RunsWhereSaved
                 PROVE  FALSE
      BY DEF AgentIsFound, IInv, SetupInv, SetupTypeOK, AgentInv
    <2>1. agentPath \in Paths /\ agentPath = CursorCLIPath(serverAt)
      BY DEF IInv, SetupInv, SetupTypeOK, ConfigInv, AgentInv
    <2>2. LoadedFile(serverAt).path = Blank
      BY SavedIsLoaded DEF IInv
    <2>3. CursorCLIPath(serverAt) \in {Blank, sysPath}
      BY <2>2 DEF CursorCLIPath
    <2> QED BY <2>1, <2>3, NilAssumption
  <1> QED BY <1>1, Invariance, PTL
=============================================================================
