---------------------------- MODULE TaskExecutor ----------------------------
(***************************************************************************)
(* One call of TaskExecutor.Run and the goroutine it starts to tell Slack *)
(* about the progress: the ticker, the closing of progressDone, the posts *)
(* to response_url, which Slack takes a limited number of times, and the  *)
(* rows a reader of those posts will look up. executeCursorCommand is one *)
(* step here and the subject of AgentProcess.                              *)
(***************************************************************************)
EXTENDS JobStore

CONSTANTS
    jobID,        \* the job
    Unset,        \* projectPath = ""
    SlackLimit,   \* posts Slack takes per response_url
    MaxFaults     \* bound: database statements and posts that fail

ASSUME ExecutorAssumption ==
    /\ jobID \in Job /\ Unset \notin Path
    /\ SlackLimit \in Nat /\ MaxFaults \in Nat

maxUpdates  == 4  \* progress messages
maxMessages == 5  \* pages of a result

VARIABLES
    url,          \* ResponseURL: "none" (API job), "slack" or "foreign"
    projectPath,  \* the path Run reads; Unset stands for a blank prompt too
    rows,         \* the database
    pc,           \* where Run is
    outcome,      \* what executeCursorCommand returned
    pages,        \* messages Run has yet to post
    stopped,      \* progressDone is closed
    progress,     \* where sendProgressUpdates is
    tick,         \* ticker.C holds a tick
    updateCount,
    slack,        \* posts Slack has taken, in order
    dbFaults, postFaults

inputs       == <<url, projectPath>>
runVars      == <<inputs, rows, pc, outcome, pages, stopped, dbFaults>>
progressVars == <<progress, tick, updateCount>>
vars == <<runVars, progressVars, slack, postFaults>>

\* Messages: "2 minutes have passed", page n of a result, a refused job.
Update(n)         == [kind |-> "update", no |-> n]
ResultPage(n, of) == [kind |-> "page", no |-> n, of |-> of]
Refusal           == [kind |-> "refusal"]

Init ==
    /\ url \in {"none", "slack", "foreign"}
    /\ projectPath \in Path \cup {Unset}
    /\ rows = [j \in Job |-> NoRow]
    /\ pc = "validate" /\ outcome = "none" /\ pages = <<>>
    /\ stopped = FALSE
    /\ progress = "none" /\ tick = FALSE /\ updateCount = 0
    /\ slack = <<>>
    /\ dbFaults = 0 /\ postFaults = 0

\* A database statement takes effect, or fails and is only logged.
Exec(newRows) ==
    \/ rows' = newRows /\ UNCHANGED dbFaults
    \/ dbFaults < MaxFaults /\ dbFaults' = dbFaults + 1 /\ UNCHANGED rows

\* http.Post: Slack takes the message while the limit is not used up, the
\* post fails, or the URL check has refused it. No caller hears of it.
Send(m) ==
    \/ /\ url = "slack" /\ Len(slack) < SlackLimit
       /\ slack' = Append(slack, m)
       /\ UNCHANGED postFaults
    \/ /\ url = "slack" /\ postFaults < MaxFaults
       /\ postFaults' = postFaults + 1
       /\ UNCHANGED slack
    \/ /\ url # "slack" \/ Len(slack) >= SlackLimit
       /\ UNCHANGED <<slack, postFaults>>

-----------------------------------------------------------------------------
(* Run. *)

\* A blank prompt or an unset path ends the job with one message.
Refuse ==
    /\ pc = "validate" /\ projectPath = Unset
    /\ IF url = "none"
         THEN pc' = "done" /\ UNCHANGED pages
         ELSE pc' = "post" /\ pages' = <<Refusal>>
    /\ UNCHANGED <<inputs, rows, outcome, stopped, dbFaults, progressVars, slack, postFaults>>

\* Both checks are passed.
Validate ==
    /\ pc = "validate" /\ projectPath # Unset
    /\ pc' = "create"
    /\ UNCHANGED <<inputs, rows, outcome, pages, stopped, dbFaults>>
    /\ UNCHANGED <<progressVars, slack, postFaults>>

\* cfg.DB.CreateJob
Create ==
    /\ pc = "create"
    /\ Exec(CreateJob(rows, jobID, projectPath))
    /\ pc' = "start"
    /\ UNCHANGED <<inputs, outcome, pages, stopped, progressVars, slack, postFaults>>

\* UpdateJobStatus(running) and go te.sendProgressUpdates(...).
StartAgent ==
    /\ pc = "start"
    /\ Exec(UpdateJobStatus(rows, jobID, "running"))
    /\ progress' = IF url = "none" THEN "none" ELSE "select"
    /\ pc' = "agent"
    /\ UNCHANGED <<inputs, outcome, pages, stopped, tick, updateCount, slack, postFaults>>

\* executeCursorCommand returns, after 15 minutes at the latest.
AgentReturns(o) ==
    /\ pc = "agent"
    /\ outcome' = o
    /\ pc' = "stop"
    /\ UNCHANGED <<inputs, rows, pages, stopped, dbFaults, progressVars, slack, postFaults>>

\* Variant: progressDone <- struct{}{} in place of close(progressDone).
StopBySending ==
    /\ pc = "stop"
    /\ url = "none" \/ progress = "select"
    /\ progress' = IF url = "none" THEN "none" ELSE "ended"
    /\ pc' = "result"
    /\ UNCHANGED <<inputs, rows, outcome, pages, stopped, dbFaults, tick, updateCount, slack, postFaults>>

\* Variant: an early return in the error branch leaves the channel open.
StopUnlessFailed ==
    /\ pc = "stop"
    /\ stopped' = (outcome = "ok")
    /\ pc' = "result"
    /\ UNCHANGED <<inputs, rows, outcome, pages, dbFaults, progressVars, slack, postFaults>>

\* close(progressDone)
StopProgress ==
    /\ pc = "stop"
    /\ stopped' = TRUE
    /\ pc' = "result"
    /\ UNCHANGED <<inputs, rows, outcome, pages, dbFaults, progressVars, slack, postFaults>>

\* Variant: the error branch has no UpdateJobResult.
SaveResultOfSuccess ==
    /\ pc = "result"
    /\ IF outcome = "ok" THEN Exec(UpdateJobResult(rows, jobID)) ELSE UNCHANGED <<rows, dbFaults>>
    /\ pc' = "status"
    /\ UNCHANGED <<inputs, outcome, pages, stopped, progressVars, slack, postFaults>>

\* UpdateJobResult(output, error)
SaveResult ==
    /\ pc = "result"
    /\ Exec(UpdateJobResult(rows, jobID))
    /\ pc' = "status"
    /\ UNCHANGED <<inputs, outcome, pages, stopped, progressVars, slack, postFaults>>

\* UpdateJobStatus(completed or failed); the formatted result is split into
\* at most maxMessages pages.
SaveStatus ==
    /\ pc = "status"
    /\ Exec(UpdateJobStatus(rows, jobID, IF outcome = "ok" THEN "completed" ELSE "failed"))
    /\ IF url = "none"
         THEN pc' = "done" /\ UNCHANGED pages
         ELSE /\ pc' = "post"
              /\ \E n \in 1 .. maxMessages : pages' = [i \in 1 .. n |-> ResultPage(i, n)]
    /\ UNCHANGED <<inputs, outcome, stopped, progressVars, slack, postFaults>>

\* sendDelayedResponse for the next message; after the last one Run returns.
PostPage ==
    /\ pc = "post"
    /\ Send(Head(pages))
    /\ pages' = Tail(pages)
    /\ pc' = IF Tail(pages) = <<>> THEN "done" ELSE "post"
    /\ UNCHANGED <<inputs, rows, outcome, stopped, dbFaults, progressVars>>

-----------------------------------------------------------------------------
(* sendProgressUpdates. *)

\* Two minutes are over; a tick nobody has taken is not doubled.
Tick ==
    /\ progress \in {"select", "post"}
    /\ tick' = TRUE
    /\ UNCHANGED <<runVars, progress, updateCount, slack, postFaults>>

\* case <-done
SelectDone ==
    /\ progress = "select" /\ stopped
    /\ progress' = "ended"
    /\ UNCHANGED <<runVars, tick, updateCount, slack, postFaults>>

\* Variant: the count is compared before it is incremented.
SelectTickThenCount ==
    /\ progress = "select" /\ tick
    /\ tick' = FALSE
    /\ updateCount' = updateCount + 1
    /\ progress' = IF updateCount > maxUpdates THEN "ended" ELSE "post"
    /\ UNCHANGED <<runVars, slack, postFaults>>

\* case <-ticker.C: with a closed progressDone too either case is taken.
SelectTick ==
    /\ progress = "select" /\ tick
    /\ tick' = FALSE
    /\ updateCount' = updateCount + 1
    /\ progress' = IF updateCount + 1 > maxUpdates THEN "ended" ELSE "post"
    /\ UNCHANGED <<runVars, slack, postFaults>>

\* sendProgressMessage
PostUpdate ==
    /\ progress = "post"
    /\ Send(Update(updateCount))
    /\ progress' = "select"
    /\ UNCHANGED <<runVars, tick, updateCount>>

-----------------------------------------------------------------------------

RunStep ==
    \/ Refuse \/ Validate \/ Create \/ StartAgent
    \/ \E o \in {"ok", "err"} : AgentReturns(o)
    \/ StopProgress \/ SaveResult \/ SaveStatus \/ PostPage

ProgressStep == SelectDone \/ SelectTick \/ PostUpdate

Next == RunStep \/ ProgressStep \/ Tick

Spec == Init /\ [][Next]_vars

\* Both goroutines are scheduled, every post returns; the clock owes nothing.
FairSpec == Spec /\ WF_vars(RunStep) /\ WF_vars(ProgressStep)

-----------------------------------------------------------------------------
(* Properties. *)

ResultPages == {ResultPage(n, of) : n \in 1 .. maxMessages, of \in 1 .. maxMessages}
Message     == {Refusal} \cup ResultPages \cup {Update(n) : n \in 1 .. maxUpdates}

\* Types; the goroutine counts no more than one tick beyond its updates
\* (task_executor.go:241-245).
TypeOK ==
    /\ url \in {"none", "slack", "foreign"}
    /\ projectPath \in Path \cup {Unset}
    /\ rows \in [Job -> Row \cup {NoRow}]
    /\ pc \in {"validate", "create", "start", "agent", "stop", "result", "status", "post", "done"}
    /\ outcome \in {"none", "ok", "err"} /\ stopped \in BOOLEAN /\ tick \in BOOLEAN
    /\ pages \in Seq(Message) /\ Len(pages) <= maxMessages
    /\ progress \in {"none", "select", "post", "ended"}
    /\ updateCount \in 0 .. maxUpdates + 1
    /\ slack \in Seq(Message) /\ Len(slack) <= SlackLimit
    /\ dbFaults \in 0 .. MaxFaults /\ postFaults \in 0 .. MaxFaults

\* However the progress messages fall, one use of response_url is left for
\* the first message of the result (task_executor.go:229), also when updates
\* are still under way after Run has begun to post it.
ResultHasRoom ==
    pc = "done" /\ url = "slack" /\ postFaults = 0 =>
        \E m \in Range(slack) : m.kind = "refusal" \/ (m.kind = "page" /\ m.no = 1)

\* A user who reads the result and follows its hint "/cursor show" (line
\* 382) finds the job, with the outcome the message speaks of.
ShowWorksWhenTold ==
    dbFaults = 0 /\ (\E m \in Range(slack) : m.kind = "page") =>
        LET row == GetJob(rows, jobID)
        IN  /\ row # NoRow
            /\ row.status = IF outcome = "ok" THEN "completed" ELSE "failed"
            /\ row.result

\* Run returns and frees its worker, whatever the goroutine is doing and
\* whether or not it has ended before (task_executor.go:120).
WorkerIsFreed == <>(pc = "done")

\* Where JobLifecycle has Run: it does not see progressDone, and takes the
\* messages as one report.
Stage == IF pc = "stop" THEN "result" ELSE IF pc = "post" THEN "report" ELSE pc

\* A function on jobs that says x of this job.
Own(x, others) == [j \in Job |-> IF j = jobID THEN x ELSE others]

Lifecycle(slackJobs) == INSTANCE JobLifecycle WITH
    SlackJob <- slackJobs, SyncJob <- Job \ slackJobs, AsyncJob <- {}, Blank <- {},
    EnvPath <- Unset, MaxWorkers <- 1, MaxRestarts <- 0, MaxSets <- 0,
    server   <- "up",
    req      <- [j \in Job |-> "done"],
    reqPath  <- [j \in Job |-> Unset],
    answer   <- [j \in Job |-> "none"],
    line     <- <<>>,
    run      <- Own(Stage, "none"),
    runPath  <- Own(IF pc = "validate" THEN Unset ELSE projectPath, Unset),
    outcome  <- Own(outcome, "none"),
    agents   <- {j \in {jobID} : pc = "agent"},
    faults   <- dbFaults, restarts <- 0, sets <- 0

\* Whatever the ticker and Slack do, the database sees of Run what
\* JobLifecycle says of it: the statements of task_executor.go:100-141 in
\* their order, each once, and the report behind them.
ImplementsRun ==
    [][IF url = "none" THEN Lifecycle({})!RunStep(jobID)
                       ELSE Lifecycle(Job)!RunStep(jobID)]_(Lifecycle(Job)!vars)

\* The goroutine does not outlive Run for ever (task_executor.go:234-237).
ProgressEnds == pc = "done" ~> progress \in {"none", "ended"}
=============================================================================
