---------------------------- MODULE JobLifecycle ----------------------------
(***************************************************************************)
(* A job from its HTTP request to its row in the database: the handlers of *)
(* internal/server, the executor's Run step by step, the poll of a         *)
(* synchronous client, the project path that all of them share, database  *)
(* statements that fail, and the end and restart of the server process.    *)
(* The worker pool is taken as the line JobService promises, and the whole *)
(* is shown to keep that promise across crashes and restarts.              *)
(***************************************************************************)
EXTENDS JobStore

CONSTANTS
    SlackJob,     \* jobs from POST /slack/cursor
    SyncJob,      \* jobs from POST /api/cursor, async = false
    AsyncJob,     \* jobs from POST /api/cursor, async = true
    Blank,        \* API jobs whose prompt is white space only
    Unset,        \* projectPath = ""
    EnvPath,      \* the path main takes from the environment, or Unset
    MaxWorkers,
    MaxFaults,    \* bound: database statements that fail
    MaxRestarts,  \* bound: starts of the server after the first
    MaxSets       \* bound: changes of the project path

ASSUME KindAssumption ==
    /\ Job = SlackJob \cup SyncJob \cup AsyncJob
    /\ SlackJob \cap (SyncJob \cup AsyncJob) = {} /\ SyncJob \cap AsyncJob = {}
    /\ Blank \subseteq SyncJob \cup AsyncJob
ASSUME PathAssumption == Unset \notin Path /\ EnvPath \in Path \cup {Unset}
ASSUME BoundAssumption ==
    /\ MaxWorkers \in Nat \ {0}
    /\ {MaxFaults, MaxRestarts, MaxSets} \subseteq Nat

VARIABLES
    server,       \* "up", "stopping" (JobQueue closed) or "down"
    projectPath,  \* Config.projectPath
    rows,         \* the database; it alone survives the process
    req,          \* where each job's HTTP handler is
    reqPath,      \* the path the API handler read
    answer,       \* what the client was told
    line,         \* jobs waiting for a worker
    run,          \* where each job is on its way through the pool and Run
    runPath,      \* the path Run read
    outcome,      \* how cursor-agent ended
    agents,       \* jobs whose cursor-agent process is alive
    faults, restarts, sets   \* counters of the bounded events

handlerVars == <<req, reqPath, answer>>
runVars     == <<line, run, runPath, outcome, agents>>
envVars     == <<faults, restarts, sets>>
vars == <<server, projectPath, rows, handlerVars, runVars, envVars>>

ApiJob == SyncJob \cup AsyncJob
Alive  == server # "down"

\* Stages in which a job occupies a worker.
Active == {j \in Job : run[j] \in {"validate", "create", "start", "agent",
                                   "result", "status", "report"}}

Init ==
    /\ server = "up" /\ projectPath = EnvPath
    /\ rows = [j \in Job |-> NoRow]
    /\ req = [j \in Job |-> "new"]
    /\ reqPath = [j \in Job |-> Unset]
    /\ answer = [j \in Job |-> "none"]
    /\ line = <<>>
    /\ run = [j \in Job |-> "none"]
    /\ runPath = [j \in Job |-> Unset]
    /\ outcome = [j \in Job |-> "none"]
    /\ agents = {}
    /\ faults = 0 /\ restarts = 0 /\ sets = 0

\* A database statement takes effect, or fails and is only logged.
Exec(newRows) ==
    \/ rows' = newRows /\ UNCHANGED faults
    \/ faults < MaxFaults /\ faults' = faults + 1 /\ UNCHANGED rows

-----------------------------------------------------------------------------
(* Project path. *)

\* Variant: a blank path is taken, and unsets it.
SetAnyPath(p) ==
    /\ server = "up" /\ sets < MaxSets
    /\ projectPath' \in {p, Unset}
    /\ sets' = sets + 1
    /\ UNCHANGED <<server, rows, handlerVars, runVars, faults, restarts>>

\* POST /api/config/project-path and /cursor set-path: both refuse a blank
\* path, neither looks at the jobs under way.
SetProjectPath(p) ==
    /\ server = "up" /\ sets < MaxSets
    /\ projectPath' = p
    /\ sets' = sets + 1
    /\ UNCHANGED <<server, rows, handlerVars, runVars, faults, restarts>>

-----------------------------------------------------------------------------
(* Handlers. *)

\* HandleSlashCursor with a prompt: ACK, then a goroutine submits. Neither
\* the path nor the database is looked at.
SlackRequest(j) ==
    /\ server = "up" /\ j \in SlackJob /\ req[j] = "new"
    /\ req' = [req EXCEPT ![j] = "done"]
    /\ answer' = [answer EXCEPT ![j] = "ack"]
    /\ run' = [run EXCEPT ![j] = "sending"]
    /\ UNCHANGED <<server, projectPath, rows, reqPath, line, runPath, outcome, agents, envVars>>

\* Variant: the path is read but not checked.
ApiRequestUnchecked(j) ==
    /\ server = "up" /\ j \in ApiJob /\ req[j] = "new"
    /\ req' = [req EXCEPT ![j] = "create"]
    /\ reqPath' = [reqPath EXCEPT ![j] = projectPath]
    /\ UNCHANGED <<server, projectPath, rows, answer, runVars, envVars>>

\* HandleAPICursor reads the path; without one the client gets a 400.
ApiRequest(j) ==
    /\ server = "up" /\ j \in ApiJob /\ req[j] = "new"
    /\ IF projectPath = Unset
         THEN /\ req' = [req EXCEPT ![j] = "done"]
              /\ answer' = [answer EXCEPT ![j] = "badRequest"]
              /\ UNCHANGED reqPath
         ELSE /\ req' = [req EXCEPT ![j] = "create"]
              /\ reqPath' = [reqPath EXCEPT ![j] = projectPath]
              /\ UNCHANGED answer
    /\ UNCHANGED <<server, projectPath, rows, runVars, envVars>>

\* CreateJob with the path the handler read; an error is only logged.
ApiCreate(j) ==
    /\ Alive /\ req[j] = "create"
    /\ Exec(CreateJob(rows, j, reqPath[j]))
    /\ req' = [req EXCEPT ![j] = "submit"]
    /\ UNCHANGED <<server, projectPath, reqPath, answer, runVars, restarts, sets>>

\* go func() { cfg.JobQueue <- job }(); an asynchronous client is told
\* "accepted", a synchronous one is kept polling.
ApiSubmit(j) ==
    /\ Alive /\ req[j] = "submit"
    /\ run' = [run EXCEPT ![j] = "sending"]
    /\ IF j \in AsyncJob
         THEN /\ req' = [req EXCEPT ![j] = "done"]
              /\ answer' = [answer EXCEPT ![j] = "accepted"]
         ELSE /\ req' = [req EXCEPT ![j] = "poll"]
              /\ UNCHANGED answer
    /\ UNCHANGED <<server, projectPath, rows, reqPath, line, runPath, outcome, agents, envVars>>

\* A tick of the poll that finds the job finished; every other tick, also
\* one on which GetJob fails, changes nothing.
PollAnswers(j) ==
    /\ Alive /\ req[j] = "poll"
    /\ LET row == GetJob(rows, j)
       IN  /\ row # NoRow /\ row.status \in Terminal
           /\ answer' = [answer EXCEPT ![j] =
                IF row.status = "completed" THEN "success" ELSE "error"]
    /\ req' = [req EXCEPT ![j] = "done"]
    /\ UNCHANGED <<server, projectPath, rows, reqPath, runVars, envVars>>

\* Variant: the clock is looked at only when the row could be read.
PollTimesOutOnRow(j) ==
    /\ Alive /\ req[j] = "poll" /\ GetJob(rows, j) # NoRow
    /\ req' = [req EXCEPT ![j] = "done"]
    /\ answer' = [answer EXCEPT ![j] = "timeout"]
    /\ UNCHANGED <<server, projectPath, rows, reqPath, runVars, envVars>>

\* The handler's own 15 minutes are over: 408.
PollTimesOut(j) ==
    /\ Alive /\ req[j] = "poll"
    /\ req' = [req EXCEPT ![j] = "done"]
    /\ answer' = [answer EXCEPT ![j] = "timeout"]
    /\ UNCHANGED <<server, projectPath, rows, reqPath, runVars, envVars>>

-----------------------------------------------------------------------------
(* Queries: what a client would be told now. *)

\* GET /api/jobs/{id}: GetJob reports an unknown id as an error too, so that
\* no answer is a 404.
HandleGetJob(j) == IF GetJob(rows, j) # NoRow THEN 200 ELSE 500

\* /cursor show <id>: the job's status, or "no such job".
handleShowCommand(j) == IF GetJob(rows, j) # NoRow THEN rows[j].status ELSE "notFound"

\* /cursor list: the ten newest jobs of all users, or a message that the list
\* could not be read; an empty list has a message of its own.
handleListCommand ==
    IF ListFails(rows, 10, 0, "")
      THEN [shown |-> FALSE, jobs |-> <<>>]
      ELSE [shown |-> TRUE, jobs |-> Page(rows, 10, 0, "")]

\* GET /api/jobs
HandleListJobs(limit, offset, status) ==
    IF ListFails(rows, limit, offset, status)
      THEN [code |-> 500, jobs |-> <<>>]
      ELSE [code |-> 200, jobs |-> Page(rows, limit, offset, status)]

-----------------------------------------------------------------------------
(* The pool, as JobService has it. *)

\* cfg.JobQueue <- job; on the closed queue the panic is recovered.
Enqueue(j) ==
    /\ Alive /\ run[j] = "sending"
    /\ IF server = "up"
         THEN /\ line' = Append(line, j)
              /\ run' = [run EXCEPT ![j] = "queued"]
         ELSE /\ run' = [run EXCEPT ![j] = "lost"]
              /\ UNCHANGED line
    /\ UNCHANGED <<server, projectPath, rows, handlerVars, runPath, outcome, agents, envVars>>

\* Variant: a goroutine per job instead of a worker.
StartUnlimited ==
    /\ Alive /\ line # <<>>
    /\ run' = [run EXCEPT ![Head(line)] = "validate"]
    /\ line' = Tail(line)
    /\ UNCHANGED <<server, projectPath, rows, handlerVars, runPath, outcome, agents, envVars>>

\* A free worker takes the head of the line.
Start ==
    /\ Alive /\ line # <<>>
    /\ Cardinality(Active) < MaxWorkers
    /\ run' = [run EXCEPT ![Head(line)] = "validate"]
    /\ line' = Tail(line)
    /\ UNCHANGED <<server, projectPath, rows, handlerVars, runPath, outcome, agents, envVars>>

-----------------------------------------------------------------------------
(* TaskExecutor.Run. *)

\* The prompt and the path are checked; a job that fails a check ends here,
\* with a message for Slack and no word to the database.
Validate(j) ==
    /\ Alive /\ run[j] = "validate"
    /\ IF j \in Blank \/ projectPath = Unset
         THEN /\ run' = [run EXCEPT ![j] = IF j \in SlackJob THEN "report" ELSE "done"]
              /\ UNCHANGED runPath
         ELSE /\ run' = [run EXCEPT ![j] = "create"]
              /\ runPath' = [runPath EXCEPT ![j] = projectPath]
    /\ UNCHANGED <<server, projectPath, rows, handlerVars, line, outcome, agents, envVars>>

\* cfg.DB.CreateJob, the second time for an API job.
RunCreate(j) ==
    /\ Alive /\ run[j] = "create"
    /\ Exec(CreateJob(rows, j, runPath[j]))
    /\ run' = [run EXCEPT ![j] = "start"]
    /\ UNCHANGED <<server, projectPath, handlerVars, line, runPath, outcome, agents, restarts, sets>>

\* UpdateJobStatus(running), then cmd.Start.
RunStart(j) ==
    /\ Alive /\ run[j] = "start"
    /\ Exec(UpdateJobStatus(rows, j, "running"))
    /\ run' = [run EXCEPT ![j] = "agent"]
    /\ agents' = agents \cup {j}
    /\ UNCHANGED <<server, projectPath, handlerVars, line, runPath, outcome, restarts, sets>>

\* executeCursorCommand returns: the agent exited, could not be started, or
\* was killed after 15 minutes; the last two are errors like the first.
AgentEnds(j, o) ==
    /\ Alive /\ run[j] = "agent"
    /\ outcome' = [outcome EXCEPT ![j] = o]
    /\ run' = [run EXCEPT ![j] = "result"]
    /\ agents' = agents \ {j}
    /\ UNCHANGED <<server, projectPath, rows, handlerVars, line, runPath, envVars>>

\* Variant: after a failure Run returns without the final status.
SaveResultAndReturn(j) ==
    /\ Alive /\ run[j] = "result"
    /\ Exec(UpdateJobResult(rows, j))
    /\ run' = [run EXCEPT ![j] = IF outcome[j] = "ok" THEN "status" ELSE "done"]
    /\ UNCHANGED <<server, projectPath, handlerVars, line, runPath, outcome, agents, restarts, sets>>

\* UpdateJobResult(output, error)
SaveResult(j) ==
    /\ Alive /\ run[j] = "result"
    /\ Exec(UpdateJobResult(rows, j))
    /\ run' = [run EXCEPT ![j] = "status"]
    /\ UNCHANGED <<server, projectPath, handlerVars, line, runPath, outcome, agents, restarts, sets>>

\* Variant: the error branch falls through to the success branch.
SaveStatusAlwaysCompleted(j) ==
    /\ Alive /\ run[j] = "status"
    /\ Exec(UpdateJobStatus(rows, j, "completed"))
    /\ run' = [run EXCEPT ![j] = IF j \in SlackJob THEN "report" ELSE "done"]
    /\ UNCHANGED <<server, projectPath, handlerVars, line, runPath, outcome, agents, restarts, sets>>

\* UpdateJobStatus(completed or failed); Slack jobs go on to their messages.
SaveStatus(j) ==
    /\ Alive /\ run[j] = "status"
    /\ Exec(UpdateJobStatus(rows, j, IF outcome[j] = "ok" THEN "completed" ELSE "failed"))
    /\ run' = [run EXCEPT ![j] = IF j \in SlackJob THEN "report" ELSE "done"]
    /\ UNCHANGED <<server, projectPath, handlerVars, line, runPath, outcome, agents, restarts, sets>>

\* The messages to response_url are sent and Run returns; http.Post has no
\* timeout, so that it may never come to this.
Report(j) ==
    /\ Alive /\ run[j] = "report"
    /\ run' = [run EXCEPT ![j] = "done"]
    /\ UNCHANGED <<server, projectPath, rows, handlerVars, line, runPath, outcome, agents, envVars>>

-----------------------------------------------------------------------------
(* The server process. *)

\* The shutdown closes JobQueue; what runs may finish.
Shutdown ==
    /\ server = "up"
    /\ server' = "stopping"
    /\ UNCHANGED <<projectPath, rows, handlerVars, runVars, envVars>>

\* The process ends: main returns (all workers done, or after 30 seconds),
\* or it crashes. Jobs and open requests are lost; agents run in process
\* groups of their own, and nobody kills them.
ProcessEnds ==
    /\ Alive
    /\ server' = "down"
    /\ run' = [j \in Job |->
         IF run[j] = "sending" \/ j \in Range(line) \/ j \in Active THEN "lost" ELSE run[j]]
    /\ line' = <<>>
    /\ req' = [j \in Job |-> IF req[j] = "new" THEN "new" ELSE "done"]
    /\ answer' = [j \in Job |->
         IF req[j] \in {"create", "submit", "poll"} THEN "cut" ELSE answer[j]]
    /\ UNCHANGED <<projectPath, rows, reqPath, runPath, outcome, agents, envVars>>

\* Variant: initTables drops the table before it creates it.
RestartRecreatesTable ==
    /\ server = "down" /\ restarts < MaxRestarts
    /\ server' = "up"
    /\ projectPath' = EnvPath
    /\ rows' = [j \in Job |-> NoRow]
    /\ restarts' = restarts + 1
    /\ UNCHANGED <<handlerVars, runVars, faults, sets>>

\* main starts again: the table is kept as it is (CREATE TABLE IF NOT
\* EXISTS), the path comes from the environment, nothing is resumed.
Restart ==
    /\ server = "down" /\ restarts < MaxRestarts
    /\ server' = "up"
    /\ projectPath' = EnvPath
    /\ restarts' = restarts + 1
    /\ UNCHANGED <<rows, handlerVars, runVars, faults, sets>>

\* An agent whose server is gone ends on its own.
OrphanAgentEnds(j) ==
    /\ j \in agents /\ run[j] = "lost"
    /\ agents' = agents \ {j}
    /\ UNCHANGED <<server, projectPath, rows, handlerVars, line, run, runPath, outcome, envVars>>

-----------------------------------------------------------------------------

HandlerStep(j) ==
    SlackRequest(j) \/ ApiRequest(j) \/ ApiCreate(j) \/ ApiSubmit(j)
      \/ PollAnswers(j) \/ PollTimesOut(j)

\* The steps of a job that always come to an end.
BoundedStep(j) ==
    \/ Enqueue(j) \/ Validate(j) \/ RunCreate(j) \/ RunStart(j)
    \/ \E o \in {"ok", "err"} : AgentEnds(j, o)
    \/ SaveResult(j) \/ SaveStatus(j)

RunStep(j) == BoundedStep(j) \/ Report(j)

ProcessStep == Shutdown \/ ProcessEnds \/ Restart \/ \E j \in Job : OrphanAgentEnds(j)

Next ==
    \/ Start
    \/ ProcessStep
    \/ \E p \in Path : SetProjectPath(p)
    \/ \E j \in Job : HandlerStep(j) \/ RunStep(j)

Spec == Init /\ [][Next]_vars

\* Handlers and workers make progress, a poll has its row or its 15 minutes,
\* and executeCursorCommand returns after 15 minutes at the latest. Reports
\* owe nothing: a post may hang for ever and keep its worker. Neither do
\* clients, signals and crashes.
Fairness ==
    /\ WF_vars(Start)
    /\ \A j \in Job : WF_vars(ApiCreate(j) \/ ApiSubmit(j))
    /\ \A j \in Job : WF_vars(PollAnswers(j) \/ PollTimesOut(j))
    /\ \A j \in Job : WF_vars(BoundedStep(j))

FairSpec == Spec /\ Fairness

-----------------------------------------------------------------------------
(* Properties. *)

\* Types: in particular every row carries a path that was really set, the
\* one the API handler checked or the one Run checked.
TypeOK ==
    /\ server \in {"up", "stopping", "down"}
    /\ projectPath \in Path \cup {Unset}
    /\ rows \in [Job -> Row \cup {NoRow}]
    /\ req \in [Job -> {"new", "create", "submit", "poll", "done"}]
    /\ reqPath \in [Job -> Path \cup {Unset}]
    /\ answer \in [Job -> {"none", "ack", "badRequest", "accepted", "success",
                           "error", "timeout", "cut"}]
    /\ line \in Seq(Job)
    /\ run \in [Job -> {"none", "sending", "queued", "validate", "create", "start",
                        "agent", "result", "status", "report", "done", "lost"}]
    /\ runPath \in [Job -> Path \cup {Unset}]
    /\ outcome \in [Job -> {"none", "ok", "err"}]
    /\ agents \in SUBSET Job
    /\ faults \in 0 .. MaxFaults /\ restarts \in 0 .. MaxRestarts /\ sets \in 0 .. MaxSets

Rank == [pending |-> 0, running |-> 1, completed |-> 2, failed |-> 2]

\* A row's status only moves from pending over running to a final one, and
\* rows are never lost or made anew, although two callers create the same
\* row (handlers.go:223, task_executor.go:100) and statements fail.
StatusNeverRegresses ==
    [][\A j \in Job : rows[j] # NoRow =>
         /\ rows'[j] # NoRow
         /\ Rank[rows'[j].status] >= Rank[rows[j].status]
         /\ rows[j].status \in Terminal => rows'[j].status = rows[j].status]_vars

\* A final status in the table is the outcome of an agent that really ended,
\* also after failed statements, crashes and restarts.
RecordedOutcomeIsReal ==
    \A j \in Job : rows[j] # NoRow =>
        /\ rows[j].status = "completed" => outcome[j] = "ok"
        /\ rows[j].status = "failed" => outcome[j] = "err"

\* A synchronous client that is told success or error gets the outcome and
\* a stored output with it: the answer never precedes UpdateJobResult, even
\* when that statement failed (handlers.go:291-320).
AnswerIsComplete ==
    \A j \in SyncJob : answer[j] \in {"success", "error"} =>
        /\ outcome[j] = IF answer[j] = "success" THEN "ok" ELSE "err"
        /\ rows[j].result

\* Nobody holds up the list of jobs once all work is done: in a server that
\* was not restarted, without failed statements and blank prompts, every page
\* of the list can be read whenever no job is under way.
IdleListWorks ==
    /\ server = "up" /\ restarts = 0 /\ faults = 0
    /\ \A j \in Job : req[j] \in {"new", "done"} /\ run[j] \in {"none", "done"}
    /\ \A j \in Blank : run[j] = "none"
    => /\ handleListCommand.shown
       /\ \A limit, offset \in 0 .. Cardinality(Stored(rows)), status \in Statuses \cup {""} :
            HandleListJobs(limit, offset, status).code = 200

\* A job on its way from the handler's INSERT to Run's last UPDATE.
UnderWay(j) ==
    \/ req[j] \in {"create", "submit"}
    \/ run[j] \in {"sending", "queued", "validate", "create", "start", "agent",
                   "result", "status"}

\* A row nobody works on any more is final and can be read, unless the process
\* ended or closed its queue before the job was through, the prompt was blank,
\* or a statement failed. There is no other way to be forgotten: not by a
\* change of the path between its two readers (handlers.go:207,
\* task_executor.go:78), not by a post that hangs (line 845), not by a restart
\* in which others work on.
ForgottenForAReason ==
    \A j \in Job : rows[j] # NoRow /\ ~UnderWay(j) =>
        \/ rows[j].status \in Terminal /\ HandleGetJob(j) = 200
        \/ run[j] = "lost" \/ answer[j] = "cut"
        \/ j \in Blank \/ faults > 0

\* All workers are kept for ever by posts that are never answered.
AllWorkersHang == <>[](Cardinality({j \in SlackJob : run[j] = "report"}) >= MaxWorkers)

\* While the server it was given to is up, the database works and one worker
\* does not hang, an accepted job with a prompt gets a final status in the
\* table: Run's bounded steps free the workers (task_executor.go:115).
AcceptedIsRecorded ==
    AllWorkersHang \/ \A j \in AsyncJob \ Blank :
        answer[j] = "accepted" ~>
            \/ rows[j] # NoRow /\ rows[j].status \in Terminal
            \/ server # "up" \/ restarts > 0 \/ faults > 0

\* A synchronous client does not wait for ever, whatever becomes of its job,
\* of its row, of the workers and of the server (handlers.go:282).
SyncIsAnswered == \A j \in SyncJob : req[j] = "poll" ~> req[j] = "done"

Service == INSTANCE JobService WITH
    open     <- server = "up",
    waiting  <- line,
    running  <- Active,
    finished <- {j \in Job : run[j] = "done"},
    dropped  <- {j \in Job : run[j] = "lost"},
    Hang     <- {},
    Restarts <- TRUE

\* Through handlers, Run, shutdown, crash and restart the jobs keep the
\* promise of the pool: in order, once, MaxWorkers at a time, and a job that
\* an earlier process gave up is not run by a later one.
ImplementsJobService == Service!Spec

-----------------------------------------------------------------------------
(* What the documentation and the comments say, and the code does not do. *)

\* README.md:14 and handlers.go:322: a job's status can be queried while it
\* is pending or running.
StoredJobIsReadable ==
    \A j \in Job : rows[j] # NoRow =>
        /\ HandleGetJob(j) = 200
        /\ handleShowCommand(j) = rows[j].status
=============================================================================
