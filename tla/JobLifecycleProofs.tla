------------------------- MODULE JobLifecycleProofs -------------------------
(***************************************************************************)
(* Proofs about JobLifecycle for any jobs, paths and workers, and any      *)
(* number of failed statements, restarts and changes of the path.          *)
(***************************************************************************)
EXTENDS JobLifecycle, JobStoreProofs, SequenceTheorems

-----------------------------------------------------------------------------
(* The inductive invariant, part by part. *)

\* Before cursor-agent has ended a job has no outcome.
Fresh == {"none", "sending", "queued", "validate", "create", "start", "agent"}

\* Whoever creates a row has read a path that was set.
PathInv ==
    \A j \in Job :
        /\ req[j] = "create" => reqPath[j] \in Path
        /\ run[j] = "create" => runPath[j] \in Path

Typing == TypeOK /\ IsFiniteSet(Stored(rows)) /\ PathInv

\* A job is submitted once.
ReqInv == \A j \in Job : req[j] \in {"new", "create", "submit"} => run[j] = "none"

\* The line holds queued jobs, each of them once.
LineInv ==
    /\ \A i \in 1 .. Len(line) : run[line[i]] = "queued"
    /\ \A i, k \in 1 .. Len(line) : line[i] = line[k] => i = k

\* No job waits or runs in a server that is down.
DownInv == server = "down" => line = <<>> /\ Active = {}

\* Run knows the outcome when it writes it, and not before.
OutcomeInv ==
    \A j \in Job :
        /\ run[j] \in Fresh => outcome[j] = "none"
        /\ run[j] \in {"result", "status"} => outcome[j] # "none"

Flow == ReqInv /\ LineInv /\ DownInv /\ OutcomeInv

\* A client that was told an outcome was told that of a finished row.
AnswerInv ==
    \A j \in Job : answer[j] \in {"success", "error"} =>
        /\ rows[j] # NoRow /\ rows[j].result
        /\ rows[j].status = IF answer[j] = "success" THEN "completed" ELSE "failed"

IInv == Typing /\ Flow /\ RecordedOutcomeIsReal /\ AnswerInv

-----------------------------------------------------------------------------

\* Nothing was asked for and nothing is stored.
LEMMA Initially == Init => IInv
  <1> SUFFICES ASSUME Init PROVE IInv
    OBVIOUS
  <1>1. TypeOK
    BY PathAssumption, BoundAssumption, EmptySeq DEF Init, TypeOK
  <1>2. Stored(rows) = {} /\ IsFiniteSet({})
    BY FS_EmptySet DEF Init, Stored
  <1>3. PathInv /\ RecordedOutcomeIsReal /\ AnswerInv
    BY DEF Init, PathInv, RecordedOutcomeIsReal, AnswerInv
  <1>4. Flow
    BY EmptySeq DEF Init, Flow, ReqInv, LineInv, DownInv, OutcomeInv, Fresh
  <1> QED BY <1>1, <1>2, <1>3, <1>4 DEF IInv, Typing

\* The types.
LEMMA TypeStep == Typing /\ [Next]_vars => Typing'
  <1> SUFFICES ASSUME Typing, [Next]_vars PROVE Typing'
    OBVIOUS
  <1> USE PathAssumption, BoundAssumption
      DEF Typing, TypeOK, PathInv, handlerVars, runVars, envVars
  <1>1. CASE Start
    <2>1. Head(line) \in Job /\ Tail(line) \in Seq(Job)
      BY <1>1, HeadTailProperties DEF Start
    <2> QED BY <1>1, <2>1 DEF Start
  <1>2. CASE Shutdown
    BY <1>2 DEF Shutdown
  <1>3. CASE ProcessEnds
    <2>1. /\ run' \in [Job -> {"none", "sending", "queued", "validate", "create", "start",
                               "agent", "result", "status", "report", "done", "lost"}]
          /\ \A j \in Job : run'[j] = "create" => run[j] = "create"
      BY <1>3 DEF ProcessEnds
    <2>2. line' \in Seq(Job)
      BY <1>3, EmptySeq DEF ProcessEnds
    <2>3. req' \in [Job -> {"new", "create", "submit", "poll", "done"}]
          /\ \A j \in Job : req'[j] = "create" => req[j] = "create"
      BY <1>3 DEF ProcessEnds
    <2>4. answer' \in [Job -> {"none", "ack", "badRequest", "accepted", "success",
                              "error", "timeout", "cut"}]
      BY <1>3 DEF ProcessEnds
    <2>5. /\ server' = "down"
          /\ UNCHANGED <<projectPath, rows, reqPath, runPath, outcome, agents, envVars>>
      BY <1>3 DEF ProcessEnds
    <2> QED BY <2>1, <2>2, <2>3, <2>4, <2>5 DEF Stored
  <1>4. CASE Restart
    BY <1>4 DEF Restart
  <1>5. ASSUME NEW j \in Job, OrphanAgentEnds(j) PROVE Typing'
    BY <1>5 DEF OrphanAgentEnds
  <1>6. ASSUME NEW p \in Path, SetProjectPath(p) PROVE Typing'
    BY <1>6 DEF SetProjectPath
  <1>7. ASSUME NEW j \in Job, HandlerStep(j) PROVE Typing'
    <2>1. CASE SlackRequest(j)
      BY <2>1 DEF SlackRequest
    <2>2. CASE ApiRequest(j)
      BY <2>2 DEF ApiRequest
    <2>3. CASE ApiCreate(j)
      <3>1. rows' \in [Job -> Row \cup {NoRow}] /\ IsFiniteSet(Stored(rows'))
        BY <2>3, CreateJobAdds DEF ApiCreate, Exec
      <3>2. faults' \in 0 .. MaxFaults
        BY <2>3 DEF ApiCreate, Exec
      <3> QED BY <2>3, <3>1, <3>2 DEF ApiCreate, Stored
    <2>4. CASE ApiSubmit(j)
      BY <2>4 DEF ApiSubmit
    <2>5. CASE PollAnswers(j)
      BY <2>5 DEF PollAnswers
    <2>6. CASE PollTimesOut(j)
      BY <2>6 DEF PollTimesOut
    <2> QED BY <1>7, <2>1, <2>2, <2>3, <2>4, <2>5, <2>6 DEF HandlerStep
  <1>8. ASSUME NEW j \in Job, RunStep(j) PROVE Typing'
    <2>1. CASE Enqueue(j)
      <3>1. Append(line, j) \in Seq(Job)
        BY AppendProperties
      <3>2. line' \in Seq(Job)
        BY <2>1, <3>1 DEF Enqueue
      <3> QED BY <2>1, <3>2 DEF Enqueue
    <2>2. CASE Validate(j)
      <3>1. CASE j \in Blank \/ projectPath = Unset
        <4>1. /\ run' = [run EXCEPT ![j] = IF j \in SlackJob THEN "report" ELSE "done"]
              /\ UNCHANGED <<server, projectPath, rows, handlerVars, line, runPath, outcome, agents,
                             envVars>>
          BY <2>2, <3>1 DEF Validate
        <4> QED BY <4>1
      <3>2. CASE ~(j \in Blank \/ projectPath = Unset)
        <4>1. /\ run' = [run EXCEPT ![j] = "create"] /\ runPath' = [runPath EXCEPT ![j] = projectPath]
              /\ UNCHANGED <<server, projectPath, rows, handlerVars, line, outcome, agents, envVars>>
          BY <2>2, <3>2 DEF Validate
        <4> QED BY <3>2, <4>1
      <3> QED BY <3>1, <3>2
    <2>3. CASE RunCreate(j)
      <3>1. rows' \in [Job -> Row \cup {NoRow}] /\ IsFiniteSet(Stored(rows'))
        BY <2>3, CreateJobAdds DEF RunCreate, Exec
      <3>2. faults' \in 0 .. MaxFaults
        BY <2>3 DEF RunCreate, Exec
      <3> QED BY <2>3, <3>1, <3>2 DEF RunCreate, Stored
    <2>4. CASE RunStart(j)
      <3>1. rows' \in [Job -> Row \cup {NoRow}] /\ IsFiniteSet(Stored(rows'))
        BY <2>4, StatusIsSet DEF RunStart, Exec, Statuses
      <3>2. faults' \in 0 .. MaxFaults
        BY <2>4 DEF RunStart, Exec
      <3> QED BY <2>4, <3>1, <3>2 DEF RunStart, Stored
    <2>5. ASSUME NEW o \in {"ok", "err"}, AgentEnds(j, o) PROVE Typing'
      BY <2>5 DEF AgentEnds
    <2>6. CASE SaveResult(j)
      <3>1. rows' \in [Job -> Row \cup {NoRow}] /\ IsFiniteSet(Stored(rows'))
        BY <2>6, ResultIsSet DEF SaveResult, Exec
      <3>2. faults' \in 0 .. MaxFaults
        BY <2>6 DEF SaveResult, Exec
      <3> QED BY <2>6, <3>1, <3>2 DEF SaveResult, Stored
    <2>7. CASE SaveStatus(j)
      <3>1. rows' \in [Job -> Row \cup {NoRow}] /\ IsFiniteSet(Stored(rows'))
        BY <2>7, StatusIsSet DEF SaveStatus, Exec, Statuses
      <3>2. faults' \in 0 .. MaxFaults
        BY <2>7 DEF SaveStatus, Exec
      <3> QED BY <2>7, <3>1, <3>2 DEF SaveStatus, Stored
    <2>8. CASE Report(j)
      BY <2>8 DEF Report
    <2> QED BY <1>8, <2>1, <2>2, <2>3, <2>4, <2>5, <2>6, <2>7, <2>8 DEF RunStep, BoundedStep
  <1>9. CASE UNCHANGED vars
    BY <1>9 DEF vars, Stored
  <1> QED
    BY <1>1, <1>2, <1>3, <1>4, <1>5, <1>6, <1>7, <1>8, <1>9 DEF Next, ProcessStep

\* The handlers and Run ask for the statements of a job only.
LEMMA OtherRows ==
    ASSUME Typing, NEW j \in Job, ApiCreate(j) \/ RunCreate(j)
    PROVE  /\ \A k \in Job : rows[k] # NoRow \/ k # j => rows'[k] = rows[k]
           /\ rows[j] = NoRow =>
                rows'[j] = NoRow \/ (rows'[j] # NoRow /\ rows'[j].status = "pending")
  <1>1. rows \in [Job -> Row \cup {NoRow}] /\ IsFiniteSet(Stored(rows))
    BY DEF Typing, TypeOK
  <1>2. PICK p \in Path : rows' = CreateJob(rows, j, p) \/ rows' = rows
    BY DEF ApiCreate, RunCreate, Exec, Typing, PathInv
  <1> QED BY <1>1, <1>2, CreateJobAdds

\* The order of the stages.
LEMMA FlowStep == Typing /\ Flow /\ [Next]_vars => Flow'
  <1> SUFFICES ASSUME Typing, Flow, [Next]_vars PROVE Flow'
    OBVIOUS
  <1> USE DEF Typing, TypeOK, Flow, ReqInv, LineInv, DownInv, OutcomeInv, Fresh, Active, Alive,
              handlerVars, runVars, envVars
  <1>1. CASE Start
    <2>1. /\ Head(line) = line[1] /\ 1 \in 1 .. Len(line) /\ Head(line) \in Job
          /\ Tail(line) \in Seq(Job) /\ Len(Tail(line)) = Len(line) - 1
          /\ \A i \in 1 .. Len(Tail(line)) : Tail(line)[i] = line[i + 1]
      BY <1>1, HeadTailProperties DEF Start
    <2>2. LineInv'
      <3> SUFFICES ASSUME NEW i \in 1 .. Len(line')
                   PROVE  /\ run'[line'[i]] = "queued"
                          /\ \A k \in 1 .. Len(line') : line'[i] = line'[k] => i = k
        BY DEF LineInv
      <3>1. line' = Tail(line) /\ run' = [run EXCEPT ![line[1]] = "validate"]
        BY <1>1, <2>1 DEF Start
      <3>2. Len(line) \in Nat
        BY LenProperties
      <3>3. i + 1 \in 1 .. Len(line) /\ line'[i] = line[i + 1] /\ line[i + 1] # line[1]
        BY <2>1, <3>1, <3>2
      <3>4. line[i + 1] \in Job
        BY <3>3, ElementOfSeq
      <3>5. run'[line'[i]] = "queued"
        BY <3>1, <3>3, <3>4
      <3>6. ASSUME NEW k \in 1 .. Len(line'), line'[i] = line'[k] PROVE i = k
        <4>1. k + 1 \in 1 .. Len(line) /\ line'[k] = line[k + 1]
          BY <2>1, <3>1, <3>2
        <4>2. line[i + 1] = line[k + 1]
          BY <3>3, <3>6, <4>1
        <4>3. i + 1 = k + 1
          BY <3>3, <4>1, <4>2
        <4>4. i \in Int /\ k \in Int
          OBVIOUS
        <4> QED BY <4>3, <4>4
      <3> QED BY <3>5, <3>6
    <2>3. run[Head(line)] = "queued"
      BY <2>1
    <2>4. /\ run' = [run EXCEPT ![Head(line)] = "validate"]
          /\ UNCHANGED <<server, req, outcome>> /\ server # "down"
      BY <1>1 DEF Start
    <2> HIDE DEF LineInv
    <2> QED BY <2>1, <2>2, <2>3, <2>4
  <1>2. CASE Shutdown
    BY <1>2 DEF Shutdown
  <1>3. CASE ProcessEnds
    <2>1. line' = <<>> /\ Len(<<>>) = 0
      BY <1>3, EmptySeq DEF ProcessEnds
    <2>2. \A j \in Job : /\ run'[j] \notin {"sending", "validate", "create", "start", "agent",
                                            "result", "status", "report"}
                         /\ run'[j] = run[j] \/ run'[j] = "lost"
                         /\ run[j] = "none" => run'[j] = "none" \/ \E i \in 1 .. Len(line) : line[i] = j
                         /\ req'[j] \in {"new", "create", "submit"} => req[j] = "new"
      BY <1>3 DEF ProcessEnds, Range
    <2>3. UNCHANGED outcome
      BY <1>3 DEF ProcessEnds
    <2> QED BY <2>1, <2>2, <2>3
  <1>4. CASE Restart
    BY <1>4 DEF Restart
  <1>5. ASSUME NEW j \in Job, OrphanAgentEnds(j) PROVE Flow'
    BY <1>5 DEF OrphanAgentEnds
  <1>6. ASSUME NEW p \in Path, SetProjectPath(p) PROVE Flow'
    BY <1>6 DEF SetProjectPath
  <1>7. ASSUME NEW j \in Job, HandlerStep(j) PROVE Flow'
    <2>1. UNCHANGED <<line, outcome, server>> /\ server # "down"
      BY <1>7 DEF HandlerStep, SlackRequest, ApiRequest, ApiCreate, ApiSubmit, PollAnswers,
                  PollTimesOut
    <2>2. CASE SlackRequest(j) \/ ApiSubmit(j)
      <3>1. /\ run[j] = "none" /\ run' = [run EXCEPT ![j] = "sending"]
            /\ req'[j] \in {"done", "poll"} /\ \A k \in Job \ {j} : req'[k] = req[k]
        BY <2>2 DEF SlackRequest, ApiSubmit
      <3> QED BY <2>1, <3>1, ElementOfSeq
    <2>3. CASE ApiRequest(j) \/ ApiCreate(j) \/ PollAnswers(j) \/ PollTimesOut(j)
      <3>1. /\ UNCHANGED run
            /\ \A k \in Job : req'[k] \in {"new", "create", "submit"} =>
                 req[k] \in {"new", "create", "submit"}
        BY <2>3 DEF ApiRequest, ApiCreate, PollAnswers, PollTimesOut
      <3> QED BY <2>1, <3>1
    <2> QED BY <1>7, <2>2, <2>3 DEF HandlerStep
  <1>8. ASSUME NEW j \in Job, RunStep(j) PROVE Flow'
    <2>1. CASE Enqueue(j)
      <3>1. /\ run[j] = "sending" /\ UNCHANGED <<server, req, outcome>> /\ server # "down"
            /\ run'[j] \in {"queued", "lost"} /\ \A k \in Job \ {j} : run'[k] = run[k]
        BY <2>1 DEF Enqueue
      <3>2. \A i \in 1 .. Len(line) : line[i] \in Job /\ line[i] # j
        BY <3>1, ElementOfSeq
      <3>3. CASE UNCHANGED line
        BY <3>1, <3>2, <3>3
      <3>4. CASE line' = Append(line, j) /\ run'[j] = "queued"
        <4>1. /\ Len(line') = Len(line) + 1 /\ line'[Len(line) + 1] = j /\ Len(line) \in Nat
              /\ \A i \in 1 .. Len(line) : line'[i] = line[i]
          BY <3>4, AppendProperties, LenProperties
        <4>2. LineInv'
          BY <3>1, <3>2, <3>4, <4>1
        <4> HIDE DEF LineInv
        <4> QED BY <3>1, <4>2
      <3> QED BY <2>1, <3>3, <3>4 DEF Enqueue
    <2>2. CASE \/ Validate(j) \/ RunCreate(j) \/ RunStart(j) \/ SaveResult(j) \/ SaveStatus(j)
               \/ Report(j) \/ \E o \in {"ok", "err"} : AgentEnds(j, o)
      <3>1. /\ UNCHANGED <<server, req, line>> /\ server # "down"
            /\ run[j] \notin {"none", "sending", "queued"}
            /\ run'[j] \notin {"none", "sending", "queued"}
            /\ \A k \in Job \ {j} : run'[k] = run[k] /\ outcome'[k] = outcome[k]
        BY <2>2 DEF Validate, RunCreate, RunStart, SaveResult, SaveStatus, Report, AgentEnds
      <3>2. /\ run'[j] \in Fresh => outcome'[j] = "none"
            /\ run'[j] \in {"result", "status"} => outcome'[j] # "none"
        BY <2>2 DEF Validate, RunCreate, RunStart, SaveResult, SaveStatus, Report, AgentEnds
      <3>3. \A i \in 1 .. Len(line) : line[i] \in Job
        BY ElementOfSeq
      <3> QED BY <3>1, <3>2, <3>3
    <2> QED BY <1>8, <2>1, <2>2 DEF RunStep, BoundedStep
  <1>9. CASE UNCHANGED vars
    BY <1>9 DEF vars
  <1> QED
    BY <1>1, <1>2, <1>3, <1>4, <1>5, <1>6, <1>7, <1>8, <1>9 DEF Next, ProcessStep

\* What a step does to the table: a row changes as its status goes on, and
\* gets a final status only from the Run that knows the outcome.
RowsMove ==
    \A k \in Job : rows'[k] # rows[k] =>
        /\ rows'[k] # NoRow
        /\ rows[k] = NoRow => rows'[k].status = "pending"
        /\ rows[k] # NoRow =>
             /\ rows[k].result => rows'[k].result
             /\ \/ rows'[k].status = rows[k].status
                \/ outcome[k] = "none" /\ rows'[k].status = "running"
                \/ /\ run[k] = "status" /\ UNCHANGED outcome
                   /\ rows'[k].status = IF outcome[k] = "ok" THEN "completed" ELSE "failed"

LEMMA RowsStep == Typing /\ Flow /\ [Next]_vars => RowsMove
  <1> SUFFICES ASSUME Typing, Flow, [Next]_vars PROVE RowsMove
    OBVIOUS
  <1>0. rows \in [Job -> Row \cup {NoRow}]
    BY DEF Typing, TypeOK
  <1>1. CASE UNCHANGED rows
    BY <1>1 DEF RowsMove
  <1>2. ASSUME NEW j \in Job, ApiCreate(j) \/ RunCreate(j) PROVE RowsMove
    BY <1>2, OtherRows DEF RowsMove
  <1>3. ASSUME NEW j \in Job, RunStart(j) PROVE RowsMove
    <2>1. rows' = UpdateJobStatus(rows, j, "running") \/ UNCHANGED rows
      BY <1>3 DEF RunStart, Exec
    <2>2. outcome[j] = "none"
      BY <1>3 DEF RunStart, Flow, OutcomeInv, Fresh
    <2>3. "running" \in Statuses
      BY DEF Statuses
    <2>4. CASE rows' = UpdateJobStatus(rows, j, "running")
      <3>1. /\ \A k \in Job : rows[k] = NoRow \/ k # j => rows'[k] = rows[k]
            /\ rows[j] # NoRow => /\ rows'[j] # NoRow /\ rows'[j].status = "running"
                                  /\ rows'[j].result = rows[j].result
        BY <1>0, <2>3, <2>4, StatusIsSet
      <3> QED BY <2>2, <3>1 DEF RowsMove
    <2> QED BY <1>1, <2>1, <2>4
  <1>4. ASSUME NEW j \in Job, SaveResult(j) PROVE RowsMove
    <2>1. rows' = UpdateJobResult(rows, j) \/ UNCHANGED rows
      BY <1>4 DEF SaveResult, Exec
    <2> QED BY <1>0, <1>1, <2>1, ResultIsSet DEF RowsMove
  <1>5. ASSUME NEW j \in Job, SaveStatus(j) PROVE RowsMove
    <2> DEFINE final == IF outcome[j] = "ok" THEN "completed" ELSE "failed"
    <2>1. rows' = UpdateJobStatus(rows, j, final) \/ UNCHANGED rows
      BY <1>5 DEF SaveStatus, Exec
    <2>2. run[j] = "status" /\ UNCHANGED outcome
      BY <1>5 DEF SaveStatus
    <2>3. final \in Statuses
      BY DEF Statuses
    <2>4. CASE rows' = UpdateJobStatus(rows, j, final)
      <3>1. /\ \A k \in Job : rows[k] = NoRow \/ k # j => rows'[k] = rows[k]
            /\ rows[j] # NoRow => /\ rows'[j] # NoRow /\ rows'[j].status = final
                                  /\ rows'[j].result = rows[j].result
        BY <1>0, <2>3, <2>4, StatusIsSet
      <3> QED BY <2>2, <3>1 DEF RowsMove
    <2> QED BY <1>1, <2>1, <2>4
  <1>6. CASE Start \/ ProcessStep \/ (\E p \in Path : SetProjectPath(p)) \/ UNCHANGED vars
    BY <1>1, <1>6 DEF Start, ProcessStep, Shutdown, ProcessEnds, Restart, OrphanAgentEnds,
                      SetProjectPath, vars
  <1>7. ASSUME NEW j \in Job, \/ SlackRequest(j) \/ ApiRequest(j) \/ ApiSubmit(j)
                              \/ PollAnswers(j) \/ PollTimesOut(j)
        PROVE  RowsMove
    BY <1>1, <1>7 DEF SlackRequest, ApiRequest, ApiSubmit, PollAnswers, PollTimesOut
  <1>8. ASSUME NEW j \in Job, \/ Enqueue(j) \/ Validate(j) \/ Report(j)
                              \/ \E o \in {"ok", "err"} : AgentEnds(j, o)
        PROVE  RowsMove
    BY <1>1, <1>8 DEF Enqueue, Validate, Report, AgentEnds
  <1> QED
    BY <1>2, <1>3, <1>4, <1>5, <1>6, <1>7, <1>8 DEF Next, HandlerStep, RunStep, BoundedStep

\* An outcome is learnt once, before anything final is written.
LEMMA OutcomeMoves ==
    ASSUME Typing, Flow, [Next]_vars, NEW k \in Job
    PROVE  outcome'[k] # outcome[k] => outcome[k] = "none" /\ UNCHANGED rows
  <1>1. CASE \E j \in Job, o \in {"ok", "err"} : AgentEnds(j, o)
    BY <1>1 DEF AgentEnds, Typing, TypeOK, Flow, OutcomeInv, Fresh
  <1>2. CASE Start \/ ProcessStep \/ (\E p \in Path : SetProjectPath(p)) \/ UNCHANGED vars
    BY <1>2 DEF Start, ProcessStep, Shutdown, ProcessEnds, Restart, OrphanAgentEnds,
                SetProjectPath, vars, runVars
  <1>3. ASSUME NEW j \in Job, HandlerStep(j) PROVE UNCHANGED outcome
    BY <1>3 DEF HandlerStep, SlackRequest, ApiRequest, ApiCreate, ApiSubmit, PollAnswers,
                PollTimesOut, runVars
  <1>4. ASSUME NEW j \in Job, \/ Enqueue(j) \/ Validate(j) \/ RunCreate(j) \/ RunStart(j)
                              \/ SaveResult(j) \/ SaveStatus(j) \/ Report(j)
        PROVE  UNCHANGED outcome
    BY <1>4 DEF Enqueue, Validate, RunCreate, RunStart, SaveResult, SaveStatus, Report
  <1> QED BY <1>1, <1>2, <1>3, <1>4 DEF Next, RunStep, BoundedStep

\* What is final in the table is the agent's outcome.
LEMMA OutcomeStep ==
    Typing /\ Flow /\ RecordedOutcomeIsReal /\ [Next]_vars => RecordedOutcomeIsReal'
  <1> SUFFICES ASSUME Typing, Flow, RecordedOutcomeIsReal, [Next]_vars, NEW k \in Job,
                      rows'[k] # NoRow
               PROVE  /\ rows'[k].status = "completed" => outcome'[k] = "ok"
                      /\ rows'[k].status = "failed" => outcome'[k] = "err"
    BY DEF RecordedOutcomeIsReal
  <1>1. CASE rows'[k] = rows[k]
    BY <1>1, OutcomeMoves DEF RecordedOutcomeIsReal
  <1>2. CASE rows'[k] # rows[k]
    <2>1. outcome'[k] = outcome[k]
      BY <1>2, OutcomeMoves
    <2>2. outcome[k] \in {"none", "ok", "err"} /\ (run[k] = "status" => outcome[k] # "none")
      BY DEF Typing, TypeOK, Flow, OutcomeInv
    <2> QED BY <1>2, <2>1, <2>2, RowsStep DEF RowsMove, RecordedOutcomeIsReal
  <1> QED BY <1>1, <1>2

\* A final status stays.
LEMMA FinalStays ==
    ASSUME Typing, Flow, RecordedOutcomeIsReal, [Next]_vars, NEW k \in Job,
           rows[k] # NoRow, rows[k].status \in Terminal
    PROVE  rows'[k] # NoRow /\ rows'[k].status = rows[k].status
  <1>1. rows[k].status = IF outcome[k] = "ok" THEN "completed" ELSE "failed"
    BY DEF Terminal, RecordedOutcomeIsReal
  <1>2. outcome[k] # "none"
    BY DEF Terminal, RecordedOutcomeIsReal
  <1> QED BY <1>1, <1>2, RowsStep DEF RowsMove

\* The answers of synchronous clients.
LEMMA AnswerStep ==
    Typing /\ Flow /\ RecordedOutcomeIsReal /\ AnswerInv /\ [Next]_vars => AnswerInv'
  <1> SUFFICES ASSUME Typing, Flow, RecordedOutcomeIsReal, AnswerInv, [Next]_vars,
                      NEW k \in Job, answer'[k] \in {"success", "error"}
               PROVE  /\ rows'[k] # NoRow /\ rows'[k].result
                      /\ rows'[k].status = IF answer'[k] = "success" THEN "completed" ELSE "failed"
    BY DEF AnswerInv
  <1>0. answer \in [Job -> {"none", "ack", "badRequest", "accepted", "success",
                            "error", "timeout", "cut"}]
    BY DEF Typing, TypeOK
  <1>1. CASE answer'[k] = answer[k]
    <2>1. /\ rows[k] # NoRow /\ rows[k].result
          /\ rows[k].status = IF answer[k] = "success" THEN "completed" ELSE "failed"
      BY <1>1 DEF AnswerInv
    <2>2. rows'[k].status = rows[k].status /\ rows'[k] # NoRow
      BY <2>1, FinalStays DEF Terminal
    <2>3. rows'[k].result
      BY <2>1, RowsStep DEF RowsMove
    <2> QED BY <1>1, <2>1, <2>2, <2>3
  <1>2. CASE answer'[k] # answer[k]
    <2>1. ASSUME NEW j \in Job, HandlerStep(j) PROVE PollAnswers(k)
      <3>1. CASE SlackRequest(j) \/ ApiRequest(j) \/ ApiSubmit(j) \/ PollTimesOut(j) \/ ApiCreate(j)
        BY <1>0, <1>2, <3>1
           DEF SlackRequest, ApiRequest, ApiSubmit, PollTimesOut, ApiCreate
      <3>2. CASE PollAnswers(j)
        BY <1>0, <1>2, <3>2 DEF PollAnswers
      <3> QED BY <2>1, <3>1, <3>2 DEF HandlerStep
    <2>2. ~(Start \/ ProcessStep \/ (\E p \in Path : SetProjectPath(p)) \/ UNCHANGED vars)
      BY <1>0, <1>2 DEF Start, ProcessStep, Shutdown, ProcessEnds, Restart, OrphanAgentEnds,
                        SetProjectPath, vars, handlerVars
    <2>3. ASSUME NEW j \in Job PROVE ~RunStep(j)
      BY <1>2 DEF RunStep, BoundedStep, Enqueue, Validate, RunCreate, RunStart, AgentEnds, SaveResult,
                  SaveStatus, Report, handlerVars
    <2>4. PollAnswers(k)
      BY <2>1, <2>2, <2>3 DEF Next
    <2>5. /\ rows[k] # NoRow /\ Scans(rows[k]) /\ rows[k].status \in Terminal
          /\ answer'[k] = IF rows[k].status = "completed" THEN "success" ELSE "error"
          /\ UNCHANGED rows
      BY <1>0, <2>4 DEF PollAnswers, GetJob
    <2> QED BY <2>5 DEF Scans, Terminal
  <1> QED BY <1>1, <1>2

-----------------------------------------------------------------------------

\* The invariant holds in every reachable state.
THEOREM Invariance == Spec => []IInv
  <1>1. IInv /\ [Next]_vars => IInv'
    BY TypeStep, FlowStep, OutcomeStep, AnswerStep DEF IInv
  <1> QED BY Initially, <1>1, PTL DEF Spec

\* Types, and with them that every row carries a path that was really set.
THEOREM LifecycleTypeCorrect == Spec => []TypeOK
  <1>1. IInv => TypeOK
    BY DEF IInv, Typing
  <1> QED BY <1>1, Invariance, PTL

\* Whatever statements fail and however often the server dies, no row claims
\* an outcome that its agent did not have.
THEOREM OutcomesAreReal == Spec => []RecordedOutcomeIsReal
  <1>1. IInv => RecordedOutcomeIsReal
    BY DEF IInv
  <1> QED BY <1>1, Invariance, PTL

\* A synchronous client that is told an outcome is told the agent's, with the
\* output stored.
THEOREM AnswersAreComplete == Spec => []AnswerIsComplete
  <1>1. IInv => AnswerIsComplete
    <2> SUFFICES ASSUME IInv, NEW j \in SyncJob, answer[j] \in {"success", "error"}
                 PROVE  /\ outcome[j] = IF answer[j] = "success" THEN "ok" ELSE "err"
                        /\ rows[j].result
      BY DEF AnswerIsComplete
    <2>1. j \in Job
      BY KindAssumption
    <2>2. /\ rows[j] # NoRow /\ rows[j].result
          /\ rows[j].status = IF answer[j] = "success" THEN "completed" ELSE "failed"
      BY <2>1 DEF IInv, AnswerInv
    <2> QED BY <2>1, <2>2 DEF IInv, RecordedOutcomeIsReal
  <1> QED BY <1>1, Invariance, PTL

\* A row's status never goes back, and no row is lost or made anew.
THEOREM StatusesNeverRegress == Spec => StatusNeverRegresses
  <1> DEFINE Forward ==
        \A j \in Job : rows[j] # NoRow =>
          /\ rows'[j] # NoRow
          /\ Rank[rows'[j].status] >= Rank[rows[j].status]
          /\ rows[j].status \in Terminal => rows'[j].status = rows[j].status
  <1>1. IInv /\ [Next]_vars => Forward
    <2> SUFFICES ASSUME IInv, [Next]_vars, NEW j \in Job, rows[j] # NoRow
                 PROVE  /\ rows'[j] # NoRow
                        /\ Rank[rows'[j].status] >= Rank[rows[j].status]
                        /\ rows[j].status \in Terminal => rows'[j].status = rows[j].status
      OBVIOUS
    <2>1. rows[j].status \in Statuses /\ rows'[j] \in Row \cup {NoRow}
      BY TypeStep DEF IInv, Typing, TypeOK, Row
    <2>2. rows'[j] # NoRow
      BY RowsStep DEF IInv, RowsMove
    <2>3. rows'[j].status \in Statuses
      BY <2>1, <2>2 DEF Row
    <2>4. rows[j].status \in Terminal => rows'[j].status = rows[j].status
      BY FinalStays DEF IInv
    <2>5. rows'[j].status = rows[j].status \/ rows'[j].status # "pending"
      BY RowsStep DEF IInv, RowsMove
    <2>6. /\ Rank["pending"] = 0 /\ Rank["running"] = 1
          /\ Rank["completed"] = 2 /\ Rank["failed"] = 2
      BY DEF Rank
    <2> QED BY <2>1, <2>2, <2>3, <2>4, <2>5, <2>6 DEF Statuses, Terminal
  <1>2. IInv /\ [Next]_vars => [Forward]_vars
    BY <1>1
  <1> QED BY <1>2, Invariance, PTL DEF Spec, StatusNeverRegresses

-----------------------------------------------------------------------------
(* The list of jobs. *)

\* One life of the server, and no statement has failed.
Undisturbed == Alive /\ restarts = 0 /\ faults = 0

\* Then the table is as far as the job is: a row is there only because a path
\* was set, an API job's row before it is submitted, a result before the final
\* status; and what has been through Run without being refused can be scanned.
RowReady(j) ==
    /\ req[j] = "create" \/ run[j] = "create" \/ rows[j] # NoRow => projectPath # Unset
    /\ rows[j] # NoRow =>
         /\ run[j] = "none" => req[j] = "submit"
         /\ run[j] = "status" => rows[j].result
         /\ run[j] \in {"report", "done"} => j \in Blank \/ Scans(rows[j])

ListInv == Ordered(rows) /\ (Undisturbed => \A j \in Job : RowReady(j))

\* No step takes the order of creation from the table.
LEMMA OrderedStep == Typing /\ Ordered(rows) /\ [Next]_vars => Ordered(rows')
  <1> SUFFICES ASSUME Typing, Ordered(rows), [Next]_vars PROVE Ordered(rows')
    OBVIOUS
  <1>0. rows \in [Job -> Row \cup {NoRow}] /\ IsFiniteSet(Stored(rows))
    BY DEF Typing, TypeOK
  <1>1. CASE UNCHANGED rows
    BY <1>1
  <1>2. ASSUME NEW j \in Job, ApiCreate(j) \/ RunCreate(j) PROVE Ordered(rows')
    <2>1. PICK p \in Path : rows' = CreateJob(rows, j, p) \/ rows' = rows
      BY <1>2 DEF ApiCreate, RunCreate, Exec, Typing, PathInv
    <2> QED BY <1>0, <2>1, CreateJobAdds
  <1>3. ASSUME NEW j \in Job, RunStart(j) \/ SaveResult(j) \/ SaveStatus(j) PROVE Ordered(rows')
    <2>1. \/ UNCHANGED rows
          \/ rows' = UpdateJobResult(rows, j)
          \/ \E s \in Statuses : rows' = UpdateJobStatus(rows, j, s)
      BY <1>3 DEF RunStart, SaveResult, SaveStatus, Exec, Statuses
    <2> QED BY <1>0, <2>1, OrderStays
  <1>4. ASSUME Start \/ ProcessStep \/ (\E p \in Path : SetProjectPath(p)) \/ UNCHANGED vars
        PROVE  UNCHANGED rows
    BY <1>4 DEF Start, ProcessStep, Shutdown, ProcessEnds, Restart, OrphanAgentEnds,
                SetProjectPath, vars
  <1>5. ASSUME NEW j \in Job, \/ SlackRequest(j) \/ ApiRequest(j) \/ ApiSubmit(j)
                              \/ PollAnswers(j) \/ PollTimesOut(j)
                              \/ Enqueue(j) \/ Validate(j) \/ Report(j)
                              \/ \E o \in {"ok", "err"} : AgentEnds(j, o)
        PROVE  UNCHANGED rows
    BY <1>5 DEF SlackRequest, ApiRequest, ApiSubmit, PollAnswers, PollTimesOut,
                Enqueue, Validate, Report, AgentEnds
  <1> QED BY <1>1, <1>2, <1>3, <1>4, <1>5 DEF Next, HandlerStep, RunStep, BoundedStep

\* A step after which the server is undisturbed started from such a state.
LEMMA StaysUndisturbed ==
    ASSUME Typing, [Next]_vars, Undisturbed'
    PROVE  Undisturbed /\ ~ProcessEnds /\ ~Restart
  <1>0. faults \in Nat /\ restarts \in Nat /\ faults' = 0 /\ restarts' = 0 /\ server' # "down"
    BY BoundAssumption DEF Typing, TypeOK, Undisturbed, Alive
  <1>1. ~ProcessEnds /\ ~Restart
    BY <1>0 DEF ProcessEnds, Restart
  <1> USE DEF Undisturbed, Alive, Exec, handlerVars, runVars, envVars
  <1>2. ASSUME Start \/ Shutdown \/ (\E p \in Path : SetProjectPath(p)) \/ UNCHANGED vars
        PROVE  Undisturbed
    BY <1>0, <1>2 DEF Start, Shutdown, SetProjectPath, vars
  <1>3. ASSUME NEW j \in Job, HandlerStep(j) \/ OrphanAgentEnds(j) PROVE Undisturbed
    BY <1>0, <1>3 DEF HandlerStep, SlackRequest, ApiRequest, ApiCreate, ApiSubmit, PollAnswers,
                      PollTimesOut, OrphanAgentEnds
  <1>4. ASSUME NEW j \in Job, RunStep(j) PROVE Undisturbed
    BY <1>0, <1>4 DEF RunStep, BoundedStep, Enqueue, Validate, RunCreate, RunStart, AgentEnds, SaveResult,
                      SaveStatus, Report
  <1> QED BY <1>1, <1>2, <1>3, <1>4 DEF Next, ProcessStep

\* What a job's own step leaves of the other jobs.
LEMMA OthersStay ==
    ASSUME Typing, NEW j \in Job, HandlerStep(j) \/ RunStep(j), NEW k \in Job, k # j
    PROVE  rows'[k] = rows[k] /\ req'[k] = req[k] /\ run'[k] = run[k] /\ UNCHANGED projectPath
  <1>0. rows \in [Job -> Row \cup {NoRow}]
    BY DEF Typing, TypeOK
  <1>1. CASE HandlerStep(j)
    <2>1. req'[k] = req[k] /\ run'[k] = run[k] /\ UNCHANGED projectPath
      BY <1>1 DEF HandlerStep, SlackRequest, ApiRequest, ApiCreate, ApiSubmit, PollAnswers,
                  PollTimesOut, runVars, Typing, TypeOK
    <2>2. ApiCreate(j) \/ UNCHANGED rows
      BY <1>1 DEF HandlerStep, SlackRequest, ApiRequest, ApiSubmit, PollAnswers, PollTimesOut
    <2> QED BY <2>1, <2>2, OtherRows
  <1>2. CASE RunStep(j)
    <2>1. req'[k] = req[k] /\ run'[k] = run[k] /\ UNCHANGED projectPath
      BY <1>2 DEF RunStep, BoundedStep, Enqueue, Validate, RunCreate, RunStart, AgentEnds, SaveResult,
                  SaveStatus, Report, handlerVars, Typing, TypeOK
    <2>2. \/ RunCreate(j) \/ UNCHANGED rows
          \/ rows' = UpdateJobResult(rows, j)
          \/ \E s \in Statuses : rows' = UpdateJobStatus(rows, j, s)
      BY <1>2 DEF RunStep, BoundedStep, Enqueue, Validate, RunStart, AgentEnds, SaveResult,
                  SaveStatus, Report, Exec, Statuses
    <2> QED BY <1>0, <2>1, <2>2, OtherRows, StatusIsSet, ResultIsSet
  <1> QED BY <1>1, <1>2

\* A job's own steps keep its row as far as the job is.
LEMMA OwnRow ==
    ASSUME Typing, Flow, NEW j \in Job, RowReady(j), HandlerStep(j) \/ RunStep(j), faults' = faults
    PROVE  RowReady(j)'
  <1>0. /\ rows \in [Job -> Row \cup {NoRow}] /\ faults \in Nat
        /\ req \in [Job -> {"new", "create", "submit", "poll", "done"}]
        /\ run \in [Job -> {"none", "sending", "queued", "validate", "create", "start",
                            "agent", "result", "status", "report", "done", "lost"}]
        /\ req[j] \in {"new", "create", "submit"} => run[j] = "none"
    BY BoundAssumption DEF Typing, TypeOK, Flow, ReqInv
  <1> USE DEF RowReady, handlerVars, runVars
  <1>1. CASE HandlerStep(j)
    <2>1. CASE SlackRequest(j)
      BY <1>0, <2>1 DEF SlackRequest
    <2>2. CASE ApiRequest(j)
      BY <1>0, <2>2 DEF ApiRequest
    <2>3. CASE ApiCreate(j)
      BY <1>0, <2>3 DEF ApiCreate
    <2>4. CASE ApiSubmit(j)
      BY <1>0, <2>4 DEF ApiSubmit
    <2>5. CASE PollAnswers(j) \/ PollTimesOut(j)
      BY <1>0, <2>5 DEF PollAnswers, PollTimesOut
    <2> QED BY <1>1, <2>1, <2>2, <2>3, <2>4, <2>5 DEF HandlerStep
  <1>2. CASE RunStep(j)
    <2>1. CASE Enqueue(j)
      BY <1>0, <2>1 DEF Enqueue
    <2>2. CASE Validate(j)
      BY <1>0, <2>2 DEF Validate
    <2>3. CASE RunCreate(j)
      BY <1>0, <2>3 DEF RunCreate
    <2>4. CASE RunStart(j)
      <3>1. rows' = UpdateJobStatus(rows, j, "running") \/ UNCHANGED rows
        BY <2>4 DEF RunStart, Exec
      <3>2. rows'[j] # NoRow => rows[j] # NoRow
        BY <3>1 DEF UpdateJobStatus
      <3> QED BY <1>0, <2>4, <3>2 DEF RunStart
    <2>5. ASSUME NEW o \in {"ok", "err"}, AgentEnds(j, o) PROVE RowReady(j)'
      BY <1>0, <2>5 DEF AgentEnds
    <2>6. CASE SaveResult(j)
      <3>1. rows' = UpdateJobResult(rows, j)
        BY <1>0, <2>6 DEF SaveResult, Exec
      <3>2. rows'[j] # NoRow => rows[j] # NoRow /\ rows'[j].result
        BY <1>0, <3>1, ResultIsSet DEF UpdateJobResult
      <3> QED BY <1>0, <2>6, <3>2 DEF SaveResult
    <2>7. CASE SaveStatus(j)
      <3> DEFINE s == IF outcome[j] = "ok" THEN "completed" ELSE "failed"
      <3>1. rows' = UpdateJobStatus(rows, j, s)
        BY <1>0, <2>7 DEF SaveStatus, Exec
      <3>2. s \in Statuses /\ s \in Terminal
        BY DEF Statuses, Terminal
      <3> HIDE DEF s
      <3>3. rows'[j] # NoRow => rows[j] # NoRow
        BY <3>1 DEF UpdateJobStatus
      <3>4. rows[j] # NoRow => rows'[j].result = rows[j].result /\ rows'[j].completed
        BY <1>0, <3>1, <3>2, StatusIsSet
      <3> QED BY <1>0, <2>7, <3>3, <3>4 DEF SaveStatus, Scans
    <2>8. CASE Report(j)
      BY <1>0, <2>8 DEF Report
    <2> QED BY <1>2, <2>1, <2>2, <2>3, <2>4, <2>5, <2>6, <2>7, <2>8 DEF RunStep, BoundedStep
  <1> QED BY <1>1, <1>2

\* All steps.
LEMMA ListStep == Typing /\ Flow /\ ListInv /\ [Next]_vars => ListInv'
  <1> SUFFICES ASSUME Typing, Flow, ListInv, [Next]_vars PROVE ListInv'
    OBVIOUS
  <1>1. Ordered(rows')
    BY OrderedStep DEF ListInv
  <1>2. ASSUME Undisturbed', NEW k \in Job PROVE RowReady(k)'
    <2>1. Undisturbed /\ ~ProcessEnds /\ ~Restart
      BY <1>2, StaysUndisturbed
    <2>2. RowReady(k)
      BY <2>1 DEF ListInv
    <2>3. faults' = faults
      BY <1>2, <2>1 DEF Undisturbed
    <2>4. CASE Start
      <3>1. run'[k] = run[k] \/ run'[k] = "validate"
        BY <2>4 DEF Start, Typing, TypeOK
      <3>2. UNCHANGED <<rows, req, projectPath>>
        BY <2>4 DEF Start, handlerVars
      <3> QED BY <2>2, <3>1, <3>2 DEF RowReady
    <2>5. CASE Shutdown \/ (\E j \in Job : OrphanAgentEnds(j)) \/ UNCHANGED vars
      BY <2>2, <2>5 DEF Shutdown, OrphanAgentEnds, vars, handlerVars, runVars, RowReady
    <2>6. ASSUME NEW p \in Path, SetProjectPath(p) PROVE RowReady(k)'
      BY <2>2, <2>6, PathAssumption DEF SetProjectPath, handlerVars, runVars, RowReady
    <2>7. ASSUME NEW j \in Job, HandlerStep(j) \/ RunStep(j) PROVE RowReady(k)'
      <3>1. CASE k = j
        BY <2>2, <2>3, <2>7, <3>1, OwnRow
      <3>2. CASE k # j
        <4>1. rows'[k] = rows[k] /\ req'[k] = req[k] /\ run'[k] = run[k] /\ UNCHANGED projectPath
          BY <2>7, <3>2, OthersStay
        <4> QED BY <2>2, <4>1 DEF RowReady
      <3> QED BY <3>1, <3>2
    <2> QED BY <2>1, <2>4, <2>5, <2>6, <2>7 DEF Next, ProcessStep
  <1> QED BY <1>1, <1>2 DEF ListInv

\* The table is as far as the jobs are in every reachable state.
THEOREM ListInvariance == Spec => []ListInv
  <1>1. Init => ListInv
    <2> SUFFICES ASSUME Init PROVE ListInv
      OBVIOUS
    <2>1. \A j \in Job : rows[j] = NoRow /\ req[j] = "new" /\ run[j] = "none"
      BY DEF Init
    <2>2. Stored(rows) = {}
      BY <2>1 DEF Stored
    <2> QED BY <2>1, <2>2 DEF ListInv, Ordered, RowReady
  <1>2. IInv /\ ListInv /\ [Next]_vars => ListInv'
    BY ListStep DEF IInv
  <1> QED BY <1>1, <1>2, Invariance, PTL DEF Spec

\* In a server that was not restarted and whose statements took effect, the
\* list of jobs, and any page of it, can be read whenever no job is under way,
\* however many jobs there were.
THEOREM IdleListIsReadable == Spec => []IdleListWorks
  <1>1. IInv /\ ListInv => IdleListWorks
    <2> SUFFICES ASSUME IInv, ListInv,
                        server = "up", restarts = 0, faults = 0,
                        \A j \in Job : req[j] \in {"new", "done"} /\ run[j] \in {"none", "done"},
                        \A j \in Blank : run[j] = "none"
                 PROVE  /\ handleListCommand.shown
                        /\ \A limit, offset \in 0 .. Cardinality(Stored(rows)),
                              status \in Statuses \cup {""} :
                             HandleListJobs(limit, offset, status).code = 200
      BY DEF IdleListWorks
    <2>1. \A j \in Stored(rows) : Scans(rows[j])
      BY DEF ListInv, Undisturbed, Alive, RowReady, Stored
    <2>2. ASSUME NEW limit \in Nat, NEW offset \in Nat, NEW status
          PROVE  ~ListFails(rows, limit, offset, status)
      <3>1. rows \in [Job -> Row \cup {NoRow}] /\ IsFiniteSet(Stored(rows)) /\ Ordered(rows)
        BY DEF IInv, Typing, TypeOK, ListInv
      <3>2. Range(Page(rows, limit, offset, status)) \subseteq Stored(rows)
        BY <3>1, PageIsStored
      <3> QED BY <2>1, <3>2 DEF ListFails
    <2>3. handleListCommand.shown
      BY <2>2 DEF handleListCommand
    <2>4. \A limit, offset \in 0 .. Cardinality(Stored(rows)), status \in Statuses \cup {""} :
             HandleListJobs(limit, offset, status).code = 200
      <3>1. Cardinality(Stored(rows)) \in Nat
        BY FS_CardinalityType DEF IInv, Typing
      <3>2. 0 .. Cardinality(Stored(rows)) \subseteq Nat
        BY <3>1
      <3> TAKE limit, offset \in 0 .. Cardinality(Stored(rows)), status \in Statuses \cup {""}
      <3>3. ~ListFails(rows, limit, offset, status)
        BY <2>2, <3>2
      <3> QED BY <3>3 DEF HandleListJobs
    <2> QED BY <2>3, <2>4
  <1> QED BY <1>1, Invariance, ListInvariance, PTL

-----------------------------------------------------------------------------
(* Rows nobody works on any more. *)

\* How far a job and its row are: while it is under way with a row, or about to
\* get one, the path is set, so that Run does not refuse it; behind Run the
\* row is final unless there is a reason.
Explained(j) ==
    /\ req[j] = "new" => rows[j] = NoRow
    /\ answer[j] = "cut" => req[j] = "done"
    /\ faults = 0 =>
         /\ UnderWay(j) /\ (rows[j] # NoRow \/ req[j] = "create" \/ run[j] = "create")
              => projectPath # Unset
         /\ rows[j] # NoRow =>
              /\ run[j] = "status" => rows[j].result
              /\ ~UnderWay(j) => \/ rows[j].status \in Terminal /\ Scans(rows[j])
                                 \/ run[j] = "lost" \/ answer[j] = "cut" \/ j \in Blank

ReasonInv ==
    /\ server = "down" => \A j \in Job : ~UnderWay(j)
    /\ \A j \in Job : run[j] = "queued" => \E i \in 1 .. Len(line) : line[i] = j
    /\ \A j \in Job : Explained(j)

\* A status makes no row and takes none away.
LEMMA StatusMakesNoRow ==
    ASSUME NEW R \in [Job -> Row \cup {NoRow}], NEW j \in Job, NEW s \in Statuses
    PROVE  UpdateJobStatus(R, j, s)[j] = NoRow <=> R[j] = NoRow
  <1>1. CASE R[j] = NoRow
    BY <1>1 DEF UpdateJobStatus
  <1>2. CASE R[j] # NoRow
    BY <1>2, StatusIsSet
  <1> QED BY <1>1, <1>2

\* A job's own step keeps its row explained.
LEMMA OwnReason ==
    ASSUME Typing, Flow, NEW j \in Job, Explained(j), HandlerStep(j) \/ RunStep(j)
    PROVE  Explained(j)'
  <1>0. /\ rows \in [Job -> Row \cup {NoRow}] /\ faults \in Nat
        /\ req \in [Job -> {"new", "create", "submit", "poll", "done"}]
        /\ answer \in [Job -> {"none", "ack", "badRequest", "accepted", "success",
                               "error", "timeout", "cut"}]
        /\ run \in [Job -> {"none", "sending", "queued", "validate", "create", "start",
                            "agent", "result", "status", "report", "done", "lost"}]
        /\ req[j] \in {"new", "create", "submit"} => run[j] = "none"
    BY BoundAssumption DEF Typing, TypeOK, Flow, ReqInv
  <1> USE DEF Explained, UnderWay, handlerVars, runVars, envVars
  <1>1. CASE HandlerStep(j)
    <2>1. CASE SlackRequest(j)
      BY <1>0, <2>1 DEF SlackRequest
    <2>2. CASE ApiRequest(j)
      BY <1>0, <2>2 DEF ApiRequest
    <2>3. CASE ApiCreate(j)
      BY <1>0, <2>3 DEF ApiCreate, Exec
    <2>4. CASE ApiSubmit(j)
      BY <1>0, <2>4 DEF ApiSubmit
    <2>5. CASE PollAnswers(j) \/ PollTimesOut(j)
      BY <1>0, <2>5 DEF PollAnswers, PollTimesOut
    <2> QED BY <1>1, <2>1, <2>2, <2>3, <2>4, <2>5 DEF HandlerStep
  <1>2. CASE RunStep(j)
    <2>1. CASE Enqueue(j)
      BY <1>0, <2>1 DEF Enqueue
    <2>2. CASE Validate(j)
      BY <1>0, <2>2 DEF Validate
    <2>3. CASE RunCreate(j)
      <3>1. faults' = 0 => faults = 0
        BY <1>0, <2>3 DEF RunCreate, Exec
      <3>2. /\ run[j] = "create" /\ run' = [run EXCEPT ![j] = "start"]
            /\ UNCHANGED <<projectPath, req, answer>>
        BY <2>3 DEF RunCreate
      <3>3. req[j] # "new" /\ run'[j] = "start"
        BY <1>0, <3>2
      <3> QED BY <3>1, <3>2, <3>3
    <2>4. CASE RunStart(j)
      <3>1. rows' = UpdateJobStatus(rows, j, "running") \/ UNCHANGED rows
        BY <2>4 DEF RunStart, Exec
      <3>2. rows'[j] = NoRow <=> rows[j] = NoRow
        BY <1>0, <3>1, StatusMakesNoRow DEF Statuses
      <3>3. faults' = 0 => faults = 0
        BY <1>0, <2>4 DEF RunStart, Exec
      <3> QED BY <1>0, <2>4, <3>2, <3>3 DEF RunStart
    <2>5. ASSUME NEW o \in {"ok", "err"}, AgentEnds(j, o) PROVE Explained(j)'
      BY <1>0, <2>5 DEF AgentEnds
    <2>6. CASE SaveResult(j)
      <3>1. rows'[j] = NoRow <=> rows[j] = NoRow
        BY <1>0, <2>6, ResultIsSet DEF SaveResult, Exec, UpdateJobResult
      <3>2. faults' = 0 => faults = 0 /\ rows' = UpdateJobResult(rows, j)
        BY <1>0, <2>6 DEF SaveResult, Exec
      <3>3. faults' = 0 /\ rows'[j] # NoRow => rows'[j].result
        BY <1>0, <3>1, <3>2, ResultIsSet
      <3>4. /\ run[j] = "result" /\ run' = [run EXCEPT ![j] = "status"]
            /\ UNCHANGED <<projectPath, req, answer>>
        BY <2>6 DEF SaveResult
      <3>5. req[j] # "new" /\ run'[j] = "status"
        BY <1>0, <3>4
      <3> QED BY <3>1, <3>2, <3>3, <3>4, <3>5
    <2>7. CASE SaveStatus(j)
      <3> DEFINE s == IF outcome[j] = "ok" THEN "completed" ELSE "failed"
      <3>1. rows' = UpdateJobStatus(rows, j, s) \/ UNCHANGED rows
        BY <2>7 DEF SaveStatus, Exec
      <3>2. s \in Statuses /\ s \in Terminal
        BY DEF Statuses, Terminal
      <3>3. faults' = 0 => faults = 0 /\ rows' = UpdateJobStatus(rows, j, s)
        BY <1>0, <2>7 DEF SaveStatus, Exec
      <3> HIDE DEF s
      <3>4. rows'[j] = NoRow <=> rows[j] = NoRow
        BY <1>0, <3>1, <3>2, StatusMakesNoRow
      <3>5. faults' = 0 /\ rows[j] # NoRow =>
              rows'[j].result = rows[j].result /\ rows'[j].completed /\ rows'[j].status = s
        BY <1>0, <3>2, <3>3, StatusIsSet
      <3> QED BY <1>0, <2>7, <3>2, <3>3, <3>4, <3>5 DEF SaveStatus, Scans
    <2>8. CASE Report(j)
      BY <1>0, <2>8 DEF Report
    <2> QED BY <1>2, <2>1, <2>2, <2>3, <2>4, <2>5, <2>6, <2>7, <2>8 DEF RunStep, BoundedStep
  <1> QED BY <1>1, <1>2

\* What it leaves of the others'.
LEMMA OtherReasons ==
    ASSUME Typing, NEW j \in Job, HandlerStep(j) \/ RunStep(j), NEW k \in Job, k # j, Explained(k)
    PROVE  Explained(k)'
  <1>1. rows'[k] = rows[k] /\ req'[k] = req[k] /\ run'[k] = run[k] /\ UNCHANGED projectPath
    BY OthersStay
  <1>2. answer'[k] = answer[k] /\ (faults' = 0 => faults = 0)
    <2>0. faults \in Nat /\ answer \in [Job -> {"none", "ack", "badRequest", "accepted",
                                                "success", "error", "timeout", "cut"}]
      BY BoundAssumption DEF Typing, TypeOK
    <2>1. CASE HandlerStep(j)
      BY <2>0, <2>1 DEF HandlerStep, SlackRequest, ApiRequest, ApiCreate, ApiSubmit,
                        PollAnswers, PollTimesOut, Exec, envVars
    <2>2. CASE RunStep(j)
      BY <2>0, <2>2 DEF RunStep, BoundedStep, Enqueue, Validate, RunCreate, RunStart, AgentEnds,
                        SaveResult, SaveStatus, Report, Exec, handlerVars, envVars
    <2> QED BY <2>1, <2>2
  <1> QED BY <1>1, <1>2 DEF Explained, UnderWay

\* All steps.
LEMMA ReasonStep == Typing /\ Flow /\ ReasonInv /\ [Next]_vars => ReasonInv'
  <1> SUFFICES ASSUME Typing, Flow, ReasonInv, [Next]_vars PROVE ReasonInv'
    OBVIOUS
  <1>0. /\ line \in Seq(Job) /\ Len(line) \in Nat /\ DOMAIN line = 1 .. Len(line)
        /\ req \in [Job -> {"new", "create", "submit", "poll", "done"}]
        /\ run \in [Job -> {"none", "sending", "queued", "validate", "create", "start",
                            "agent", "result", "status", "report", "done", "lost"}]
        /\ \A j \in Job : Explained(j)
    BY LenProperties DEF Typing, TypeOK, ReasonInv
  <1> USE DEF handlerVars, runVars, envVars
  <1>1. CASE Start
    <2>1. /\ line # <<>> /\ line' = Tail(line) /\ run' = [run EXCEPT ![Head(line)] = "validate"]
          /\ server # "down" /\ UNCHANGED <<server, projectPath, rows, req, answer, faults>>
      BY <1>1 DEF Start, Alive
    <2>2. Head(line) = line[1] /\ Head(line) \in Job /\ run[Head(line)] = "queued"
      BY <1>0, <2>1, HeadTailProperties DEF Flow, LineInv
    <2>3. ASSUME NEW j \in Job, run'[j] = "queued" PROVE \E i \in 1 .. Len(line') : line'[i] = j
      <3>1. run[j] = "queued" /\ j # line[1]
        BY <1>0, <2>1, <2>2, <2>3
      <3>2. PICK i \in 1 .. Len(line) : line[i] = j
        BY <3>1 DEF ReasonInv
      <3>3. i - 1 \in 1 .. Len(Tail(line)) /\ Tail(line)[i - 1] = line[i]
        BY <1>0, <2>1, <3>1, <3>2, HeadTailProperties
      <3> QED BY <2>1, <3>2, <3>3
    <2>4. ASSUME NEW j \in Job PROVE Explained(j)'
      BY <1>0, <2>1, <2>2 DEF Explained, UnderWay
    <2> QED BY <2>1, <2>3, <2>4 DEF ReasonInv
  <1>2. CASE ProcessEnds
    <2>1. /\ server' = "down" /\ line' = <<>>
          /\ run' = [j \in Job |-> IF run[j] = "sending" \/ j \in Range(line) \/ j \in Active
                                     THEN "lost" ELSE run[j]]
          /\ req' = [j \in Job |-> IF req[j] = "new" THEN "new" ELSE "done"]
          /\ answer' = [j \in Job |->
               IF req[j] \in {"create", "submit", "poll"} THEN "cut" ELSE answer[j]]
          /\ UNCHANGED <<projectPath, rows, faults>>
      BY <1>2 DEF ProcessEnds
    <2>2. \A j \in Job : run[j] = "queued" => j \in Range(line)
      BY <1>0 DEF ReasonInv, Range
    <2>3. \A j \in Job : run'[j] # "queued" /\ ~UnderWay(j)'
      BY <1>0, <2>1, <2>2 DEF UnderWay, Active
    <2>4. ASSUME NEW j \in Job PROVE Explained(j)'
      <3>1. UnderWay(j) => run'[j] = "lost" \/ answer'[j] = "cut"
        BY <1>0, <2>1, <2>2 DEF UnderWay, Active
      <3>2. run[j] = "lost" => run'[j] = "lost"
        BY <2>1
      <3> QED BY <1>0, <2>1, <2>3, <3>1, <3>2 DEF Explained
    <2> QED BY <2>3, <2>4 DEF ReasonInv
  <1>3. CASE Restart
    <2>1. server = "down" /\ server' = "up" /\ UNCHANGED <<rows, req, answer, run, line, faults>>
      BY <1>3 DEF Restart
    <2>2. \A j \in Job : ~UnderWay(j)
      BY <2>1 DEF ReasonInv
    <2>3. ASSUME NEW j \in Job PROVE Explained(j)'
      BY <1>0, <2>1, <2>2 DEF Explained, UnderWay
    <2> QED BY <2>1, <2>3 DEF ReasonInv
  <1>4. CASE Shutdown \/ (\E j \in Job : OrphanAgentEnds(j)) \/ UNCHANGED vars
    <2>1. UNCHANGED <<projectPath, rows, req, answer, run, line, faults>>
      BY <1>4 DEF Shutdown, OrphanAgentEnds, vars
    <2>2. server' = "down" => server = "down"
      BY <1>4 DEF Shutdown, OrphanAgentEnds, vars
    <2>3. \A j \in Job : Explained(j)' /\ (UnderWay(j)' <=> UnderWay(j))
      BY <1>0, <2>1 DEF Explained, UnderWay
    <2> QED BY <2>1, <2>2, <2>3 DEF ReasonInv
  <1>5. ASSUME NEW p \in Path, SetProjectPath(p) PROVE ReasonInv'
    <2>1. projectPath' # Unset /\ UNCHANGED <<server, rows, req, answer, run, line, faults>>
      BY <1>5, PathAssumption DEF SetProjectPath
    <2>2. \A j \in Job : Explained(j)' /\ (UnderWay(j)' <=> UnderWay(j))
      BY <1>0, <2>1 DEF Explained, UnderWay
    <2> QED BY <2>1, <2>2 DEF ReasonInv
  <1>6. ASSUME NEW j \in Job, HandlerStep(j) \/ RunStep(j) PROVE ReasonInv'
    <2>1. ASSUME NEW k \in Job PROVE Explained(k)'
      BY <1>0, <1>6, OwnReason, OtherReasons
    <2>2. server' # "down"
      BY <1>6 DEF HandlerStep, RunStep, BoundedStep, SlackRequest, ApiRequest, ApiCreate, ApiSubmit,
                  PollAnswers, PollTimesOut, Enqueue, Validate, RunCreate, RunStart, AgentEnds,
                  SaveResult, SaveStatus, Report, Alive
    <2>3. CASE Enqueue(j) /\ server = "up"
      <3>1. line' = Append(line, j) /\ run' = [run EXCEPT ![j] = "queued"]
        BY <2>3 DEF Enqueue
      <3>2. /\ Len(line') = Len(line) + 1 /\ line'[Len(line) + 1] = j
            /\ \A i \in 1 .. Len(line) : line'[i] = line[i]
        BY <1>0, <3>1, AppendProperties
      <3>3. ASSUME NEW k \in Job, run'[k] = "queued" PROVE \E i \in 1 .. Len(line') : line'[i] = k
        <4>1. CASE k = j
          BY <1>0, <3>2, <4>1
        <4>2. CASE k # j
          <5>1. run[k] = "queued"
            BY <1>0, <3>1, <3>3, <4>2
          <5>2. PICK i \in 1 .. Len(line) : line[i] = k
            BY <5>1 DEF ReasonInv
          <5> QED BY <1>0, <3>2, <5>2
        <4> QED BY <4>1, <4>2
      <3> QED BY <2>1, <2>2, <3>3 DEF ReasonInv
    <2>4. CASE ~(Enqueue(j) /\ server = "up")
      <3>1. UNCHANGED line /\ \A k \in Job : run'[k] = "queued" => run[k] = "queued"
        BY <1>0, <1>6, <2>4
           DEF HandlerStep, RunStep, BoundedStep, SlackRequest, ApiRequest, ApiCreate, ApiSubmit,
               PollAnswers, PollTimesOut, Enqueue, Validate, RunCreate, RunStart, AgentEnds,
               SaveResult, SaveStatus, Report
      <3> QED BY <2>1, <2>2, <3>1 DEF ReasonInv
    <2> QED BY <2>3, <2>4
  <1> QED BY <1>1, <1>2, <1>3, <1>4, <1>5, <1>6 DEF Next, ProcessStep

\* Whatever was submitted, set, stopped, crashed or restarted, a row nobody
\* works on any more can be read with a final status, unless its job was lost
\* at a stop, its prompt was blank, or a statement failed.
THEOREM RowsAreNotForgotten == Spec => []ForgottenForAReason
  <1>1. Init => ReasonInv
    <2> SUFFICES ASSUME Init PROVE ReasonInv
      OBVIOUS
    <2>1. /\ server = "up"
          /\ \A j \in Job : rows[j] = NoRow /\ req[j] = "new" /\ run[j] = "none" /\ answer[j] = "none"
      BY DEF Init
    <2> QED BY <2>1 DEF ReasonInv, Explained, UnderWay
  <1>2. IInv /\ ReasonInv /\ [Next]_vars => ReasonInv'
    BY ReasonStep DEF IInv
  <1>3. IInv /\ ReasonInv => ForgottenForAReason
    <2> SUFFICES ASSUME IInv, ReasonInv, NEW j \in Job, rows[j] # NoRow, ~UnderWay(j)
                 PROVE  \/ rows[j].status \in Terminal /\ HandleGetJob(j) = 200
                        \/ run[j] = "lost" \/ answer[j] = "cut" \/ j \in Blank \/ faults > 0
      BY DEF ForgottenForAReason
    <2>1. faults \in Nat /\ Explained(j)
      BY BoundAssumption DEF IInv, Typing, TypeOK, ReasonInv
    <2>2. Scans(rows[j]) => HandleGetJob(j) = 200
      BY DEF HandleGetJob, GetJob
    <2> QED BY <2>1, <2>2 DEF Explained
  <1> QED BY <1>1, <1>2, <1>3, Invariance, PTL DEF Spec

-----------------------------------------------------------------------------
(* The refinement. *)

Unseen == {"none", "sending"}

\* JobService knows the jobs that have reached the line.
LEMMA KnownJobs ==
    ASSUME Typing, Flow, NEW j \in Job, run[j] \in Unseen
    PROVE  j \notin Service!Known
  <1>1. \A i \in 1 .. Len(line) : line[i] # j
    BY DEF Flow, LineInv, Unseen
  <1>2. j \notin Service!Range(line)
    <2>1. DOMAIN line = 1 .. Len(line)
      BY DEF Typing, TypeOK
    <2> QED BY <1>1, <2>1 DEF Service!Range
  <1> QED BY <1>2 DEF Service!Known, Active, Unseen

\* The state JobService sees, or one of its steps.
LEMMA ServiceStep ==
    Typing /\ Flow /\ [Next]_vars => [Service!Next]_Service!vars
  <1> SUFFICES ASSUME Typing, Flow, [Next]_vars
               PROVE  Service!Next \/ UNCHANGED Service!vars
    OBVIOUS
  <1> USE DEF handlerVars, runVars, envVars
  <1>0. /\ line \in Seq(Job) /\ Len(line) \in Nat /\ DOMAIN line = 1 .. Len(line)
        /\ run \in [Job -> {"none", "sending", "queued", "validate", "create", "start",
                            "agent", "result", "status", "report", "done", "lost"}]
    BY LenProperties DEF Typing, TypeOK
  <1>1. CASE Start
    <2>1. Head(line) = line[1] /\ Head(line) \in Job /\ run[line[1]] = "queued"
      BY <1>0, <1>1, HeadTailProperties DEF Start, Flow, LineInv
    <2>2. /\ run' = [run EXCEPT ![Head(line)] = "validate"] /\ UNCHANGED server
          /\ line # <<>> /\ line' = Tail(line) /\ Cardinality(Active) < MaxWorkers
      BY <1>1 DEF Start
    <2>3. Active' = Active \cup {Head(line)}
      BY <1>0, <2>1, <2>2 DEF Active
    <2>4. /\ {j \in Job : run'[j] = "done"} = {j \in Job : run[j] = "done"}
          /\ {j \in Job : run'[j] = "lost"} = {j \in Job : run[j] = "lost"}
      BY <1>0, <2>1, <2>2
    <2>5. Service!Begin
      <3> HIDE DEF Active
      <3>1. UNCHANGED <<server = "up", {j \in Job : run[j] = "done"}, {j \in Job : run[j] = "lost"}>>
        BY <2>2, <2>4
      <3>2. Service!Cardinality(Active) = Cardinality(Active)
        BY DEF Cardinality, Service!Cardinality
      <3> QED BY <2>2, <2>3, <3>1, <3>2 DEF Service!Begin
    <2> QED BY <2>5 DEF Service!Next
  <1>2. CASE Shutdown
    <2>1. /\ server = "up" /\ server' = "stopping" /\ UNCHANGED <<line, run>>
      BY <1>2 DEF Shutdown
    <2>2. Len(line) \in 0 .. Len(line) /\ SubSeq(line, 1, Len(line)) = line
      BY <1>0, SubSeqFull
    <2>3. {line[i] : i \in Len(line) + 1 .. Len(line)} = {}
      BY <1>0
    <2>4. /\ (server = "up") /\ (server = "up")' = FALSE
          /\ UNCHANGED <<Active, {j \in Job : run[j] = "done"}, {j \in Job : run[j] = "lost"}>>
      BY <2>1 DEF Active
    <2>5. Service!Close
      <3> DEFINE D == {j \in Job : run[j] = "lost"}
      <3>1. /\ line' = SubSeq(line, 1, Len(line))
            /\ D' = D \cup {line[i] : i \in Len(line) + 1 .. Len(line)}
        <4>1. UNCHANGED D
          BY <2>4
        <4> HIDE DEF D
        <4> QED BY <2>1, <2>2, <2>3, <4>1
      <3> HIDE DEF Active, D
      <3>2. \E n \in 0 .. Len(line) : /\ line' = SubSeq(line, 1, n)
                                     /\ D' = D \cup {line[i] : i \in n + 1 .. Len(line)}
        BY <2>2, <3>1
      <3> QED BY <2>4, <3>2 DEF Service!Close, D
    <2> QED BY <2>5 DEF Service!Next
  <1>3. CASE ProcessEnds
    <2> DEFINE late == {j \in Job : run[j] = "sending"}
    <2>1. /\ server' = "down" /\ line' = <<>>
          /\ run' = [j \in Job |-> IF run[j] = "sending" \/ j \in Range(line) \/ j \in Active
                                     THEN "lost" ELSE run[j]]
      BY <1>3 DEF ProcessEnds
    <2>2. Range(line) \subseteq {j \in Job : run[j] = "queued"}
      BY <1>0, ElementOfSeq DEF Range, Flow, LineInv
    <2>3. Active' = {}
      BY <1>0, <2>1 DEF Active
    <2>4. {j \in Job : run'[j] = "done"} = {j \in Job : run[j] = "done"}
      BY <1>0, <2>1, <2>2 DEF Active
    <2>5. {j \in Job : run'[j] = "lost"}
            = {j \in Job : run[j] = "lost"} \cup Range(line) \cup Active \cup late
      BY <1>0, <2>1, <2>2 DEF Active
    <2>6. late \in SUBSET (Job \ Service!Known)
      BY KnownJobs DEF Unseen
    <2>7. Range(line) = Service!Range(line)
      BY DEF Range, Service!Range
    <2>8. (server = "up")' = FALSE
      BY <2>1
    <2> HIDE DEF late
    <2>9. Service!End
      BY <2>1, <2>3, <2>4, <2>5, <2>6, <2>7, <2>8 DEF Service!End
    <2> QED BY <2>9 DEF Service!Next
  <1>4. CASE Restart
    <2>1. server = "down" /\ server' = "up" /\ UNCHANGED <<line, run>>
      BY <1>4 DEF Restart
    <2>2. line = <<>> /\ Active = {}
      BY <2>1 DEF Flow, DownInv
    <2>3. Service!Reopen
      BY <2>1, <2>2 DEF Service!Reopen, Active
    <2> QED BY <2>3 DEF Service!Next
  <1>5. CASE \/ (\E j \in Job : OrphanAgentEnds(j)) \/ (\E p \in Path : SetProjectPath(p))
             \/ UNCHANGED vars
    <2>1. UNCHANGED <<server, line, run>>
      BY <1>5 DEF OrphanAgentEnds, SetProjectPath, vars
    <2> QED BY <2>1 DEF Service!vars, Active
  <1>6. ASSUME NEW j \in Job, HandlerStep(j) PROVE UNCHANGED Service!vars
    <2>1. UNCHANGED <<server, line>>
      BY <1>6 DEF HandlerStep, SlackRequest, ApiRequest, ApiCreate, ApiSubmit, PollAnswers,
                  PollTimesOut
    <2>2. UNCHANGED run \/ (run[j] = "none" /\ run' = [run EXCEPT ![j] = "sending"])
      BY <1>6 DEF HandlerStep, SlackRequest, ApiRequest, ApiCreate, ApiSubmit, PollAnswers,
                  PollTimesOut, Flow, ReqInv
    <2> QED BY <1>0, <2>1, <2>2 DEF Service!vars, Active
  <1>7. ASSUME NEW j \in Job, Enqueue(j) PROVE Service!Next
    <2>1. run[j] = "sending" /\ UNCHANGED server /\ j \notin Service!Known
      BY <1>7, KnownJobs DEF Enqueue, Unseen
    <2>2. CASE server = "up"
      <3>1. line' = Append(line, j) /\ run' = [run EXCEPT ![j] = "queued"]
        BY <1>7, <2>2 DEF Enqueue
      <3>2. /\ Active' = Active
            /\ {k \in Job : run'[k] = "done"} = {k \in Job : run[k] = "done"}
            /\ {k \in Job : run'[k] = "lost"} = {k \in Job : run[k] = "lost"}
        BY <1>0, <2>1, <3>1 DEF Active
      <3>3. Service!Arrive(j)
        BY <2>1, <2>2, <3>1, <3>2 DEF Service!Arrive
      <3> QED BY <3>3 DEF Service!Next
    <2>3. CASE server # "up"
      <3>1. UNCHANGED line /\ run' = [run EXCEPT ![j] = "lost"]
        BY <1>7, <2>3 DEF Enqueue
      <3>2. /\ Active' = Active
            /\ {k \in Job : run'[k] = "done"} = {k \in Job : run[k] = "done"}
            /\ {k \in Job : run'[k] = "lost"} = {k \in Job : run[k] = "lost"} \cup {j}
        BY <1>0, <2>1, <3>1 DEF Active
      <3>3. Service!Refuse(j)
        BY <2>1, <2>3, <3>1, <3>2 DEF Service!Refuse
      <3> QED BY <3>3 DEF Service!Next
    <2> QED BY <2>2, <2>3
  <1>8. ASSUME NEW j \in Job, \/ Validate(j) \/ RunCreate(j) \/ RunStart(j) \/ SaveResult(j)
                              \/ SaveStatus(j) \/ Report(j)
                              \/ \E o \in {"ok", "err"} : AgentEnds(j, o)
        PROVE  Service!Next \/ UNCHANGED Service!vars
    <2>1. /\ UNCHANGED <<server, line>> /\ j \in Active
          /\ \E to \in {"create", "start", "agent", "result", "status", "report", "done"} :
               run' = [run EXCEPT ![j] = to]
      BY <1>8 DEF Validate, RunCreate, RunStart, SaveResult, SaveStatus, Report, AgentEnds, Active
    <2>2. {k \in Job : run'[k] = "lost"} = {k \in Job : run[k] = "lost"}
      BY <1>0, <2>1 DEF Active
    <2>3. CASE run'[j] = "done"
      <3>1. /\ Active' = Active \ {j}
            /\ {k \in Job : run'[k] = "done"} = {k \in Job : run[k] = "done"} \cup {j}
        BY <1>0, <2>1, <2>3 DEF Active
      <3>2. Service!Finish(j)
        BY <2>1, <2>2, <3>1 DEF Service!Finish
      <3> QED BY <3>2 DEF Service!Next
    <2>4. CASE run'[j] # "done"
      <3>1. /\ Active' = Active
            /\ {k \in Job : run'[k] = "done"} = {k \in Job : run[k] = "done"}
        BY <1>0, <2>1, <2>4 DEF Active
      <3> QED BY <2>1, <2>2, <3>1 DEF Service!vars
    <2> QED BY <2>3, <2>4
  <1> QED
    BY <1>1, <1>2, <1>3, <1>4, <1>5, <1>6, <1>7, <1>8 DEF Next, ProcessStep, RunStep, BoundedStep

\* JobLifecycle implements JobService with restarts: over any number of
\* crashes jobs run in order, at most once and MaxWorkers at a time.
THEOREM LifecycleImplementsJobService == Spec => ImplementsJobService
  <1>1. Init => Service!Init
    BY DEF Init, Service!Init, Active
  <1>2. IInv /\ [Next]_vars => [Service!Next]_Service!vars
    BY ServiceStep DEF IInv
  <1> QED BY <1>1, <1>2, Invariance, PTL DEF Spec, Service!Spec, ImplementsJobService
=============================================================================
