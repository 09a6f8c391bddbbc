------------------------- MODULE TaskExecutorProofs -------------------------
(***************************************************************************)
(* Proofs about TaskExecutor for any number of failed statements and posts *)
(* and any timing of the ticker.                                           *)
(***************************************************************************)
EXTENDS TaskExecutor, JobStoreProofs, SequenceTheorems

\* What Slack takes at least: the progress messages and one of the result.
RoomAssumption == SlackLimit > maxUpdates

-----------------------------------------------------------------------------
(* The inductive invariant, part by part. *)

\* The first message of a result.
First(m) == m.kind = "refusal" \/ (m.kind = "page" /\ m.no = 1)

Finished ==
    /\ rows[jobID] # NoRow
    /\ rows[jobID].status = IF outcome = "ok" THEN "completed" ELSE "failed"
    /\ rows[jobID].result /\ rows[jobID].completed

Typing == TypeOK /\ IsFiniteSet(Stored(rows))

\* The goroutine counts at most maxUpdates messages before it ends.
CountInv ==
    /\ progress # "ended" => updateCount <= maxUpdates
    /\ progress = "post" => updateCount >= 1
    /\ pc \in {"validate", "create", "start"} => progress = "none"
    /\ pc \notin {"validate", "post", "done"} => projectPath \in Path

\* Run's messages: the first one is at the head, and at the head only.
PagesInv ==
    /\ pc = "post" => pages # <<>>
    /\ pc # "post" => pages = <<>>
    /\ \A i \in 2 .. Len(pages) : ~First(pages[i])

\* Until Run posts its first message Slack has taken progress messages only,
\* not more of them than were counted.
RoomInv ==
    pc \notin {"post", "done"} \/ (pc = "post" /\ First(pages[1])) =>
        /\ Len(slack) <= maxUpdates /\ Len(slack) <= updateCount
        /\ progress = "post" => Len(slack) < updateCount

\* Afterwards Slack has that message, unless a post failed.
ToldInv ==
    pc = "done" \/ (pc = "post" /\ ~First(pages[1])) =>
        (RoomAssumption /\ url = "slack" /\ postFaults = 0 =>
            \E i \in 1 .. Len(slack) : First(slack[i]))

\* What the statements before a stage have done, if none of them failed.
StoredInv ==
    /\ pc \in {"start", "agent", "stop", "result", "status"} /\ dbFaults = 0 => rows[jobID] # NoRow
    /\ pc = "status" /\ dbFaults = 0 => rows[jobID].result

\* Pages are made and posted only after the statements.
PageInv ==
    (\E i \in 1 .. Len(slack) : slack[i].kind = "page")
      \/ (\E i \in 1 .. Len(pages) : pages[i].kind = "page") =>
        pc \in {"post", "done"} /\ (dbFaults = 0 => Finished)

Parts == CountInv /\ PagesInv /\ RoomInv /\ ToldInv /\ StoredInv /\ PageInv

IInv == Typing /\ Parts

-----------------------------------------------------------------------------

\* Nothing has happened.
LEMMA Initially == Init => IInv
  <1> SUFFICES ASSUME Init PROVE IInv
    OBVIOUS
  <1>1. Stored(rows) = {} /\ IsFiniteSet({})
    BY FS_EmptySet DEF Init, Stored
  <1>2. <<>> \in Seq(Message) /\ Len(<<>>) = 0
    BY EmptySeq
  <1>3. TypeOK
    <2>1. /\ pages \in Seq(Message) /\ Len(pages) <= maxMessages
          /\ slack \in Seq(Message) /\ Len(slack) <= SlackLimit
      BY <1>2, ExecutorAssumption DEF Init, maxMessages
    <2>2. updateCount \in 0 .. maxUpdates + 1 /\ dbFaults \in 0 .. MaxFaults
          /\ postFaults \in 0 .. MaxFaults
      BY ExecutorAssumption DEF Init, maxUpdates
    <2> QED BY <2>1, <2>2 DEF Init, TypeOK
  <1>4. Parts
    BY <1>2 DEF Init, Parts, CountInv, PagesInv, RoomInv, ToldInv, StoredInv, PageInv,
                maxUpdates
  <1> QED BY <1>1, <1>3, <1>4 DEF IInv, Typing

\* The kinds of messages.
LEMMA Kinds ==
    /\ Refusal \in Message /\ First(Refusal) /\ Refusal.kind # "page"
    /\ \A n \in 1 .. maxUpdates : Update(n) \in Message /\ Update(n).kind = "update"
    /\ \A n, of \in 1 .. maxMessages :
         /\ ResultPage(n, of) \in Message
         /\ ResultPage(n, of).kind = "page" /\ ResultPage(n, of).no = n
  <1>1. Refusal \in Message /\ First(Refusal) /\ Refusal.kind # "page"
    BY DEF Message, Refusal, First
  <1>2. ASSUME NEW n \in 1 .. maxUpdates
        PROVE  Update(n) \in Message /\ Update(n).kind = "update"
    BY DEF Message, Update
  <1>3. ASSUME NEW n \in 1 .. maxMessages, NEW of \in 1 .. maxMessages
        PROVE  /\ ResultPage(n, of) \in Message
               /\ ResultPage(n, of).kind = "page" /\ ResultPage(n, of).no = n
    <2>1. ResultPage(n, of) \in Message
      BY DEF Message, ResultPages
    <2> QED BY <2>1 DEF ResultPage
  <1> QED BY <1>1, <1>2, <1>3

\* What Slack has taken stays, and at most one message comes to it.
LEMMA Sending ==
    ASSUME Typing, NEW m \in Message, Send(m)
    PROVE  /\ slack' \in Seq(Message) /\ Len(slack') <= SlackLimit
           /\ postFaults' \in 0 .. MaxFaults
           /\ UNCHANGED slack \/ slack' = Append(slack, m)
           /\ postFaults' = 0 => postFaults = 0
           /\ url = "slack" /\ postFaults' = 0 /\ Len(slack) < SlackLimit =>
                slack' = Append(slack, m)
  <1>1. /\ slack \in Seq(Message) /\ Len(slack) \in Nat /\ Len(slack) <= SlackLimit
        /\ postFaults \in 0 .. MaxFaults /\ SlackLimit \in Nat /\ MaxFaults \in Nat
    BY LenProperties, ExecutorAssumption DEF Typing, TypeOK
  <1>2. Append(slack, m) \in Seq(Message) /\ Len(Append(slack, m)) = Len(slack) + 1
    BY <1>1, AppendProperties
  <1>3. CASE Len(slack) < SlackLimit /\ slack' = Append(slack, m) /\ UNCHANGED postFaults
    BY <1>1, <1>2, <1>3
  <1>4. CASE postFaults < MaxFaults /\ postFaults' = postFaults + 1 /\ UNCHANGED slack
    BY <1>1, <1>4
  <1>5. CASE (url # "slack" \/ Len(slack) >= SlackLimit) /\ UNCHANGED <<slack, postFaults>>
    BY <1>1, <1>5
  <1> QED BY <1>3, <1>4, <1>5 DEF Send

\* The elements of an appended sequence.
LEMMA Appended ==
    ASSUME NEW s \in Seq(Message), NEW m \in Message
    PROVE  /\ Len(s) \in Nat /\ Len(Append(s, m)) = Len(s) + 1
           /\ \A i \in 1 .. Len(s) : Append(s, m)[i] = s[i]
           /\ Append(s, m)[Len(s) + 1] = m
  BY AppendProperties, LenProperties

\* The types.
LEMMA TypeStep == Typing /\ CountInv /\ PagesInv /\ [Next]_vars => Typing'
  <1> SUFFICES ASSUME Typing, CountInv, PagesInv, [Next]_vars PROVE Typing'
    OBVIOUS
  <1> USE ExecutorAssumption DEF Typing, TypeOK, inputs, runVars, progressVars
  <1>0. <<>> \in Seq(Message) /\ Len(<<>>) = 0 /\ maxMessages = 5 /\ maxUpdates = 4
    BY EmptySeq DEF maxMessages, maxUpdates
  <1>1. CASE Refuse
    <2>1. <<Refusal>> \in Seq(Message) /\ Len(<<Refusal>>) = 1
      BY Kinds
    <2>2. pages' \in Seq(Message) /\ Len(pages') <= maxMessages
      <3>1. CASE url = "none"
        BY <1>1, <3>1 DEF Refuse
      <3>2. CASE url # "none"
        <4>1. pages' = <<Refusal>>
          BY <1>1, <3>2 DEF Refuse
        <4>2. 1 <= maxMessages
          BY <1>0
        <4> QED BY <2>1, <4>1, <4>2
      <3> QED BY <3>1, <3>2
    <2>3. pc' \in {"done", "post"}
      BY <1>1 DEF Refuse
    <2> QED BY <1>1, <2>2, <2>3 DEF Refuse, Stored
  <1>2. CASE Create \/ StartAgent \/ SaveResult
    <2>1. rows' \in [Job -> Row \cup {NoRow}] /\ IsFiniteSet(Stored(rows'))
      <3>1. PICK p \in Path : \/ rows' = rows \/ rows' = CreateJob(rows, jobID, p)
                              \/ rows' = UpdateJobStatus(rows, jobID, "running")
                              \/ rows' = UpdateJobResult(rows, jobID)
        BY <1>2 DEF Create, StartAgent, SaveResult, Exec, CountInv
      <3>2. "running" \in Statuses
        BY DEF Statuses
      <3>3. CASE rows' = CreateJob(rows, jobID, p)
        BY <3>3, CreateJobAdds
      <3>4. CASE rows' = UpdateJobStatus(rows, jobID, "running")
        BY <3>2, <3>4, StatusIsSet
      <3>5. CASE rows' = UpdateJobResult(rows, jobID)
        BY <3>5, ResultIsSet
      <3> QED BY <3>1, <3>3, <3>4, <3>5
    <2>2. /\ dbFaults' \in 0 .. MaxFaults
          /\ pc' \in {"start", "agent", "status"} /\ progress' \in {progress, "none", "select"}
          /\ UNCHANGED <<inputs, outcome, pages, stopped, tick, updateCount, slack, postFaults>>
      BY <1>2 DEF Create, StartAgent, SaveResult, Exec
    <2> QED BY <2>1, <2>2
  <1>3. CASE SaveStatus
    <2>1. rows' \in [Job -> Row \cup {NoRow}] /\ IsFiniteSet(Stored(rows'))
      <3> DEFINE final == IF outcome = "ok" THEN "completed" ELSE "failed"
      <3>1. final \in Statuses
        BY DEF Statuses
      <3>2. rows' = rows \/ rows' = UpdateJobStatus(rows, jobID, final)
        BY <1>3 DEF SaveStatus, Exec
      <3> HIDE DEF final
      <3> QED BY <3>1, <3>2, StatusIsSet
    <2>2. pages' \in Seq(Message) /\ Len(pages') <= maxMessages
      <3>1. CASE UNCHANGED pages
        BY <3>1
      <3>2. ASSUME NEW n \in 1 .. maxMessages, pages' = [i \in 1 .. n |-> ResultPage(i, n)]
            PROVE  pages' \in Seq(Message) /\ Len(pages') = n
        <4>1. \A i \in 1 .. n : ResultPage(i, n) \in Message
          BY <1>0, Kinds
        <4>2. n \in Nat
          BY <1>0
        <4> QED BY <3>2, <4>1, <4>2, IsASeq
      <3>3. UNCHANGED pages \/ \E n \in 1 .. maxMessages : pages' = [i \in 1 .. n |-> ResultPage(i, n)]
        BY <1>3 DEF SaveStatus
      <3>4. CASE \E n \in 1 .. maxMessages : pages' = [i \in 1 .. n |-> ResultPage(i, n)]
        <4>1. PICK n \in 1 .. maxMessages : pages' = [i \in 1 .. n |-> ResultPage(i, n)]
          BY <3>4
        <4>2. pages' \in Seq(Message) /\ Len(pages') = n
          BY <3>2, <4>1
        <4> QED BY <1>0, <4>2
      <3> QED BY <3>1, <3>3, <3>4
    <2>3. /\ dbFaults' \in 0 .. MaxFaults /\ pc' \in {"done", "post"}
          /\ UNCHANGED <<inputs, outcome, stopped, progressVars, slack, postFaults>>
      BY <1>3 DEF SaveStatus, Exec
    <2> QED BY <2>1, <2>2, <2>3
  <1>4. ASSUME NEW o \in {"ok", "err"}, AgentReturns(o) PROVE Typing'
    BY <1>4 DEF AgentReturns, Stored
  <1>5. CASE StopProgress
    BY <1>5 DEF StopProgress, Stored
  <1>6. CASE PostPage
    <2>1. /\ Head(pages) \in Message /\ Tail(pages) \in Seq(Message)
          /\ Len(Tail(pages)) <= maxMessages
      BY <1>0, <1>6, HeadTailProperties, LenProperties DEF PostPage, PagesInv
    <2>2. /\ Send(Head(pages)) /\ pages' = Tail(pages) /\ pc' \in {"done", "post"}
          /\ UNCHANGED <<inputs, rows, outcome, stopped, dbFaults, progressVars>>
      BY <1>6 DEF PostPage
    <2>3. /\ slack' \in Seq(Message) /\ Len(slack') <= SlackLimit
          /\ postFaults' \in 0 .. MaxFaults
      BY <2>1, <2>2, Sending
    <2> QED BY <2>1, <2>2, <2>3 DEF Stored
  <1>7. CASE Validate \/ Tick \/ SelectDone
    <2>1. /\ pc' \in {pc, "create"} /\ tick' \in BOOLEAN /\ progress' \in {progress, "ended"}
          /\ UNCHANGED <<inputs, rows, outcome, pages, stopped, dbFaults, updateCount, slack,
                         postFaults>>
      BY <1>7 DEF Validate, Tick, SelectDone
    <2> QED BY <2>1 DEF Stored
  <1>8. CASE SelectTick
    <2>1. updateCount' \in 0 .. maxUpdates + 1 /\ progress' \in {"ended", "post"}
      BY <1>0, <1>8 DEF SelectTick, CountInv
    <2>2. tick' = FALSE /\ UNCHANGED <<runVars, slack, postFaults>>
      BY <1>8 DEF SelectTick
    <2> QED BY <2>1, <2>2 DEF Stored
  <1>9. CASE PostUpdate
    <2>1. Update(updateCount) \in Message
      BY <1>0, <1>9, Kinds DEF PostUpdate, CountInv
    <2>2. /\ Send(Update(updateCount)) /\ progress' = "select"
          /\ UNCHANGED <<runVars, tick, updateCount>>
      BY <1>9 DEF PostUpdate
    <2>3. /\ slack' \in Seq(Message) /\ Len(slack') <= SlackLimit
          /\ postFaults' \in 0 .. MaxFaults
      BY <2>1, <2>2, Sending
    <2> QED BY <2>2, <2>3 DEF Stored
  <1>10. CASE UNCHANGED vars
    BY <1>10 DEF vars, Stored
  <1> QED
    BY <1>1, <1>2, <1>3, <1>4, <1>5, <1>6, <1>7, <1>8, <1>9, <1>10
       DEF Next, RunStep, ProgressStep

\* Run and the goroutine count and tell.
LEMMA PartsStep ==
    ASSUME IInv, [Next]_vars
    PROVE  Parts'
  <1> USE DEF IInv, Parts, inputs, runVars, progressVars
  <1>0. /\ maxMessages = 5 /\ maxUpdates = 4 /\ SlackLimit \in Nat
        /\ jobID \in Job /\ rows \in [Job -> Row \cup {NoRow}] /\ IsFiniteSet(Stored(rows))
        /\ pages \in Seq(Message) /\ slack \in Seq(Message)
        /\ Len(pages) \in Nat /\ Len(slack) \in Nat
        /\ updateCount \in Nat /\ dbFaults \in Nat /\ postFaults \in Nat
    BY ExecutorAssumption, LenProperties
       DEF maxMessages, maxUpdates, Typing, TypeOK
  <1>1. CASE Refuse
    <2>1. /\ pc = "validate" /\ pages = <<>>
          /\ UNCHANGED <<inputs, rows, outcome, stopped, dbFaults, progressVars, slack, postFaults>>
      BY <1>1 DEF Refuse, PagesInv
    <2>2. CASE url = "none"
      <3>1. pc' = "done" /\ UNCHANGED pages
        BY <1>1, <2>2 DEF Refuse
      <3> QED BY <2>1, <2>2, <3>1
              DEF CountInv, PagesInv, RoomInv, ToldInv, StoredInv, PageInv
    <2>3. CASE url # "none"
      <3>1. pc' = "post" /\ pages' = <<Refusal>>
        BY <1>1, <2>3 DEF Refuse
      <3>2. pages' # <<>> /\ Len(pages') = 1 /\ pages'[1] = Refusal
        BY <3>1
      <3>3. First(pages'[1]) /\ pages'[1].kind # "page"
        BY <3>2, Kinds
      <3>4. CountInv' /\ PagesInv' /\ RoomInv' /\ ToldInv'
        BY <1>0, <2>1, <3>1, <3>2, <3>3 DEF CountInv, PagesInv, RoomInv, ToldInv
      <3>5. StoredInv' /\ PageInv'
        BY <1>0, <2>1, <3>1, <3>2, <3>3 DEF StoredInv, PageInv
      <3> QED BY <3>4, <3>5
    <2> QED BY <2>2, <2>3
  <1>2. CASE Create
    <2>1. /\ pc = "create" /\ pc' = "start" /\ projectPath \in Path
          /\ UNCHANGED <<inputs, outcome, pages, stopped, progressVars, slack, postFaults>>
          /\ \/ rows' = CreateJob(rows, jobID, projectPath) /\ UNCHANGED dbFaults
             \/ dbFaults' = dbFaults + 1
      BY <1>2 DEF Create, Exec, CountInv
    <2>2. dbFaults' = 0 => rows'[jobID] # NoRow
      BY <1>0, <2>1, CreateJobAdds
    <2> QED BY <2>1, <2>2 DEF CountInv, PagesInv, RoomInv, ToldInv, StoredInv, PageInv
  <1>3. CASE StartAgent
    <2>1. /\ pc = "start" /\ pc' = "agent" /\ progress' \in {"none", "select"}
          /\ UNCHANGED <<inputs, outcome, pages, stopped, tick, updateCount, slack, postFaults>>
          /\ \/ rows' = UpdateJobStatus(rows, jobID, "running") /\ UNCHANGED dbFaults
             \/ dbFaults' = dbFaults + 1
      BY <1>3 DEF StartAgent, Exec
    <2>2. dbFaults' = 0 => rows'[jobID] # NoRow
      <3>1. "running" \in Statuses
        BY DEF Statuses
      <3> QED BY <1>0, <2>1, <3>1, StatusIsSet DEF StoredInv
    <2>3. updateCount' <= maxUpdates
      BY <1>0, <2>1 DEF CountInv, Typing, TypeOK
    <2> QED BY <2>1, <2>2, <2>3 DEF CountInv, PagesInv, RoomInv, ToldInv, StoredInv, PageInv
  <1>4. ASSUME NEW o \in {"ok", "err"}, AgentReturns(o) PROVE Parts'
    BY <1>4 DEF AgentReturns, CountInv, PagesInv, RoomInv, ToldInv, StoredInv, PageInv
  <1>5. CASE StopProgress
    BY <1>5 DEF StopProgress, CountInv, PagesInv, RoomInv, ToldInv, StoredInv, PageInv
  <1>6. CASE SaveResult
    <2>1. /\ pc = "result" /\ pc' = "status"
          /\ UNCHANGED <<inputs, outcome, pages, stopped, progressVars, slack, postFaults>>
          /\ \/ rows' = UpdateJobResult(rows, jobID) /\ UNCHANGED dbFaults
             \/ dbFaults' = dbFaults + 1
      BY <1>6 DEF SaveResult, Exec
    <2>2. dbFaults' = 0 => rows'[jobID] # NoRow /\ rows'[jobID].result
      BY <1>0, <2>1, ResultIsSet DEF StoredInv
    <2> QED BY <2>1, <2>2 DEF CountInv, PagesInv, RoomInv, ToldInv, StoredInv, PageInv
  <1>7. CASE SaveStatus
    <2> DEFINE final == IF outcome = "ok" THEN "completed" ELSE "failed"
    <2>1. /\ pc = "status" /\ UNCHANGED <<inputs, outcome, stopped, progressVars, slack, postFaults>>
          /\ \/ rows' = UpdateJobStatus(rows, jobID, final) /\ UNCHANGED dbFaults
             \/ dbFaults' = dbFaults + 1
      BY <1>7 DEF SaveStatus, Exec
    <2>2. final \in Statuses /\ final \in Terminal
      BY DEF Statuses, Terminal
    <2>3. dbFaults' = 0 => Finished'
      <3> SUFFICES ASSUME dbFaults' = 0 PROVE Finished'
        OBVIOUS
      <3>1. dbFaults = 0 /\ rows' = UpdateJobStatus(rows, jobID, final)
        BY <1>0, <2>1
      <3>2. rows[jobID] # NoRow /\ rows[jobID].result
        BY <2>1, <3>1 DEF StoredInv
      <3>3. /\ rows'[jobID] # NoRow /\ rows'[jobID].status = final
            /\ rows'[jobID].result = rows[jobID].result /\ rows'[jobID].completed
        <4> DEFINE new == UpdateJobStatus(rows, jobID, final)
        <4> HIDE DEF final
        <4>1. /\ new[jobID] # NoRow /\ new[jobID].status = final
              /\ new[jobID].result = rows[jobID].result /\ new[jobID].completed
          <5>1. rows \in [Job -> Row \cup {NoRow}] /\ jobID \in Job
            BY <1>0
          <5>2. final \in Statuses
            BY <2>2
          <5>3. \A R \in [Job -> Row \cup {NoRow}], s \in Statuses :
                  R[jobID] # NoRow =>
                    LET set == UpdateJobStatus(R, jobID, s)
                    IN  /\ set[jobID] # NoRow /\ set[jobID].status = s
                        /\ set[jobID].result = R[jobID].result
                        /\ s \in Terminal => set[jobID].completed
            BY <5>1, StatusIsSet
          <5> QED BY <2>2, <3>2, <5>1, <5>2, <5>3
        <4> HIDE DEF new
        <4>2. rows' = new
          BY <3>1 DEF new
        <4> QED BY <4>1, <4>2
      <3> QED BY <2>1, <3>2, <3>3 DEF Finished
    <2>4. \A i \in 1 .. Len(slack) : slack[i].kind # "page"
      BY <2>1 DEF PageInv
    <2>5. pages = <<>>
      BY <2>1 DEF PagesInv
    <2> HIDE DEF final
    <2>6. CASE url = "none"
      <3>1. pc' = "done" /\ UNCHANGED pages
        BY <1>7, <2>6 DEF SaveStatus
      <3> QED BY <2>1, <2>3, <2>4, <2>5, <2>6, <3>1
              DEF CountInv, PagesInv, RoomInv, ToldInv, StoredInv, PageInv
    <2>7. CASE url # "none"
      <3>1. pc' = "post" /\ \E n \in 1 .. maxMessages : pages' = [i \in 1 .. n |-> ResultPage(i, n)]
        BY <1>7, <2>7 DEF SaveStatus
      <3>2. PICK n \in 1 .. maxMessages : pages' = [i \in 1 .. n |-> ResultPage(i, n)]
        BY <3>1
      <3>3. n \in Nat /\ n >= 1 /\ \A i \in 1 .. n : i \in 1 .. maxMessages
        BY <1>0
      <3>4. \A i \in 1 .. n : /\ ResultPage(i, n) \in Message /\ ResultPage(i, n).kind = "page"
                              /\ ResultPage(i, n).no = i
        BY <3>3, Kinds
      <3>5. pages' \in Seq(Message) /\ Len(pages') = n
        BY <3>2, <3>3, <3>4, IsASeq
      <3>6. \A i \in 1 .. n : pages'[i].kind = "page" /\ pages'[i].no = i
        BY <3>2, <3>4
      <3>7. First(pages'[1]) /\ (\A i \in 2 .. n : ~First(pages'[i])) /\ pages' # <<>>
        BY <3>3, <3>5, <3>6, EmptySeq DEF First
      <3>8. CountInv' /\ PagesInv' /\ RoomInv' /\ ToldInv'
        BY <2>1, <3>1, <3>5, <3>7 DEF CountInv, PagesInv, RoomInv, ToldInv
      <3>9. StoredInv' /\ PageInv'
        BY <2>3, <3>1 DEF StoredInv, PageInv
      <3> QED BY <3>8, <3>9
    <2> QED BY <2>6, <2>7
  <1>8. CASE PostPage
    <2>1. /\ pc = "post" /\ Send(Head(pages)) /\ pages' = Tail(pages)
          /\ pc' = IF Tail(pages) = <<>> THEN "done" ELSE "post"
          /\ UNCHANGED <<inputs, rows, outcome, stopped, dbFaults, progressVars>>
      BY <1>8 DEF PostPage
    <2>2. pages # <<>>
      BY <2>1 DEF PagesInv
    <2>3. /\ Head(pages) = pages[1] /\ pages[1] \in Message /\ Tail(pages) \in Seq(Message)
          /\ Len(Tail(pages)) = Len(pages) - 1 /\ Len(pages) >= 1
          /\ \A i \in 1 .. Len(Tail(pages)) : Tail(pages)[i] = pages[i + 1]
      BY <1>0, <2>2, HeadTailProperties, EmptySeq
    <2>4. /\ UNCHANGED slack \/ slack' = Append(slack, pages[1])
          /\ postFaults' = 0 => postFaults = 0
          /\ url = "slack" /\ postFaults' = 0 /\ Len(slack) < SlackLimit =>
               slack' = Append(slack, pages[1])
      BY <2>1, <2>3, Sending
    <2>5. /\ Len(Append(slack, pages[1])) = Len(slack) + 1
          /\ \A i \in 1 .. Len(slack) : Append(slack, pages[1])[i] = slack[i]
          /\ Append(slack, pages[1])[Len(slack) + 1] = pages[1]
      BY <1>0, <2>3, Appended
    <2>6. \A i \in 1 .. Len(pages') : ~First(pages'[i])
      BY <1>0, <2>1, <2>3 DEF PagesInv
    <2>7. pc' = "post" => ~First(pages'[1])
      <3> SUFFICES ASSUME pc' = "post" PROVE 1 \in 1 .. Len(pages')
        BY <2>6
      <3>1. Tail(pages) # <<>>
        BY <2>1
      <3>2. Len(Tail(pages)) \in Nat /\ Len(Tail(pages)) # 0
        BY <2>3, <3>1, LenProperties, EmptySeq
      <3> QED BY <2>1, <3>2
    <2>8. RoomAssumption /\ url = "slack" /\ postFaults' = 0 =>
            \E i \in 1 .. Len(slack') : First(slack'[i])
      <3> SUFFICES ASSUME RoomAssumption, url = "slack", postFaults' = 0
                   PROVE  \E i \in 1 .. Len(slack') : First(slack'[i])
        OBVIOUS
      <3>1. CASE First(pages[1])
        <4>1. Len(slack) < SlackLimit
          BY <1>0, <2>1, <3>1 DEF RoomInv, RoomAssumption
        <4>2. slack' = Append(slack, pages[1])
          BY <2>4, <4>1
        <4>3. Len(slack) + 1 \in 1 .. Len(slack') /\ slack'[Len(slack) + 1] = pages[1]
          BY <1>0, <2>5, <4>2
        <4> QED BY <3>1, <4>3
      <3>2. CASE ~First(pages[1])
        <4>1. PICK i \in 1 .. Len(slack) : First(slack[i])
          BY <2>1, <2>4, <3>2 DEF ToldInv
        <4>2. i \in 1 .. Len(slack') /\ slack'[i] = slack[i]
          <5>1. CASE UNCHANGED slack
            BY <5>1
          <5>2. CASE slack' = Append(slack, pages[1])
            <6>1. slack'[i] = slack[i] /\ Len(slack') = Len(slack) + 1
              BY <2>5, <5>2
            <6> QED BY <1>0, <6>1
          <5> QED BY <2>4, <5>1, <5>2
        <4> QED BY <4>1, <4>2
      <3> QED BY <3>1, <3>2
    <2>9. CountInv' /\ PagesInv' /\ RoomInv' /\ ToldInv'
      <3>1. PagesInv'
        BY <1>0, <2>1, <2>6 DEF PagesInv
      <3> QED BY <2>1, <2>7, <2>8, <3>1 DEF CountInv, RoomInv, ToldInv
    <2>10. PageInv'
      <3>1. ASSUME \/ \E i \in 1 .. Len(slack') : slack'[i].kind = "page"
                   \/ \E i \in 1 .. Len(pages') : pages'[i].kind = "page"
            PROVE  \/ \E i \in 1 .. Len(slack) : slack[i].kind = "page"
                   \/ \E i \in 1 .. Len(pages) : pages[i].kind = "page"
        <4>1. CASE \E i \in 1 .. Len(pages') : pages'[i].kind = "page"
          BY <1>0, <2>1, <2>3, <4>1
        <4>2. CASE \E i \in 1 .. Len(slack') : slack'[i].kind = "page"
          <5>1. PICK i \in 1 .. Len(slack') : slack'[i].kind = "page"
            BY <4>2
          <5>2. (i \in 1 .. Len(slack) /\ slack'[i] = slack[i]) \/ slack'[i] = pages[1]
            BY <1>0, <2>4, <2>5
          <5>3. 1 \in 1 .. Len(pages)
            BY <1>0, <2>3
          <5> QED BY <5>1, <5>2, <5>3
        <4> QED BY <3>1, <4>1, <4>2
      <3>2. UNCHANGED Finished
        BY <2>1 DEF Finished
      <3> QED BY <2>1, <3>1, <3>2 DEF PageInv
    <2>11. StoredInv'
      BY <2>1 DEF StoredInv
    <2> QED BY <2>9, <2>10, <2>11
  <1>9. CASE Validate
    <2>1. /\ pc = "validate" /\ pc' = "create" /\ projectPath # Unset
          /\ UNCHANGED <<inputs, rows, outcome, pages, stopped, dbFaults, progressVars, slack,
                         postFaults>>
      BY <1>9 DEF Validate
    <2>2. projectPath \in Path
      BY <2>1 DEF Typing, TypeOK
    <2> QED BY <2>1, <2>2
            DEF CountInv, PagesInv, RoomInv, ToldInv, StoredInv, PageInv, Finished
  <1>13. CASE Tick \/ SelectDone
    BY <1>0, <1>13
       DEF Tick, SelectDone, CountInv, PagesInv, RoomInv, ToldInv, StoredInv, PageInv, Finished
  <1>10. CASE SelectTick
    <2>1. /\ progress = "select" /\ updateCount' = updateCount + 1
          /\ progress' = IF updateCount + 1 > maxUpdates THEN "ended" ELSE "post"
          /\ UNCHANGED <<runVars, slack, postFaults>>
      BY <1>10 DEF SelectTick
    <2>2. CountInv' /\ RoomInv'
      BY <1>0, <2>1 DEF CountInv, RoomInv
    <2> QED BY <2>1, <2>2 DEF PagesInv, ToldInv, StoredInv, PageInv, Finished
  <1>11. CASE PostUpdate
    <2>1. /\ progress = "post" /\ progress' = "select" /\ Send(Update(updateCount))
          /\ UNCHANGED <<runVars, tick, updateCount>>
      BY <1>11 DEF PostUpdate
    <2> DEFINE m == Update(updateCount)
    <2>2. m \in Message /\ m.kind = "update"
      BY <1>0, <2>1, Kinds DEF CountInv
    <2> HIDE DEF m
    <2>3. (UNCHANGED slack \/ slack' = Append(slack, m)) /\ (postFaults' = 0 => postFaults = 0)
      BY <2>1, <2>2, Sending DEF m
    <2>4. /\ Len(Append(slack, m)) = Len(slack) + 1
          /\ \A i \in 1 .. Len(slack) : Append(slack, m)[i] = slack[i]
          /\ Append(slack, m)[Len(slack) + 1] = m
      BY <1>0, <2>2, Appended
    <2>5. CountInv' /\ PagesInv' /\ StoredInv'
      BY <1>0, <2>1 DEF CountInv, PagesInv, StoredInv
    <2>6. RoomInv'
      BY <1>0, <2>1, <2>3, <2>4 DEF RoomInv, CountInv
    <2>7. \A i \in 1 .. Len(slack) : i \in 1 .. Len(slack') /\ slack'[i] = slack[i]
      BY <1>0, <2>3, <2>4
    <2>8. ToldInv'
      BY <2>1, <2>3, <2>7 DEF ToldInv
    <2>9. \A i \in 1 .. Len(slack') : slack'[i].kind = "page" =>
            i \in 1 .. Len(slack) /\ slack[i].kind = "page"
      <3>1. CASE UNCHANGED slack
        BY <3>1
      <3>2. CASE slack' = Append(slack, m)
        <4>1. \A i \in 1 .. Len(slack') : i \in 1 .. Len(slack) \/ i = Len(slack) + 1
          BY <1>0, <2>4, <3>2
        <4> QED BY <2>2, <2>4, <3>2, <4>1
      <3> QED BY <2>3, <3>1, <3>2
    <2>10. PageInv'
      BY <2>1, <2>9 DEF PageInv, Finished
    <2> QED BY <2>5, <2>6, <2>8, <2>10
  <1>12. CASE UNCHANGED vars
    BY <1>12 DEF vars, CountInv, PagesInv, RoomInv, ToldInv, StoredInv, PageInv, Finished
  <1> QED
    BY <1>1, <1>2, <1>3, <1>4, <1>5, <1>6, <1>7, <1>8, <1>9, <1>10, <1>11, <1>12, <1>13
       DEF Next, RunStep, ProgressStep

-----------------------------------------------------------------------------

\* The invariant holds in every reachable state.
THEOREM Invariance == Spec => []IInv
  <1>1. IInv /\ [Next]_vars => IInv'
    BY TypeStep, PartsStep DEF IInv, Parts
  <1> QED BY Initially, <1>1, PTL DEF Spec

\* Types; the goroutine counts no more than one tick beyond its updates.
THEOREM ExecutorTypeCorrect == Spec => []TypeOK
  <1>1. IInv => TypeOK
    BY DEF IInv, Typing
  <1> QED BY <1>1, Invariance, PTL

\* Where Slack takes more posts than there are progress messages, the result's
\* first message arrives unless its post fails.
THEOREM ResultGetsThrough == ASSUME RoomAssumption PROVE Spec => []ResultHasRoom
  <1>1. IInv => ResultHasRoom
    <2> SUFFICES ASSUME IInv, pc = "done", url = "slack", postFaults = 0
                 PROVE  \E m \in Range(slack) : m.kind = "refusal" \/ (m.kind = "page" /\ m.no = 1)
      BY DEF ResultHasRoom
    <2>1. PICK i \in 1 .. Len(slack) : First(slack[i])
      BY DEF IInv, Parts, ToldInv
    <2>2. slack[i] \in Range(slack)
      BY LenProperties DEF Range, IInv, Typing, TypeOK
    <2> QED BY <2>1, <2>2 DEF First
  <1> QED BY <1>1, Invariance, PTL

\* Whoever reads a page of the result finds the job with its outcome, unless
\* a statement failed.
THEOREM ShowFindsTheJob == Spec => []ShowWorksWhenTold
  <1>1. IInv => ShowWorksWhenTold
    <2> SUFFICES ASSUME IInv, dbFaults = 0, NEW m \in Range(slack), m.kind = "page"
                 PROVE  LET row == GetJob(rows, jobID)
                        IN  /\ row # NoRow
                            /\ row.status = IF outcome = "ok" THEN "completed" ELSE "failed"
                            /\ row.result
      BY DEF ShowWorksWhenTold
    <2>1. \E i \in 1 .. Len(slack) : slack[i].kind = "page"
      BY LenProperties DEF Range, IInv, Typing, TypeOK
    <2>2. Finished
      BY <2>1 DEF IInv, Parts, PageInv
    <2> QED BY <2>2 DEF Finished, GetJob, Scans
  <1> QED BY <1>1, Invariance, PTL

-----------------------------------------------------------------------------
(* Run as JobLifecycle has it. *)

\* A function that says x of this job, changed to y.
LEMMA OwnChanges ==
    ASSUME NEW x, NEW y, NEW others
    PROVE  /\ Own(x, others)[jobID] = x
           /\ Own(y, others) = [Own(x, others) EXCEPT ![jobID] = y]
  BY ExecutorAssumption DEF Own

\* The statements are the same in both modules.
LEMMA SameStatements ==
    ASSUME NEW S, NEW R \in [Job -> Row \cup {NoRow}], NEW p, NEW s
    PROVE  /\ Lifecycle(S)!CreateJob(R, jobID, p) = CreateJob(R, jobID, p)
           /\ Lifecycle(S)!UpdateJobStatus(R, jobID, s) = UpdateJobStatus(R, jobID, s)
           /\ Lifecycle(S)!UpdateJobResult(R, jobID) = UpdateJobResult(R, jobID)
  <1>1. Lifecycle(S)!Stored(R) = Stored(R)
    BY DEF Stored, Lifecycle!Stored
  <1>2. \A T : Lifecycle(S)!Cardinality(T) = Cardinality(T)
    BY DEF Cardinality, Lifecycle!Cardinality
  <1>3. Lifecycle(S)!CreateJob(R, jobID, p) = CreateJob(R, jobID, p)
    BY <1>1, <1>2 DEF CreateJob, Lifecycle!CreateJob
  <1>4. Lifecycle(S)!UpdateJobStatus(R, jobID, s) = UpdateJobStatus(R, jobID, s)
    BY DEF UpdateJobStatus, Terminal, Lifecycle!UpdateJobStatus, Lifecycle!Terminal
  <1>5. Lifecycle(S)!UpdateJobResult(R, jobID) = UpdateJobResult(R, jobID)
    BY DEF UpdateJobResult, Lifecycle!UpdateJobResult
  <1> QED BY <1>3, <1>4, <1>5

\* A step of Run or of the goroutine is a step of JobLifecycle's Run, or is
\* not seen there.
LEMMA StepIsRunStep ==
    ASSUME IInv, [Next]_vars, NEW S \in {{}, Job}, S = {} <=> url = "none"
    PROVE  Lifecycle(S)!RunStep(jobID) \/ UNCHANGED Lifecycle(Job)!vars
  <1> USE DEF inputs, runVars, progressVars, Lifecycle!Alive, Lifecycle!handlerVars,
              Lifecycle!runVars, Lifecycle!envVars, Lifecycle!RunStep, Lifecycle!BoundedStep
  <1>0. /\ jobID \in Job /\ Unset \notin Path /\ (jobID \in S <=> url # "none")
        /\ rows \in [Job -> Row \cup {NoRow}]
    BY ExecutorAssumption DEF IInv, Typing, TypeOK
  <1>1. CASE Refuse
    <2>1. Lifecycle(S)!Validate(jobID)
      BY <1>0, <1>1, OwnChanges DEF Refuse, Lifecycle!Validate, Stage
    <2> QED BY <2>1
  <1>2. CASE Validate
    <2>1. Lifecycle(S)!Validate(jobID)
      BY <1>0, <1>2, OwnChanges DEF Validate, Lifecycle!Validate, Stage
    <2> QED BY <2>1
  <1>3. CASE Create
    <2>1. Lifecycle(S)!RunCreate(jobID)
      BY <1>0, <1>3, OwnChanges, SameStatements
         DEF Create, Exec, Stage, Lifecycle!RunCreate, Lifecycle!Exec
    <2> QED BY <2>1
  <1>4. CASE StartAgent
    <2>1. Lifecycle(S)!RunStart(jobID)
      BY <1>0, <1>4, OwnChanges, SameStatements
         DEF StartAgent, Exec, Stage, Lifecycle!RunStart, Lifecycle!Exec
    <2> QED BY <2>1
  <1>5. ASSUME NEW o \in {"ok", "err"}, AgentReturns(o)
        PROVE  Lifecycle(S)!AgentEnds(jobID, o)
    BY <1>0, <1>5, OwnChanges DEF AgentReturns, Stage, Lifecycle!AgentEnds
  <1>6. CASE SaveResult
    <2>1. Lifecycle(S)!SaveResult(jobID)
      BY <1>0, <1>6, OwnChanges, SameStatements
         DEF SaveResult, Exec, Stage, Lifecycle!SaveResult, Lifecycle!Exec
    <2> QED BY <2>1
  <1>7. CASE SaveStatus
    <2> DEFINE final == IF outcome = "ok" THEN "completed" ELSE "failed"
    <2>1. /\ pc = "status" /\ pc' = IF url = "none" THEN "done" ELSE "post"
          /\ Exec(UpdateJobStatus(rows, jobID, final))
          /\ UNCHANGED <<url, projectPath, outcome>>
      BY <1>7 DEF SaveStatus
    <2>2. /\ Own(Stage, "none")[jobID] = "status" /\ Own(outcome, "none")[jobID] = outcome
          /\ Stage' = IF jobID \in S THEN "report" ELSE "done"
          /\ Own(Stage', "none") = [Own(Stage, "none") EXCEPT ![jobID] = Stage']
      BY <1>0, <2>1, OwnChanges DEF Stage
    <2>3. Lifecycle(S)!Exec(Lifecycle(S)!UpdateJobStatus(rows, jobID, final))
      <3> HIDE DEF final
      <3>1. Lifecycle(S)!UpdateJobStatus(rows, jobID, final) = UpdateJobStatus(rows, jobID, final)
        BY <1>0, SameStatements
      <3> QED BY <2>1, <3>1 DEF Exec, Lifecycle!Exec
    <2>4. Lifecycle(S)!SaveStatus(jobID)
      BY <2>1, <2>2, <2>3 DEF Lifecycle!SaveStatus
    <2> QED BY <2>4
  <1>8. CASE PostPage /\ Tail(pages) = <<>>
    <2>1. Lifecycle(S)!Report(jobID)
      BY <1>0, <1>8, OwnChanges DEF PostPage, Stage, Lifecycle!Report
    <2> QED BY <2>1
  <1>9. CASE StopProgress \/ (PostPage /\ Tail(pages) # <<>>) \/ ProgressStep \/ Tick
               \/ UNCHANGED vars
    <2>1. /\ UNCHANGED <<url, projectPath, rows, outcome, dbFaults, Stage>>
          /\ (pc = "validate") = (pc = "validate")' /\ (pc = "agent") = (pc = "agent")'
      BY <1>9 DEF StopProgress, PostPage, ProgressStep, SelectDone, SelectTick, PostUpdate,
                  Tick, vars, Stage
    <2>2. UNCHANGED Lifecycle(Job)!vars
      BY <2>1 DEF Lifecycle!vars
    <2> QED BY <2>2
  <1> QED BY <1>1, <1>2, <1>3, <1>4, <1>5, <1>6, <1>7, <1>8, <1>9 DEF Next, RunStep

\* However the goroutine and Slack behave, Run does what JobLifecycle says
\* of it (task_executor.go:65-147).
THEOREM RunImplementsLifecycle == Spec => ImplementsRun
  <1> DEFINE Step == IF url = "none" THEN Lifecycle({})!RunStep(jobID)
                                     ELSE Lifecycle(Job)!RunStep(jobID)
  <1>1. IInv /\ [Next]_vars => [Step]_(Lifecycle(Job)!vars)
    <2>1. {} # Job
      BY ExecutorAssumption
    <2> SUFFICES ASSUME IInv, [Next]_vars PROVE [Step]_(Lifecycle(Job)!vars)
      OBVIOUS
    <2>2. CASE url = "none"
      BY <2>2, StepIsRunStep
    <2>3. CASE url # "none"
      BY <2>1, <2>3, StepIsRunStep
    <2> QED BY <2>2, <2>3
  <1> QED BY <1>1, Invariance, PTL DEF Spec, ImplementsRun
=============================================================================
