----------------------------- MODULE WorkerPool -----------------------------
(***************************************************************************)
(* The worker pool of internal/worker at the grain of its goroutines and  *)
(* channels, with the submitters of internal/server/handlers.go and the   *)
(* shutdown of cmd/server/main.go:                                        *)
(*                                                                        *)
(*   submitter j --JobQueue--> dispatcher --WorkChannel--> worker w       *)
(*                                 ^------WorkerPool-------'              *)
(*                                                                        *)
(* A channel is what the Go runtime makes of it: JobQueue is a buffer of  *)
(* QueueCap jobs with a FIFO of blocked senders, a receive from a full    *)
(* buffer admits the first blocked sender, a receive from a closed empty  *)
(* channel yields the zero Job, and a send on a closed channel panics.    *)
(* WorkChannel is unbuffered: a send and its receive are one step.        *)
(***************************************************************************)
EXTENDS Naturals, Sequences, FiniteSets, Functions

CONSTANTS
    Job,        \* the jobs clients submit; each has one submitter goroutine
    Worker,     \* the maxWorkers workers; w stands for its WorkChannel too
    QueueCap,   \* capacity of JobQueue
    Hang,       \* jobs whose executor.Run may never return
    ZeroJob,    \* the zero value of type Job
    NoJob, NoWorker

ASSUME QueueCapAssumption == QueueCap \in Nat \ {0}
ASSUME WorkerAssumption   == IsFiniteSet(Worker) /\ Worker # {}
ASSUME HangAssumption     == Hang \subseteq Job
ASSUME NilAssumption      ==
    ZeroJob \notin Job /\ NoJob \notin Job \cup {ZeroJob} /\ NoWorker \notin Worker

MaxWorkers == Cardinality(Worker)

\* Variant: a pool that is one slot short.
PoolCapShort == MaxWorkers - 1

\* make(chan chan Job, maxWorkers)
PoolCap == MaxWorkers

VARIABLES
    submitter,     \* where each job's submitter goroutine is
    jobQueue,      \* buffer of JobQueue
    parked,        \* senders blocked on JobQueue, first come first
    queueClosed,   \* close(JobQueue) was called
    workerPool,    \* buffer of WorkerPool: the channels of ready workers
    dpc,           \* where the dispatcher is
    dJob,          \* its variable job
    dWorker,       \* its variable workerJobChannel
    wpc,           \* where each worker is
    wJob,          \* the job a worker executes
    quit,          \* close(quit) was called
    main,          \* how far main's shutdown is
    accepted,      \* history: the jobs that entered the buffer, in order
    started        \* history: the jobs handed to a worker, in order

queueVars  == <<jobQueue, parked, queueClosed, accepted>>
dispVars   == <<dpc, dJob, dWorker>>
workerVars == <<workerPool, wpc, wJob, started>>
vars == <<submitter, queueVars, dispVars, workerVars, quit, main>>

Init ==
    /\ submitter = [j \in Job |-> "none"]
    /\ jobQueue = <<>> /\ parked = <<>> /\ queueClosed = FALSE
    /\ workerPool = <<>>
    /\ dpc = "select" /\ dJob = NoJob /\ dWorker = NoWorker
    /\ wpc = [w \in Worker |-> "register"]
    /\ wJob = [w \in Worker |-> NoJob]
    /\ quit = FALSE
    /\ main = "serving"
    /\ accepted = <<>> /\ started = <<>>

Running == main # "exited"   \* the process exists

-----------------------------------------------------------------------------
(* Variants of the actions below, each with one plausible bug. They are no *)
(* part of Next: a property is worth checking when one of them breaks it.  *)

\* The queue is ended by a sentinel instead of by close.
CloseBySentinel ==
    /\ main = "serving"
    /\ main' = "closed"
    /\ queueClosed' = TRUE
    /\ jobQueue' = Append(jobQueue, ZeroJob)
    /\ UNCHANGED <<submitter, parked, accepted, dispVars, workerVars, quit>>

\* The dispatcher gives a job up when no worker is idle (select default).
TakeWorkerOrDrop ==
    /\ Running /\ dpc = "take"
    /\ IF workerPool # <<>>
         THEN /\ dWorker' = Head(workerPool) /\ workerPool' = Tail(workerPool)
              /\ dpc' = "send" /\ UNCHANGED dJob
         ELSE /\ dpc' = "select" /\ dJob' = NoJob
              /\ UNCHANGED <<dWorker, workerPool>>
    /\ UNCHANGED <<submitter, queueVars, wpc, wJob, started, quit, main>>

\* The worker offers its channel again before it executes the job.
HandoffReregisters(w) ==
    /\ Running /\ dpc = "send" /\ dWorker = w /\ wpc[w] = "select"
    /\ wpc' = [wpc EXCEPT ![w] = "run"]
    /\ wJob' = [wJob EXCEPT ![w] = dJob]
    /\ started' = IF dJob = ZeroJob THEN started ELSE Append(started, dJob)
    /\ workerPool' = Append(workerPool, w)
    /\ dpc' = "select" /\ dJob' = NoJob /\ dWorker' = NoWorker
    /\ UNCHANGED <<submitter, queueVars, quit, main>>

\* The dispatcher keeps the job and sends it again.
HandoffKeepsJob(w) ==
    /\ Running /\ dpc = "send" /\ dWorker = w /\ wpc[w] = "select"
    /\ wpc' = [wpc EXCEPT ![w] = "run"]
    /\ wJob' = [wJob EXCEPT ![w] = dJob]
    /\ started' = IF dJob = ZeroJob THEN started ELSE Append(started, dJob)
    /\ dpc' = "take" /\ dWorker' = NoWorker
    /\ UNCHANGED <<submitter, queueVars, dJob, workerPool, quit, main>>

\* The worker leaves after one job (no loop).
RunReturnsForGood(w) ==
    /\ Running /\ wpc[w] = "run"
    /\ wpc' = [wpc EXCEPT ![w] = "stopped"]
    /\ wJob' = [wJob EXCEPT ![w] = NoJob]
    /\ UNCHANGED <<submitter, queueVars, dispVars, workerPool, started, quit, main>>

\* quit is one value sent instead of a channel closed: one worker takes it.
WorkerTakesQuit(w) ==
    /\ Running /\ wpc[w] = "select" /\ quit
    /\ wpc' = [wpc EXCEPT ![w] = "stopped"]
    /\ quit' = FALSE
    /\ UNCHANGED <<submitter, queueVars, dispVars, workerPool, wJob, started, main>>

\* Stop does not wait for the workers.
StopDoesNotWait ==
    /\ main = "stopping"
    /\ main' = "stopped"
    /\ UNCHANGED <<submitter, queueVars, dispVars, workerVars, quit>>

-----------------------------------------------------------------------------
(* Submitters: the goroutine a handler starts to send on JobQueue. *)

\* A handler starts the goroutine: srv.Shutdown lets no new request in, but
\* gives those under way five seconds only, so that one may come this late.
Request(j) ==
    /\ Running
    /\ submitter[j] = "none"
    /\ submitter' = [submitter EXCEPT ![j] = "sending"]
    /\ UNCHANGED <<queueVars, dispVars, workerVars, quit, main>>

\* cfg.JobQueue <- job: the buffer has room.
SendBuffered(j) ==
    /\ Running /\ submitter[j] = "sending" /\ ~queueClosed
    /\ Len(jobQueue) < QueueCap
    /\ submitter' = [submitter EXCEPT ![j] = "queued"]
    /\ jobQueue' = Append(jobQueue, j)
    /\ accepted' = Append(accepted, j)
    /\ UNCHANGED <<parked, queueClosed, dispVars, workerVars, quit, main>>

\* cfg.JobQueue <- job: the buffer is full and the goroutine blocks.
SendBlocks(j) ==
    /\ Running /\ submitter[j] = "sending" /\ ~queueClosed
    /\ Len(jobQueue) >= QueueCap
    /\ submitter' = [submitter EXCEPT ![j] = "parked"]
    /\ parked' = Append(parked, j)
    /\ UNCHANGED <<jobQueue, queueClosed, accepted, dispVars, workerVars, quit, main>>

\* cfg.JobQueue <- job on the closed queue: panic, recovered and logged.
SendPanics(j) ==
    /\ Running /\ submitter[j] = "sending" /\ queueClosed
    /\ submitter' = [submitter EXCEPT ![j] = "panicked"]
    /\ UNCHANGED <<queueVars, dispVars, workerVars, quit, main>>

Send(j) == SendBuffered(j) \/ SendBlocks(j) \/ SendPanics(j)

-----------------------------------------------------------------------------
(* Dispatcher. *)

\* job := <-d.JobQueue, the queue holds a job; the first blocked sender's
\* job moves into the freed slot.
ReceiveJob ==
    /\ Running /\ dpc = "select" /\ jobQueue # <<>>
    /\ dJob' = Head(jobQueue)
    /\ dpc' = "take"
    /\ IF parked = <<>>
         THEN /\ jobQueue' = Tail(jobQueue)
              /\ UNCHANGED <<submitter, parked, accepted>>
         ELSE /\ jobQueue' = Append(Tail(jobQueue), Head(parked))
              /\ accepted' = Append(accepted, Head(parked))
              /\ submitter' = [submitter EXCEPT ![Head(parked)] = "queued"]
              /\ parked' = Tail(parked)
    /\ UNCHANGED <<queueClosed, dWorker, workerVars, quit, main>>

\* job := <-d.JobQueue on the closed, drained queue: the zero Job, at once
\* and every time (the receive does not test for a closed channel).
ReceiveZero ==
    /\ Running /\ dpc = "select" /\ queueClosed /\ jobQueue = <<>>
    /\ dJob' = ZeroJob
    /\ dpc' = "take"
    /\ UNCHANGED <<submitter, queueVars, dWorker, workerVars, quit, main>>

\* workerJobChannel := <-d.WorkerPool
TakeWorker ==
    /\ Running /\ dpc = "take" /\ workerPool # <<>>
    /\ dWorker' = Head(workerPool)
    /\ workerPool' = Tail(workerPool)
    /\ dpc' = "send"
    /\ UNCHANGED <<submitter, queueVars, dJob, wpc, wJob, started, quit, main>>

\* workerJobChannel <- job meets job := <-w.WorkChannel.
Handoff(w) ==
    /\ Running /\ dpc = "send" /\ dWorker = w /\ wpc[w] = "select"
    /\ wpc' = [wpc EXCEPT ![w] = "run"]
    /\ wJob' = [wJob EXCEPT ![w] = dJob]
    /\ started' = IF dJob = ZeroJob THEN started ELSE Append(started, dJob)
    /\ dpc' = "select" /\ dJob' = NoJob /\ dWorker' = NoWorker
    /\ UNCHANGED <<submitter, queueVars, workerPool, quit, main>>

\* case <-d.quit
DispatcherQuit ==
    /\ Running /\ dpc = "select" /\ quit
    /\ dpc' = "stopped"
    /\ UNCHANGED <<submitter, queueVars, dJob, dWorker, workerVars, quit, main>>

-----------------------------------------------------------------------------
(* Workers. *)

\* w.WorkerPool <- w.WorkChannel
Register(w) ==
    /\ Running /\ wpc[w] = "register"
    /\ Len(workerPool) < PoolCap
    /\ workerPool' = Append(workerPool, w)
    /\ wpc' = [wpc EXCEPT ![w] = "select"]
    /\ UNCHANGED <<submitter, queueVars, dispVars, wJob, started, quit, main>>

\* w.executor.Run(job) returns. The zero Job fails Run's type assertion.
RunReturns(w) ==
    /\ Running /\ wpc[w] = "run"
    /\ wpc' = [wpc EXCEPT ![w] = "register"]
    /\ wJob' = [wJob EXCEPT ![w] = NoJob]
    /\ UNCHANGED <<submitter, queueVars, dispVars, workerPool, started, quit, main>>

\* case <-w.quit
WorkerQuit(w) ==
    /\ Running /\ wpc[w] = "select" /\ quit
    /\ wpc' = [wpc EXCEPT ![w] = "stopped"]
    /\ UNCHANGED <<submitter, queueVars, dispVars, workerPool, wJob, started, quit, main>>

-----------------------------------------------------------------------------
(* main after SIGINT or SIGTERM. *)

\* close(config.JobQueue): every blocked sender panics.
CloseQueue ==
    /\ main = "serving"
    /\ main' = "closed"
    /\ queueClosed' = TRUE
    /\ submitter' = [j \in Job |->
         IF submitter[j] = "parked" THEN "panicked" ELSE submitter[j]]
    /\ parked' = <<>>
    /\ UNCHANGED <<jobQueue, accepted, dispVars, workerVars, quit>>

\* Dispatcher.Stop: close(d.quit), then d.wg.Wait().
StopBegins ==
    /\ main = "closed"
    /\ main' = "stopping"
    /\ quit' = TRUE
    /\ UNCHANGED <<submitter, queueVars, dispVars, workerVars>>

\* d.wg.Wait() returns: every worker is gone.
StopReturns ==
    /\ main = "stopping"
    /\ \A w \in Worker : wpc[w] = "stopped"
    /\ main' = "stopped"
    /\ UNCHANGED <<submitter, queueVars, dispVars, workerVars, quit>>

\* <-time.After(30 * time.Second)
StopTimesOut ==
    /\ main = "stopping"
    /\ main' = "timedOut"
    /\ UNCHANGED <<submitter, queueVars, dispVars, workerVars, quit>>

\* main returns and takes every goroutine with it.
Exit ==
    /\ main \in {"stopped", "timedOut"}
    /\ main' = "exited"
    /\ UNCHANGED <<submitter, queueVars, dispVars, workerVars, quit>>

-----------------------------------------------------------------------------

SubmitterStep(j) == Request(j) \/ Send(j)
DispatcherStep   == ReceiveJob \/ ReceiveZero \/ TakeWorker \/ DispatcherQuit
WorkerStep(w)    == Register(w) \/ Handoff(w) \/ RunReturns(w) \/ WorkerQuit(w)
MainStep         == CloseQueue \/ StopBegins \/ StopReturns \/ StopTimesOut \/ Exit

Next ==
    \/ DispatcherStep
    \/ MainStep
    \/ \E j \in Job : SubmitterStep(j)
    \/ \E w \in Worker : WorkerStep(w)

Spec == Init /\ [][Next]_vars

\* Run returns for every job outside Hang and for the zero Job.
ProperReturn(w) == wJob[w] \notin Hang /\ RunReturns(w)

\* A runnable goroutine is scheduled; of the ready cases of a select Go
\* picks one at random, so no case is passed over for ever (the strong
\* conditions). Requests, the signal and the 30 s timer owe nothing.
Fairness ==
    /\ \A j \in Job : WF_vars(Send(j))
    /\ WF_vars(ReceiveJob \/ ReceiveZero)
    /\ WF_vars(TakeWorker)
    /\ SF_vars(DispatcherQuit)
    /\ \A w \in Worker :
         /\ WF_vars(Register(w))
         /\ WF_vars(Handoff(w))
         /\ WF_vars(ProperReturn(w))
         /\ SF_vars(WorkerQuit(w))
    /\ WF_vars(StopBegins)
    /\ WF_vars(StopReturns)

FairSpec == Spec /\ Fairness

-----------------------------------------------------------------------------
(* Properties. *)

\* The client's job in the dispatcher's hands, as a sequence.
Held == IF dpc \in {"take", "send"} /\ dJob # ZeroJob THEN <<dJob>> ELSE <<>>

Executing == {w \in Worker : wpc[w] = "run"}
RunningJobs == {wJob[w] : w \in Executing} \cap Job
Finished == Range(started) \ RunningJobs

\* Types: in particular nothing but a client's job is ever in the queue or
\* counted as started, although a closed queue yields zero Jobs for ever.
TypeOK ==
    /\ submitter \in [Job -> {"none", "sending", "parked", "queued", "panicked"}]
    /\ jobQueue \in Seq(Job)
    /\ parked \in Seq(Job)
    /\ queueClosed \in BOOLEAN
    /\ workerPool \in Seq(Worker)
    /\ dpc \in {"select", "take", "send", "stopped"}
    /\ dJob \in Job \cup {ZeroJob, NoJob}
    /\ dWorker \in Worker \cup {NoWorker}
    /\ wpc \in [Worker -> {"register", "select", "run", "stopped"}]
    /\ wJob \in [Worker -> Job \cup {ZeroJob, NoJob}]
    /\ quit \in BOOLEAN
    /\ main \in {"serving", "closed", "stopping", "stopped", "timedOut", "exited"}
    /\ accepted \in Seq(Job)
    /\ started \in Seq(Job)

\* Registering never blocks a worker: the pool has room for every worker
\* that wants in, because a worker's channel is in it at most once
\* (dispatcher.go:20 sizes it maxWorkers, worker.go:40 sends to it).
RegisterNeverBlocks ==
    \A w \in Worker : wpc[w] = "register" => Len(workerPool) < PoolCap

\* Until Stop, the channel the dispatcher took from the pool belongs to a
\* worker that waits on it: dispatcher.go:57 never blocks.
HandoffNeverBlocks ==
    ~quit /\ dpc = "send" => wpc[dWorker] = "select"

\* Neither of the two sends by which workers and jobs meet ever waits while
\* the pool runs.
HandOversNeverBlock == RegisterNeverBlocks /\ HandoffNeverBlocks

\* No accepted job is lost, duplicated or overtaken on its way from the
\* buffer through the dispatcher to a worker, even while senders block, the
\* queue closes and the pool stops.
FirstInFirstOut == accepted = started \o Held \o jobQueue

\* A job is handed to a worker at most once, so at most one cursor-agent
\* ever runs for it.
StartedOnce == IsInjective(started)

\* When Stop returns in time no job is being executed: the shutdown that
\* reports success has interrupted no agent.
CleanStopIsIdle == main = "stopped" => RunningJobs = {}

\* After quit every worker leaves that is not in a job that hangs, although
\* the dispatcher keeps feeding them zero Jobs: each picks its quit case when
\* it comes round often enough.
WorkersLeave ==
    quit ~> \/ main = "exited"
            \/ \A w \in Worker : wpc[w] = "stopped" \/ wJob[w] \in Hang

Service == INSTANCE JobService WITH
    open     <- ~queueClosed,
    waiting  <- Held \o jobQueue \o parked,
    running  <- RunningJobs,
    finished <- Finished,
    Restarts <- FALSE,
    dropped  <- {j \in Job : submitter[j] = "panicked"}

\* The pool keeps the promise of JobService: one line, first come first
\* served, at most maxWorkers runs, nothing dropped before the shutdown.
ImplementsJobService == Service!Spec

\* ... and while the server is up it keeps it alive: a free worker takes the
\* next job, whatever hangs elsewhere in the pool.
ServesFairly == Service!FairSpec
=============================================================================
