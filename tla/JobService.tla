----------------------------- MODULE JobService -----------------------------
(***************************************************************************)
(* What the worker pool promises to the HTTP handlers, without goroutines *)
(* or channels: submitted jobs wait in one line, are started in that      *)
(* order and at most once, at most MaxWorkers of them run at a time, and  *)
(* a job is given up only because the server is shutting down or, where    *)
(* Restarts is TRUE, because its process ended. WorkerPool is shown to    *)
(* implement this module without restarts, JobLifecycle with them.        *)
(***************************************************************************)
EXTENDS Naturals, Sequences, FiniteSets, Functions

CONSTANTS
    Job,          \* the jobs clients may submit
    MaxWorkers,   \* how many may run at a time (MAX_WORKERS)
    Hang,         \* jobs whose execution may never return
    Restarts      \* whether the process may end at any point and start again

VARIABLES
    open,         \* TRUE until the server stops taking jobs
    waiting,      \* jobs that wait for a worker, in the order of arrival
    running,
    finished,
    dropped       \* jobs given up by the shutdown

vars == <<open, waiting, running, finished, dropped>>

Known == Range(waiting) \cup running \cup finished \cup dropped

Init ==
    /\ open = TRUE
    /\ waiting = <<>>
    /\ running = {}
    /\ finished = {}
    /\ dropped = {}

\* A client's job joins the line.
Arrive(j) ==
    /\ open
    /\ j \notin Known
    /\ waiting' = Append(waiting, j)
    /\ UNCHANGED <<open, running, finished, dropped>>

\* The job at the head of the line starts when a worker is free.
Begin ==
    /\ waiting # <<>>
    /\ Cardinality(running) < MaxWorkers
    /\ running' = running \cup {Head(waiting)}
    /\ waiting' = Tail(waiting)
    /\ UNCHANGED <<open, finished, dropped>>

Finish(j) ==
    /\ j \in running
    /\ running' = running \ {j}
    /\ finished' = finished \cup {j}
    /\ UNCHANGED <<open, waiting, dropped>>

\* The shutdown gives up a tail of the line; the rest may still run.
Close ==
    /\ open
    /\ open' = FALSE
    /\ \E n \in 0 .. Len(waiting) :
         /\ waiting' = SubSeq(waiting, 1, n)
         /\ dropped' = dropped \cup {waiting[i] : i \in n + 1 .. Len(waiting)}
    /\ UNCHANGED <<running, finished>>

\* A job that arrives too late.
Refuse(j) ==
    /\ ~open
    /\ j \notin Known
    /\ dropped' = dropped \cup {j}
    /\ UNCHANGED <<open, waiting, running, finished>>

\* The process ends: whatever has not finished is given up, jobs that had
\* not yet reached the line included.
End ==
    /\ Restarts
    /\ open' = FALSE
    /\ waiting' = <<>> /\ running' = {}
    /\ \E late \in SUBSET (Job \ Known) :
         dropped' = dropped \cup Range(waiting) \cup running \cup late
    /\ UNCHANGED finished

\* A new process takes jobs again; none of the old ones comes back.
Reopen ==
    /\ Restarts
    /\ ~open /\ waiting = <<>> /\ running = {}
    /\ open' = TRUE
    /\ UNCHANGED <<waiting, running, finished, dropped>>

Next ==
    \/ Begin
    \/ Close \/ End \/ Reopen
    \/ \E j \in Job : Arrive(j) \/ Finish(j) \/ Refuse(j)

Spec == Init /\ [][Next]_vars

\* While the server is up a free worker takes the next job, and every run
\* that does not hang returns.
FairSpec ==
    /\ Spec
    /\ WF_vars(open /\ Begin)
    /\ \A j \in Job \ Hang : WF_vars(open /\ Finish(j))
=============================================================================
