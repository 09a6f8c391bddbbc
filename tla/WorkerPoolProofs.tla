-------------------------- MODULE WorkerPoolProofs --------------------------
(***************************************************************************)
(* Proofs about WorkerPool for any number of jobs, workers and any queue  *)
(* capacity.                                                              *)
(***************************************************************************)
EXTENDS WorkerPool, SequenceTheorems, FiniteSetTheorems, TLAPS

-----------------------------------------------------------------------------
(* The inductive invariant, part by part. *)

\* The dispatcher's variables are set exactly where its code has them.
DispatcherInv ==
    /\ dpc \in {"select", "stopped"} => dJob = NoJob /\ dWorker = NoWorker
    /\ dpc = "take" => dJob \in Job \cup {ZeroJob} /\ dWorker = NoWorker
    /\ dpc = "send" => dJob \in Job \cup {ZeroJob} /\ dWorker \in Worker

\* A channel in the pool, or taken from it, is there once and belongs to a
\* worker that waits in its select or has left it.
PoolInv ==
    /\ IsInjective(workerPool)
    /\ \A w \in Range(workerPool) : wpc[w] \in {"select", "stopped"}
    /\ dpc = "send" =>
         dWorker \notin Range(workerPool) /\ wpc[dWorker] \in {"select", "stopped"}

\* Workers leave only after quit, and Stop returns only after they left.
StopInv ==
    /\ \A w \in Worker : wpc[w] = "stopped" => quit
    /\ main = "stopped" => \A w \in Worker : wpc[w] = "stopped"

\* The blocked senders are those in the FIFO, and only behind a full buffer.
ParkedInv ==
    /\ Len(jobQueue) <= QueueCap
    /\ parked # <<>> => ~queueClosed /\ Len(jobQueue) = QueueCap
    /\ IsInjective(parked)
    /\ \A j \in Job : submitter[j] = "parked" <=> j \in Range(parked)

\* The buffer admits a job once and gives it away in order.
FifoInv ==
    /\ accepted = started \o Held \o jobQueue
    /\ IsInjective(accepted)
    /\ \A j \in Job : submitter[j] = "queued" <=> j \in Range(accepted)

-----------------------------------------------------------------------------
(* Sequences as queues: what Append and Tail do to elements. *)

\* Appending adds one element to a sequence, and only a new one keeps it free
\* of repetition.
LEMMA AppendElements ==
    ASSUME NEW S, NEW s \in Seq(S), NEW e \in S
    PROVE  /\ Append(s, e) \in Seq(S)
           /\ Len(Append(s, e)) = Len(s) + 1
           /\ Range(Append(s, e)) = Range(s) \cup {e}
           /\ IsInjective(s) /\ e \notin Range(s) => IsInjective(Append(s, e))
  <1>1. /\ Append(s, e) \in Seq(S)
        /\ Len(Append(s, e)) = Len(s) + 1
        /\ \A i \in 1 .. Len(s) : Append(s, e)[i] = s[i]
        /\ Append(s, e)[Len(s) + 1] = e
    BY AppendProperties
  <1>2. /\ Len(s) \in Nat
        /\ DOMAIN s = 1 .. Len(s)
        /\ DOMAIN Append(s, e) = 1 .. Len(s) + 1
    BY <1>1, LenProperties
  <1>3. Range(Append(s, e)) = Range(s) \cup {e}
    BY <1>1, <1>2 DEF Range
  <1>4. IsInjective(s) /\ e \notin Range(s) => IsInjective(Append(s, e))
    BY <1>1, <1>2 DEF Range, IsInjective
  <1> QED BY <1>1, <1>3, <1>4

\* Taking the head off a sequence without repetition takes that element out.
LEMMA TailElements ==
    ASSUME NEW S, NEW s \in Seq(S), s # <<>>
    PROVE  /\ Head(s) \in S
           /\ Tail(s) \in Seq(S)
           /\ Len(s) \in Nat \ {0}
           /\ Len(Tail(s)) = Len(s) - 1
           /\ Head(s) \in Range(s)
           /\ Range(s) = Range(Tail(s)) \cup {Head(s)}
           /\ IsInjective(s) => IsInjective(Tail(s)) /\ Head(s) \notin Range(Tail(s))
  <1>1. /\ Head(s) \in S
        /\ Tail(s) \in Seq(S)
        /\ Len(Tail(s)) = Len(s) - 1
        /\ \A i \in 1 .. Len(Tail(s)) : Tail(s)[i] = s[i + 1]
        /\ Head(s) = s[1]
    BY HeadTailProperties
  <1>2. /\ Len(s) \in Nat \ {0}
        /\ DOMAIN s = 1 .. Len(s)
        /\ DOMAIN Tail(s) = 1 .. Len(s) - 1
    BY <1>1, LenProperties, EmptySeq
  <1>3. Head(s) \in Range(s)
    BY <1>1, <1>2 DEF Range
  <1>4. ASSUME NEW x \in Range(s), x # Head(s)
        PROVE  x \in Range(Tail(s))
    <2>1. PICK i \in 1 .. Len(s) : x = s[i]
      BY <1>2 DEF Range
    <2>2. i - 1 \in 1 .. Len(Tail(s)) /\ Tail(s)[i - 1] = s[(i - 1) + 1]
      BY <1>1, <1>2, <1>4, <2>1
    <2>3. x = Tail(s)[i - 1]
      BY <2>1, <2>2
    <2> QED BY <1>1, <1>2, <2>2, <2>3 DEF Range
  <1>5. Range(s) = Range(Tail(s)) \cup {Head(s)}
    <2>1. Range(Tail(s)) \subseteq Range(s)
      BY <1>1, <1>2 DEF Range
    <2> QED BY <1>3, <1>4, <2>1
  <1>6. IsInjective(s) => IsInjective(Tail(s)) /\ Head(s) \notin Range(Tail(s))
    BY <1>1, <1>2 DEF Range, IsInjective
  <1> QED BY <1>1, <1>2, <1>3, <1>5, <1>6

\* A sequence without repetition over a finite set is no longer than the set.
LEMMA InjectiveLength ==
    ASSUME NEW S, IsFiniteSet(S), NEW s \in Seq(S), IsInjective(s)
    PROVE  Len(s) <= Cardinality(S)
  <1>1. /\ Len(s) \in Nat
        /\ s \in [1 .. Len(s) -> S]
        /\ DOMAIN s = 1 .. Len(s)
    BY LenProperties
  <1>2. s \in Injection(1 .. Len(s), S)
    BY <1>1 DEF Injection, IsInjective
  <1>3. Cardinality(1 .. Len(s)) <= Cardinality(S)
    BY <1>2, FS_Injection
  <1>4. Cardinality(1 .. Len(s)) = Len(s)
    BY <1>1, FS_Interval
  <1> QED BY <1>3, <1>4

-----------------------------------------------------------------------------
(* Type correctness. *)

Typing == TypeOK /\ DispatcherInv

\* The first state has the types of Typing ...
LEMMA TypingInit == Init => Typing
  BY EmptySeq DEF Init, Typing, TypeOK, DispatcherInv

\* ... and every step keeps them.
LEMMA TypingStep == Typing /\ [Next]_vars => Typing'
  <1> SUFFICES ASSUME Typing, [Next]_vars PROVE Typing'
    OBVIOUS
  <1> USE DEF Typing, TypeOK, DispatcherInv
  <1>1. ASSUME NEW j \in Job, SubmitterStep(j) PROVE Typing'
    <2>1. /\ Append(jobQueue, j) \in Seq(Job)
          /\ Append(parked, j) \in Seq(Job)
          /\ Append(accepted, j) \in Seq(Job)
      BY AppendElements
    <2>2. \A p \in {"sending", "parked", "queued", "panicked"} :
            [submitter EXCEPT ![j] = p]
              \in [Job -> {"none", "sending", "parked", "queued", "panicked"}]
      OBVIOUS
    <2>3. UNCHANGED <<queueClosed, dispVars, workerVars, quit, main>>
      BY <1>1 DEF SubmitterStep, Request, Send, SendBuffered, SendBlocks, SendPanics, queueVars
    <2>4. CASE Request(j) \/ SendPanics(j)
      BY <2>2, <2>3, <2>4 DEF Request, SendPanics, queueVars, dispVars, workerVars
    <2>5. CASE SendBuffered(j)
      BY <2>1, <2>2, <2>3, <2>5 DEF SendBuffered, dispVars, workerVars
    <2>6. CASE SendBlocks(j)
      BY <2>1, <2>2, <2>3, <2>6 DEF SendBlocks, dispVars, workerVars
    <2> QED BY <1>1, <2>4, <2>5, <2>6 DEF SubmitterStep, Send
  <1>2. CASE ReceiveJob
    <2>1. /\ Head(jobQueue) \in Job
          /\ Tail(jobQueue) \in Seq(Job)
      BY <1>2, TailElements DEF ReceiveJob
    <2>2. CASE parked = <<>>
      BY <1>2, <2>1, <2>2 DEF ReceiveJob, workerVars
    <2>3. CASE parked # <<>>
      <3>1. Head(parked) \in Job /\ Tail(parked) \in Seq(Job)
        BY <2>3, TailElements
      <3>2. /\ Append(Tail(jobQueue), Head(parked)) \in Seq(Job)
            /\ Append(accepted, Head(parked)) \in Seq(Job)
        BY <2>1, <3>1, AppendElements
      <3> QED BY <1>2, <2>1, <2>3, <3>1, <3>2 DEF ReceiveJob, workerVars
    <2> QED BY <2>2, <2>3
  <1>3. CASE TakeWorker
    <2>1. Head(workerPool) \in Worker /\ Tail(workerPool) \in Seq(Worker)
      BY <1>3, TailElements DEF TakeWorker
    <2> QED BY <1>3, <2>1 DEF TakeWorker, queueVars
  <1>4. CASE ReceiveZero \/ DispatcherQuit
    BY <1>4 DEF ReceiveZero, DispatcherQuit, queueVars, workerVars
  <1>5. ASSUME NEW w \in Worker, Register(w) PROVE Typing'
    <2>1. Append(workerPool, w) \in Seq(Worker)
      BY AppendElements
    <2> QED BY <1>5, <2>1 DEF Register, queueVars, dispVars
  <1>6. ASSUME NEW w \in Worker, Handoff(w) PROVE Typing'
    <2>1. dJob \in Job => Append(started, dJob) \in Seq(Job)
      BY AppendElements
    <2> QED BY <1>6, <2>1 DEF Handoff, queueVars
  <1>7. ASSUME NEW w \in Worker, RunReturns(w) \/ WorkerQuit(w) PROVE Typing'
    BY <1>7 DEF RunReturns, WorkerQuit, queueVars, dispVars
  <1>8. CASE CloseQueue
    BY <1>8, EmptySeq DEF CloseQueue, dispVars, workerVars
  <1>9. CASE StopBegins \/ StopReturns \/ StopTimesOut \/ Exit
    BY <1>9 DEF StopBegins, StopReturns, StopTimesOut, Exit, queueVars, dispVars, workerVars
  <1>10. CASE UNCHANGED vars
    BY <1>10 DEF vars, queueVars, dispVars, workerVars
  <1> QED BY <1>1, <1>2, <1>3, <1>4, <1>5, <1>6, <1>7, <1>8, <1>9, <1>10
          DEF Next, DispatcherStep, WorkerStep, MainStep

\* What the model says of the program's variables and of where each goroutine
\* can be holds in every reachable state.
THEOREM TypeCorrect == Spec => []TypeOK
  <1>1. Typing => TypeOK
    BY DEF Typing
  <1> QED BY TypingInit, TypingStep, <1>1, PTL DEF Spec

-----------------------------------------------------------------------------
(* Workers and their channels. *)

\* Every step keeps what main knows of the workers when Stop returns.
LEMMA StopStep == Typing /\ StopInv /\ [Next]_vars => StopInv'
  <1> SUFFICES ASSUME Typing, StopInv, [Next]_vars PROVE StopInv'
    OBVIOUS
  <1> USE DEF Typing, TypeOK, StopInv
  <1>1. CASE DispatcherStep \/ \E j \in Job : SubmitterStep(j)
    <2>1. UNCHANGED <<wpc, quit, main>>
      BY <1>1 DEF DispatcherStep, ReceiveJob, ReceiveZero, TakeWorker, DispatcherQuit,
           SubmitterStep, Request, Send, SendBuffered, SendBlocks, SendPanics, workerVars
    <2> QED BY <2>1
  <1>2. ASSUME NEW w \in Worker, WorkerStep(w) PROVE StopInv'
    BY <1>2 DEF WorkerStep, Register, Handoff, RunReturns, WorkerQuit
  <1>3. CASE MainStep
    BY <1>3 DEF MainStep, CloseQueue, StopBegins, StopReturns, StopTimesOut, Exit, workerVars
  <1>4. CASE UNCHANGED vars
    BY <1>4 DEF vars, workerVars
  <1> QED BY <1>1, <1>2, <1>3, <1>4 DEF Next

\* Every step keeps the pool free of repetition and of busy workers.
LEMMA PoolStep == Typing /\ PoolInv /\ [Next]_vars => PoolInv'
  <1> SUFFICES ASSUME Typing, PoolInv, [Next]_vars PROVE PoolInv'
    OBVIOUS
  <1> USE DEF Typing, TypeOK, DispatcherInv, PoolInv
  <1>1. \A w \in Range(workerPool) : w \in Worker
    BY RangeOfSeq
  <1>2. CASE MainStep \/ (\E j \in Job : SubmitterStep(j)) \/ UNCHANGED vars
    <2>1. UNCHANGED <<dpc, dWorker, workerPool, wpc>>
      BY <1>2 DEF MainStep, CloseQueue, StopBegins, StopReturns, StopTimesOut, Exit,
           SubmitterStep, Request, Send, SendBuffered, SendBlocks, SendPanics,
           vars, dispVars, workerVars
    <2> QED BY <2>1
  <1>3. CASE ReceiveJob \/ ReceiveZero \/ DispatcherQuit
    BY <1>3 DEF ReceiveJob, ReceiveZero, DispatcherQuit, workerVars
  <1>4. CASE TakeWorker
    <2>1. /\ Head(workerPool) \in Range(workerPool)
          /\ Range(workerPool) = Range(Tail(workerPool)) \cup {Head(workerPool)}
          /\ IsInjective(Tail(workerPool))
          /\ Head(workerPool) \notin Range(Tail(workerPool))
      BY <1>4, TailElements DEF TakeWorker
    <2> QED BY <1>4, <2>1 DEF TakeWorker
  <1>5. ASSUME NEW w \in Worker, Register(w) PROVE PoolInv'
    <2>1. w \notin Range(workerPool) /\ (dpc = "send" => dWorker # w)
      BY <1>5 DEF Register
    <2>2. /\ Range(Append(workerPool, w)) = Range(workerPool) \cup {w}
          /\ IsInjective(Append(workerPool, w))
      BY <2>1, AppendElements
    <2>3. /\ workerPool' = Append(workerPool, w)
          /\ wpc' = [wpc EXCEPT ![w] = "select"]
          /\ UNCHANGED <<dpc, dWorker>>
      BY <1>5 DEF Register, dispVars
    <2> QED BY <1>1, <2>1, <2>2, <2>3
  <1>6. ASSUME NEW w \in Worker, Handoff(w) PROVE PoolInv'
    <2>1. /\ w \notin Range(workerPool)
          /\ dpc' = "select"
          /\ wpc' = [wpc EXCEPT ![w] = "run"]
          /\ workerPool' = workerPool
      BY <1>6 DEF Handoff
    <2> QED BY <1>1, <2>1
  <1>7. ASSUME NEW w \in Worker, RunReturns(w) PROVE PoolInv'
    <2>1. w \notin Range(workerPool) /\ (dpc = "send" => dWorker # w)
      BY <1>7 DEF RunReturns
    <2> QED BY <1>1, <1>7, <2>1 DEF RunReturns, dispVars
  <1>8. ASSUME NEW w \in Worker, WorkerQuit(w) PROVE PoolInv'
    BY <1>1, <1>8 DEF WorkerQuit, dispVars
  <1> QED BY <1>2, <1>3, <1>4, <1>5, <1>6, <1>7, <1>8 DEF Next, DispatcherStep, WorkerStep

\* While a worker registers, the pool holds only the channels of others.
LEMMA PoolHasRoom ==
    ASSUME Typing, PoolInv
    PROVE  RegisterNeverBlocks
  <1> USE DEF Typing, TypeOK, PoolInv
  <1> SUFFICES ASSUME NEW w \in Worker, wpc[w] = "register"
               PROVE  Len(workerPool) < PoolCap
    BY DEF RegisterNeverBlocks
  <1>1. workerPool \in Seq(Worker \ {w})
    <2>1. w \notin Range(workerPool)
      OBVIOUS
    <2>2. Range(workerPool) \subseteq Worker \ {w}
      BY <2>1, RangeOfSeq
    <2> QED BY <2>2, SeqOfRange, SeqMonotonic
  <1>2. /\ IsFiniteSet(Worker \ {w})
        /\ Cardinality(Worker \ {w}) = Cardinality(Worker) - 1
        /\ Cardinality(Worker) \in Nat
    BY WorkerAssumption, FS_RemoveElement, FS_CardinalityType
  <1>3. Len(workerPool) <= Cardinality(Worker \ {w})
    BY <1>1, <1>2, InjectiveLength
  <1> QED BY <1>2, <1>3, LenProperties DEF PoolCap, MaxWorkers

\* A worker that wants to register always finds room in the pool, so
\* worker.go:40 never blocks, whatever the jobs, the shutdown and the
\* scheduler do.
THEOREM RegisteringNeverBlocks == Spec => []RegisterNeverBlocks
  <1>1. Init => Typing /\ PoolInv
    BY TypingInit, EmptySeq DEF Init, PoolInv, IsInjective, Range
  <1>2. Typing /\ PoolInv => RegisterNeverBlocks
    BY PoolHasRoom
  <1> QED BY <1>1, <1>2, TypingStep, PoolStep, PTL DEF Spec

\* Before Stop a dispatcher that took a channel from the pool finds its
\* worker waiting there: dispatcher.go:57 does not block.
THEOREM HandingOffNeverBlocks == Spec => []HandoffNeverBlocks
  <1>1. Init => Typing /\ PoolInv /\ StopInv
    BY TypingInit, EmptySeq DEF Init, PoolInv, StopInv, IsInjective, Range
  <1>2. Typing /\ PoolInv /\ StopInv => HandoffNeverBlocks
    BY DEF Typing, TypeOK, DispatcherInv, PoolInv, StopInv, HandoffNeverBlocks
  <1> QED BY <1>1, <1>2, TypingStep, PoolStep, StopStep, PTL DEF Spec

\* Neither of the two sends between workers and dispatcher ever waits while
\* the pool runs.
THEOREM HandingOversNeverBlock == Spec => []HandOversNeverBlock
  BY RegisteringNeverBlocks, HandingOffNeverBlocks, PTL DEF HandOversNeverBlock

\* A Stop that returns before its timeout leaves no job in execution.
THEOREM CleanStop == Spec => []CleanStopIsIdle
  <1>1. Init => Typing /\ StopInv
    BY TypingInit DEF Init, StopInv
  <1>2. Typing /\ StopInv => CleanStopIsIdle
    BY DEF StopInv, CleanStopIsIdle, RunningJobs, Executing
  <1> QED BY <1>1, <1>2, TypingStep, StopStep, PTL DEF Spec

-----------------------------------------------------------------------------
(* Jobs on their way through the queue. *)

\* Moving the head of one sequence to the end of another leaves their
\* concatenation as it is.
LEMMA MoveHead ==
    ASSUME NEW S, NEW s \in Seq(S), NEW t \in Seq(S), t # <<>>
    PROVE  s \o t = (s \o <<Head(t)>>) \o Tail(t)
  <1>1. /\ Head(t) \in S /\ Tail(t) \in Seq(S) /\ Len(Tail(t)) = Len(t) - 1
        /\ \A i \in 1 .. Len(Tail(t)) : Tail(t)[i] = t[i + 1]
        /\ Head(t) = t[1]
        /\ Len(t) \in Nat \ {0}
    BY HeadTailProperties, EmptySeq
  <1>2. <<Head(t)>> \in Seq(S) /\ Len(<<Head(t)>>) = 1 /\ <<Head(t)>>[1] = Head(t)
    BY <1>1
  <1> DEFINE u == <<Head(t)>> \o Tail(t)
  <1>3. /\ u \in Seq(S)
        /\ Len(u) = Len(t)
        /\ \A i \in 1 .. Len(t) : u[i] = IF i <= 1 THEN <<Head(t)>>[i] ELSE Tail(t)[i - 1]
    BY <1>1, <1>2, ConcatProperties
  <1>4. \A i \in 1 .. Len(t) : u[i] = t[i]
    BY <1>1, <1>2, <1>3
  <1> HIDE DEF u
  <1>5. u = t
    BY <1>3, <1>4, SeqEqual
  <1> QED BY <1>1, <1>2, <1>5, ConcatAssociative DEF u

\* The dispatcher holds no job or one.
LEMMA HeldType == Typing => Held \in Seq(Job)
  BY EmptySeq DEF Typing, TypeOK, DispatcherInv, Held

\* Every step keeps the blocked senders in line with their goroutines.
LEMMA ParkedStep == Typing /\ ParkedInv /\ [Next]_vars => ParkedInv'
  <1> SUFFICES ASSUME Typing, ParkedInv, [Next]_vars PROVE ParkedInv'
    OBVIOUS
  <1> USE DEF Typing, TypeOK, ParkedInv
  <1>0. QueueCap \in Nat \ {0} /\ Len(jobQueue) \in Nat
    BY QueueCapAssumption, LenProperties
  <1>1. ASSUME NEW j \in Job, Request(j) \/ SendPanics(j) PROVE ParkedInv'
    BY <1>1 DEF Request, SendPanics, queueVars
  <1>2. ASSUME NEW j \in Job, SendBuffered(j) PROVE ParkedInv'
    <2>1. Len(Append(jobQueue, j)) = Len(jobQueue) + 1
      BY AppendElements
    <2>2. parked = <<>>
      BY <1>2, <1>0 DEF SendBuffered
    <2> QED BY <1>0, <1>2, <2>1, <2>2 DEF SendBuffered
  <1>3. ASSUME NEW j \in Job, SendBlocks(j) PROVE ParkedInv'
    <2>1. j \notin Range(parked)
      BY <1>3 DEF SendBlocks
    <2>2. /\ Range(Append(parked, j)) = Range(parked) \cup {j}
          /\ IsInjective(Append(parked, j))
      BY <2>1, AppendElements
    <2>3. Len(jobQueue) = QueueCap
      BY <1>0, <1>3 DEF SendBlocks
    <2> QED BY <1>3, <2>2, <2>3 DEF SendBlocks
  <1>4. CASE ReceiveJob
    <2>1. /\ Tail(jobQueue) \in Seq(Job)
          /\ Len(Tail(jobQueue)) = Len(jobQueue) - 1
      BY <1>4, TailElements DEF ReceiveJob
    <2>2. CASE parked = <<>>
      BY <1>0, <1>4, <2>1, <2>2 DEF ReceiveJob
    <2>3. CASE parked # <<>>
      <3>1. /\ Head(parked) \in Job
            /\ Range(parked) = Range(Tail(parked)) \cup {Head(parked)}
            /\ IsInjective(Tail(parked))
            /\ Head(parked) \notin Range(Tail(parked))
        BY <2>3, TailElements
      <3>2. Len(Append(Tail(jobQueue), Head(parked))) = QueueCap
        BY <1>0, <2>1, <2>3, <3>1, AppendElements
      <3>3. /\ jobQueue' = Append(Tail(jobQueue), Head(parked))
            /\ submitter' = [submitter EXCEPT ![Head(parked)] = "queued"]
            /\ parked' = Tail(parked)
            /\ queueClosed' = queueClosed
        BY <1>4, <2>3 DEF ReceiveJob
      <3> QED BY <1>0, <2>3, <3>1, <3>2, <3>3
    <2> QED BY <2>2, <2>3
  <1>5. CASE CloseQueue
    <2>1. IsInjective(<<>>) /\ Range(<<>>) = {}
      BY DEF IsInjective, Range
    <2> QED BY <1>5, <2>1 DEF CloseQueue
  <1>6. CASE \/ ReceiveZero \/ TakeWorker \/ DispatcherQuit
             \/ \E w \in Worker : WorkerStep(w)
             \/ StopBegins \/ StopReturns \/ StopTimesOut \/ Exit
             \/ UNCHANGED vars
    <2>1. UNCHANGED <<submitter, jobQueue, parked, queueClosed>>
      BY <1>6 DEF ReceiveZero, TakeWorker, DispatcherQuit, WorkerStep, Register, Handoff,
           RunReturns, WorkerQuit, StopBegins, StopReturns, StopTimesOut, Exit, vars, queueVars
    <2> QED BY <2>1
  <1> QED BY <1>1, <1>2, <1>3, <1>4, <1>5, <1>6
          DEF Next, DispatcherStep, MainStep, SubmitterStep, Send

\* What a step does to the three sequences, and what FifoInv needs of it.
LEMMA FifoStep == Typing /\ ParkedInv /\ FifoInv /\ [Next]_vars => FifoInv'
  <1> SUFFICES ASSUME Typing, ParkedInv, FifoInv, [Next]_vars PROVE FifoInv'
    OBVIOUS
  <1> DEFINE Out == started \o Held
  <1>a. /\ accepted \in Seq(Job) /\ started \in Seq(Job) /\ Held \in Seq(Job)
        /\ jobQueue \in Seq(Job) /\ parked \in Seq(Job)
        /\ submitter \in [Job -> {"none", "sending", "parked", "queued", "panicked"}]
    BY HeldType DEF Typing, TypeOK
  <1>b. Out \in Seq(Job)
    BY <1>a, ConcatProperties
  <1>c. accepted = Out \o jobQueue
    BY DEF FifoInv
  <1>d. /\ IsInjective(accepted)
        /\ \A j \in Job : submitter[j] = "queued" <=> j \in Range(accepted)
    BY DEF FifoInv
  <1> HIDE DEF Out
  <1>e. ASSUME NEW j \in Job, submitter[j] # "queued",
               accepted' = Append(accepted, j),
               submitter' = [submitter EXCEPT ![j] = "queued"]
        PROVE  /\ IsInjective(accepted')
               /\ \A k \in Job : submitter'[k] = "queued" <=> k \in Range(accepted')
    <2>1. j \notin Range(accepted)
      BY <1>d, <1>e
    <2>2. /\ Range(Append(accepted, j)) = Range(accepted) \cup {j}
          /\ IsInjective(Append(accepted, j))
      BY <1>a, <1>d, <2>1, AppendElements
    <2> QED BY <1>a, <1>d, <1>e, <2>2
  <1>f. ASSUME accepted' = accepted,
               \A k \in Job : submitter'[k] = "queued" <=> submitter[k] = "queued"
        PROVE  /\ IsInjective(accepted')
               /\ \A k \in Job : submitter'[k] = "queued" <=> k \in Range(accepted')
    BY <1>d, <1>f
  <1>1. ASSUME NEW j \in Job, Request(j) \/ SendBlocks(j) \/ SendPanics(j) PROVE FifoInv'
    <2>1. UNCHANGED <<jobQueue, accepted, started, dpc, dJob>>
      BY <1>1 DEF Request, SendBlocks, SendPanics, queueVars, dispVars, workerVars
    <2>2. Held' = Held
      BY <2>1 DEF Held
    <2>3. \A k \in Job : submitter'[k] = "queued" <=> submitter[k] = "queued"
      BY <1>a, <1>1 DEF Request, SendBlocks, SendPanics
    <2> QED BY <1>c, <1>f, <2>1, <2>2, <2>3 DEF FifoInv, Out
  <1>2. ASSUME NEW j \in Job, SendBuffered(j) PROVE FifoInv'
    <2>1. /\ submitter[j] # "queued"
          /\ Held' = Held /\ started' = started
          /\ jobQueue' = Append(jobQueue, j)
          /\ accepted' = Append(accepted, j)
          /\ submitter' = [submitter EXCEPT ![j] = "queued"]
      BY <1>2 DEF SendBuffered, Held, dispVars, workerVars
    <2>2. Append(Out \o jobQueue, j) = Out \o Append(jobQueue, j)
      <3>1. <<j>> \in Seq(Job) /\ Out \o jobQueue \in Seq(Job)
        BY <1>a, <1>b, ConcatProperties
      <3>2. /\ Append(Out \o jobQueue, j) = (Out \o jobQueue) \o <<j>>
            /\ Append(jobQueue, j) = jobQueue \o <<j>>
        BY <1>a, <3>1, AppendIsConcat
      <3>3. (Out \o jobQueue) \o <<j>> = Out \o (jobQueue \o <<j>>)
        <4>1. Out \in Seq(Job) /\ jobQueue \in Seq(Job) /\ <<j>> \in Seq(Job)
          BY <1>a, <1>b, <3>1
        <4> QED BY <4>1, ConcatAssociative, SMTT(30)
      <3> QED BY <3>2, <3>3
    <2>3. accepted' = (started' \o Held') \o jobQueue'
      BY <1>c, <2>1, <2>2 DEF Out
    <2> QED BY <1>e, <2>1, <2>3 DEF FifoInv
  <1>3. CASE ReceiveJob
    <2>1. /\ Head(jobQueue) \in Job
          /\ Tail(jobQueue) \in Seq(Job)
          /\ dJob' = Head(jobQueue) /\ dpc' = "take" /\ started' = started
          /\ dpc = "select" /\ jobQueue # <<>>
      BY <1>a, <1>3, TailElements DEF ReceiveJob, workerVars
    <2>2. Held = <<>> /\ Held' = <<Head(jobQueue)>>
      BY <2>1, NilAssumption DEF Held
    <2>3. Out = started
      BY <1>a, <2>2, ConcatEmptySeq DEF Out
    <2>4. started \o jobQueue = (started \o <<Head(jobQueue)>>) \o Tail(jobQueue)
      BY <1>a, <2>1, MoveHead
    <2>5. accepted = (started' \o Held') \o Tail(jobQueue)
      BY <1>c, <2>1, <2>2, <2>3, <2>4
    <2>6. CASE parked = <<>>
      BY <1>3, <1>f, <2>5, <2>6 DEF ReceiveJob, FifoInv
    <2>7. CASE parked # <<>>
      <3>1. Head(parked) \in Job /\ Head(parked) \in Range(parked)
        BY <1>a, <2>7, TailElements
      <3>2. submitter[Head(parked)] # "queued"
        BY <3>1 DEF ParkedInv
      <3>3. /\ jobQueue' = Append(Tail(jobQueue), Head(parked))
            /\ accepted' = Append(accepted, Head(parked))
            /\ submitter' = [submitter EXCEPT ![Head(parked)] = "queued"]
        BY <1>3, <2>7 DEF ReceiveJob
      <3>4. started' \o Held' \in Seq(Job)
        <4>1. <<Head(jobQueue)>> \in Seq(Job)
          BY <2>1
        <4> QED BY <1>a, <2>1, <2>2, <4>1, ConcatProperties
      <3>5. Append((started' \o Held') \o Tail(jobQueue), Head(parked))
              = (started' \o Held') \o Append(Tail(jobQueue), Head(parked))
        <4> DEFINE In == started' \o Held'
                   rest == Tail(jobQueue)
                   next == Head(parked)
        <4>1. In \in Seq(Job) /\ rest \in Seq(Job) /\ next \in Job
          BY <2>1, <3>1, <3>4
        <4> HIDE DEF In, rest, next
        <4>2. <<next>> \in Seq(Job) /\ In \o rest \in Seq(Job)
          BY <4>1, ConcatProperties
        <4>3. Append(In \o rest, next) = (In \o rest) \o <<next>> /\ Append(rest, next) = rest \o <<next>>
          BY <4>1, <4>2, AppendIsConcat
        <4>4. Append(In \o rest, next) = In \o Append(rest, next)
          BY <4>1, <4>2, <4>3, ConcatAssociative
        <4> QED BY <4>4 DEF In, rest, next
      <3>6. accepted' = (started' \o Held') \o jobQueue'
        BY <2>5, <3>3, <3>5
      <3> QED BY <1>e, <3>1, <3>2, <3>3, <3>6 DEF FifoInv
    <2> QED BY <2>6, <2>7
  <1>4. ASSUME NEW w \in Worker, Handoff(w) PROVE FifoInv'
    <2>1. /\ dpc = "send" /\ dpc' = "select"
          /\ started' = IF dJob = ZeroJob THEN started ELSE Append(started, dJob)
          /\ UNCHANGED <<jobQueue, accepted, submitter>>
          /\ dJob \in Job \cup {ZeroJob}
      BY <1>4 DEF Handoff, queueVars, Typing, DispatcherInv
    <2>2. Held' = <<>>
      BY <2>1 DEF Held
    <2>3. started' = Out
      <3>1. CASE dJob = ZeroJob
        BY <1>a, <2>1, <3>1, ConcatEmptySeq DEF Held, Out
      <3>2. CASE dJob # ZeroJob
        BY <1>a, <2>1, <3>2, AppendIsConcat DEF Held, Out
      <3> QED BY <3>1, <3>2
    <2>4. started' \o Held' = Out
      BY <1>b, <2>2, <2>3, ConcatEmptySeq
    <2> QED BY <1>c, <1>f, <2>1, <2>4 DEF FifoInv
  <1>5. CASE \/ ReceiveZero \/ TakeWorker \/ DispatcherQuit
             \/ (\E w \in Worker : Register(w) \/ RunReturns(w) \/ WorkerQuit(w))
             \/ CloseQueue \/ StopBegins \/ StopReturns \/ StopTimesOut \/ Exit
             \/ UNCHANGED vars
    <2>1. UNCHANGED <<jobQueue, accepted, started>>
      BY <1>5 DEF ReceiveZero, TakeWorker, DispatcherQuit, Register, RunReturns, WorkerQuit,
           CloseQueue, StopBegins, StopReturns, StopTimesOut, Exit, vars, queueVars, workerVars
    <2>2. Held' = Held
      BY <1>5 DEF ReceiveZero, TakeWorker, DispatcherQuit, Register, RunReturns, WorkerQuit,
           CloseQueue, StopBegins, StopReturns, StopTimesOut, Exit, vars, dispVars, Held
    <2>3. \A k \in Job : submitter'[k] = "queued" <=> submitter[k] = "queued"
      BY <1>a, <1>5 DEF ReceiveZero, TakeWorker, DispatcherQuit, Register, RunReturns, WorkerQuit,
           CloseQueue, StopBegins, StopReturns, StopTimesOut, Exit, vars
    <2> QED BY <1>c, <1>f, <2>1, <2>2, <2>3 DEF FifoInv, Out
  <1> QED BY <1>1, <1>2, <1>3, <1>4, <1>5
          DEF Next, DispatcherStep, WorkerStep, MainStep, SubmitterStep, Send

\* The first state satisfies the parts about the queue.
LEMMA QueueInit == Init => Typing /\ ParkedInv /\ FifoInv
  <1> SUFFICES ASSUME Init PROVE ParkedInv /\ FifoInv
    BY TypingInit
  <1>1. Held = <<>> /\ <<>> \o <<>> = <<>>
    BY EmptySeq, ConcatEmptySeq DEF Init, Held
  <1>2. IsInjective(<<>>) /\ Range(<<>>) = {} /\ Len(<<>>) = 0
    BY EmptySeq DEF IsInjective, Range
  <1> QED BY <1>1, <1>2, QueueCapAssumption DEF Init, ParkedInv, FifoInv

\* Every job that entered the buffer is started, held by the dispatcher or
\* still buffered, in the order of entry: none is lost, doubled or overtaken.
THEOREM JobsAreConserved == Spec => []FirstInFirstOut
  <1>1. FifoInv => FirstInFirstOut
    BY DEF FifoInv, FirstInFirstOut
  <1> QED BY QueueInit, <1>1, TypingStep, ParkedStep, FifoStep, PTL DEF Spec

\* No job is ever handed to a worker twice.
THEOREM JobsStartOnce == Spec => []StartedOnce
  <1>1. Typing /\ FifoInv => StartedOnce
    <2> SUFFICES ASSUME Typing, FifoInv PROVE StartedOnce
      OBVIOUS
    <2>0. started \in Seq(Job) /\ jobQueue \in Seq(Job) /\ accepted \in Seq(Job)
      BY DEF Typing, TypeOK
    <2>1. Held \in Seq(Job) /\ started \o Held \in Seq(Job)
      BY <2>0, HeldType, ConcatProperties
    <2>a. accepted = (started \o Held) \o jobQueue /\ IsInjective(accepted)
      BY DEF FifoInv
    <2>2. /\ Len(accepted) = Len(started) + Len(Held) + Len(jobQueue)
          /\ Len(started) \in Nat /\ Len(Held) \in Nat /\ Len(jobQueue) \in Nat
      BY <2>0, <2>1, <2>a, ConcatProperties, LenProperties
    <2>3. \A i \in 1 .. Len(started) : accepted[i] = started[i]
      <3> SUFFICES ASSUME NEW i \in 1 .. Len(started) PROVE accepted[i] = started[i]
        OBVIOUS
      <3>1. Len(started \o Held) = Len(started) + Len(Held)
        BY <2>0, <2>1, ConcatProperties
      <3>2. accepted[i] = (started \o Held)[i]
        BY <2>0, <2>1, <2>2, <2>a, <3>1, ConcatProperties
      <3>3. (started \o Held)[i] = started[i]
        BY <2>0, <2>1, <2>2, ConcatProperties
      <3> QED BY <3>2, <3>3
    <2>4. DOMAIN started = 1 .. Len(started) /\ DOMAIN accepted = 1 .. Len(accepted)
      BY <2>0, LenProperties
    <2> SUFFICES ASSUME NEW i \in 1 .. Len(started), NEW k \in 1 .. Len(started),
                        started[i] = started[k]
                 PROVE  i = k
      BY <2>4 DEF StartedOnce, IsInjective
    <2>5. i \in DOMAIN accepted /\ k \in DOMAIN accepted /\ accepted[i] = accepted[k]
      BY <2>2, <2>3, <2>4
    <2> QED BY <2>5, <2>a DEF IsInjective
  <1> QED BY QueueInit, <1>1, TypingStep, ParkedStep, FifoStep, PTL DEF Spec

-----------------------------------------------------------------------------
(* The refinement. *)

\* What is executed was started, and by one worker.
RunInv ==
    /\ \A w \in Executing : wJob[w] \in Range(started) \cup {ZeroJob}
    /\ \A v, w \in Executing : wJob[v] = wJob[w] /\ wJob[v] \in Job => v = w

\* Only main closes the queue, as the first step of its shutdown.
CloseInv == main = "serving" => ~queueClosed

Refining == Typing /\ ParkedInv /\ FifoInv /\ RunInv /\ CloseInv

\* A concatenation has the elements of its parts, and without repetition its
\* parts have none in common.
LEMMA ConcatElements ==
    ASSUME NEW S, NEW s \in Seq(S), NEW t \in Seq(S)
    PROVE  /\ s \o t \in Seq(S)
           /\ Range(s \o t) = Range(s) \cup Range(t)
           /\ IsInjective(s \o t) => Range(s) \cap Range(t) = {}
  <1>1. /\ s \o t \in Seq(S)
        /\ Len(s \o t) = Len(s) + Len(t)
        /\ \A i \in 1 .. Len(s) + Len(t) :
             (s \o t)[i] = IF i <= Len(s) THEN s[i] ELSE t[i - Len(s)]
    BY ConcatProperties
  <1>2. /\ Len(s) \in Nat /\ DOMAIN s = 1 .. Len(s)
        /\ Len(t) \in Nat /\ DOMAIN t = 1 .. Len(t)
        /\ DOMAIN (s \o t) = 1 .. Len(s) + Len(t)
    BY <1>1, LenProperties
  <1> DEFINE u == s \o t
  <1> HIDE DEF u
  <1>3. \A i \in 1 .. Len(s) : i \in DOMAIN u /\ u[i] = s[i]
    BY <1>1, <1>2 DEF u
  <1>4. \A i \in 1 .. Len(t) : Len(s) + i \in DOMAIN u /\ u[Len(s) + i] = t[i]
    BY <1>1, <1>2 DEF u
  <1>5. Range(u) \subseteq Range(s) \cup Range(t)
    <2> SUFFICES ASSUME NEW i \in 1 .. Len(s) + Len(t) PROVE u[i] \in Range(s) \cup Range(t)
      BY <1>2 DEF Range, u
    <2>1. CASE i <= Len(s)
      BY <1>1, <1>2, <2>1 DEF Range, u
    <2>2. CASE ~(i <= Len(s))
      <3>1. i - Len(s) \in 1 .. Len(t) /\ u[i] = t[i - Len(s)]
        BY <1>1, <1>2, <2>2 DEF u
      <3> QED BY <1>2, <3>1 DEF Range
    <2> QED BY <2>1, <2>2
  <1>6. Range(s) \subseteq Range(u) /\ Range(t) \subseteq Range(u)
    BY <1>2, <1>3, <1>4 DEF Range
  <1>7. ASSUME IsInjective(u), NEW x \in Range(s), x \in Range(t) PROVE FALSE
    <2>1. PICK i \in 1 .. Len(s) : x = s[i]
      BY <1>2 DEF Range
    <2>2. PICK k \in 1 .. Len(t) : x = t[k]
      BY <1>2, <1>7 DEF Range
    <2>3. i \in DOMAIN u /\ Len(s) + k \in DOMAIN u /\ u[i] = u[Len(s) + k]
      BY <1>3, <1>4, <2>1, <2>2
    <2>4. i = Len(s) + k
      BY <1>7, <2>3 DEF IsInjective
    <2> QED BY <1>2, <2>4
  <1> QED BY <1>1, <1>5, <1>6, <1>7 DEF u

\* The jobs that were accepted are started, held or buffered, and the held one
\* has not been started.
LEMMA AcceptedJobs ==
    ASSUME Typing, FifoInv
    PROVE  /\ Range(accepted) = Range(started) \cup Range(Held) \cup Range(jobQueue)
           /\ Range(started) \cap Range(Held) = {}
  <1>1. started \in Seq(Job) /\ Held \in Seq(Job) /\ jobQueue \in Seq(Job)
    BY HeldType DEF Typing, TypeOK
  <1>2. /\ started \o Held \in Seq(Job)
        /\ Range(started \o Held) = Range(started) \cup Range(Held)
        /\ IsInjective(started \o Held) => Range(started) \cap Range(Held) = {}
    BY <1>1, ConcatElements
  <1>3. Range((started \o Held) \o jobQueue) = Range(started \o Held) \cup Range(jobQueue)
    BY <1>1, <1>2, ConcatElements
  <1>4. IsInjective(started \o Held)
    <2> DEFINE u == started \o Held
    <2>1. /\ u \in Seq(Job) /\ IsInjective(u \o jobQueue)
      BY <1>2 DEF FifoInv
    <2> HIDE DEF u
    <2>2. /\ Len(u) \in Nat /\ Len(jobQueue) \in Nat
          /\ DOMAIN u = 1 .. Len(u)
          /\ DOMAIN (u \o jobQueue) = 1 .. Len(u) + Len(jobQueue)
          /\ \A i \in 1 .. Len(u) : (u \o jobQueue)[i] = u[i]
      BY <1>1, <2>1, ConcatProperties, LenProperties
    <2>3. IsInjective(u)
      BY <2>1, <2>2 DEF IsInjective
    <2> QED BY <2>3 DEF u
  <1> QED BY <1>2, <1>3, <1>4 DEF FifoInv

\* Every step keeps it.
LEMMA RunStep == Typing /\ FifoInv /\ RunInv /\ [Next]_vars => RunInv'
  <1> SUFFICES ASSUME Typing, FifoInv, RunInv, [Next]_vars PROVE RunInv'
    OBVIOUS
  <1>0. /\ wpc \in [Worker -> {"register", "select", "run", "stopped"}]
        /\ wJob \in [Worker -> Job \cup {ZeroJob, NoJob}]
        /\ started \in Seq(Job)
    BY DEF Typing, TypeOK
  <1>1. ASSUME NEW w \in Worker, Handoff(w) PROVE RunInv'
    <2>1. /\ dpc = "send" /\ wpc[w] = "select" /\ dJob \in Job \cup {ZeroJob}
          /\ wpc' = [wpc EXCEPT ![w] = "run"]
          /\ wJob' = [wJob EXCEPT ![w] = dJob]
          /\ started' = IF dJob = ZeroJob THEN started ELSE Append(started, dJob)
      BY <1>1 DEF Handoff, Typing, DispatcherInv
    <2>2. /\ Executing' = Executing \cup {w} /\ w \notin Executing
          /\ Executing \subseteq Worker
      BY <1>0, <2>1 DEF Executing
    <2>3. wJob'[w] = dJob /\ \A v \in Executing : wJob'[v] = wJob[v]
      BY <1>0, <2>1, <2>2
    <2>4. CASE dJob = ZeroJob
      BY <2>1, <2>2, <2>3, <2>4, NilAssumption DEF RunInv
    <2>5. CASE dJob # ZeroJob
      <3>1. dJob \in Job /\ Range(started') = Range(started) \cup {dJob}
        BY <1>0, <2>1, <2>5, AppendElements
      <3>2. Held = <<dJob>>
        BY <2>1, <2>5 DEF Held
      <3>3. dJob \in Range(Held)
        BY <3>2 DEF Range
      <3>4. dJob \notin Range(started)
        BY <3>3, AcceptedJobs
      <3>5. \A v \in Executing : wJob[v] # dJob
        BY <3>1, <3>4, NilAssumption DEF RunInv
      <3> QED BY <2>2, <2>3, <3>1, <3>5 DEF RunInv
    <2> QED BY <2>4, <2>5
  <1>2. ASSUME NEW w \in Worker, RunReturns(w) PROVE RunInv'
    <2>1. /\ wpc' = [wpc EXCEPT ![w] = "register"]
          /\ wJob' = [wJob EXCEPT ![w] = NoJob]
          /\ started' = started
      BY <1>2 DEF RunReturns
    <2>2. Executing' = Executing \ {w} /\ \A v \in Executing' : wJob'[v] = wJob[v]
      BY <1>0, <2>1 DEF Executing
    <2> QED BY <2>1, <2>2 DEF RunInv
  <1>3. ASSUME NEW w \in Worker, Register(w) \/ WorkerQuit(w) PROVE RunInv'
    <2>1. Executing' = Executing
      BY <1>0, <1>3 DEF Register, WorkerQuit, Executing
    <2>2. UNCHANGED <<wJob, started>>
      BY <1>3 DEF Register, WorkerQuit
    <2> QED BY <2>1, <2>2 DEF RunInv
  <1>4. CASE \/ DispatcherStep \/ MainStep \/ (\E j \in Job : SubmitterStep(j))
             \/ UNCHANGED vars
    <2>1. UNCHANGED <<wpc, wJob, started>>
      BY <1>4 DEF DispatcherStep, ReceiveJob, ReceiveZero, TakeWorker, DispatcherQuit, MainStep,
           CloseQueue, StopBegins, StopReturns, StopTimesOut, Exit, SubmitterStep, Request, Send,
           SendBuffered, SendBlocks, SendPanics, workerVars, vars
    <2> QED BY <2>1 DEF RunInv, Executing
  <1> QED BY <1>1, <1>2, <1>3, <1>4 DEF Next, WorkerStep

\* No later step opens or closes it again.
LEMMA CloseStep == CloseInv /\ [Next]_vars => CloseInv'
  BY DEF CloseInv, Next, DispatcherStep, ReceiveJob, ReceiveZero, TakeWorker, DispatcherQuit,
         MainStep, CloseQueue, StopBegins, StopReturns, StopTimesOut, Exit, SubmitterStep,
         Request, Send, SendBuffered, SendBlocks, SendPanics, WorkerStep, Register, Handoff,
         RunReturns, WorkerQuit, vars, queueVars

\* While a worker is idle fewer than MaxWorkers jobs run.
LEMMA IdleMeansRoom ==
    ASSUME NEW w \in Worker, w \notin Executing
    PROVE  Cardinality(RunningJobs) < MaxWorkers
  <1> DEFINE f == [j \in RunningJobs |-> CHOOSE v \in Executing : wJob[v] = j]
  <1>1. \A j \in RunningJobs : f[j] \in Executing /\ wJob[f[j]] = j
    BY DEF RunningJobs
  <1>2. f \in [RunningJobs -> Worker \ {w}]
    BY <1>1 DEF Executing
  <1> HIDE DEF f
  <1>3. f \in Injection(RunningJobs, Worker \ {w})
    BY <1>1, <1>2 DEF Injection, IsInjective
  <1>4. /\ IsFiniteSet(Worker \ {w})
        /\ Cardinality(Worker \ {w}) = Cardinality(Worker) - 1
    BY WorkerAssumption, FS_RemoveElement
  <1>5. Cardinality(RunningJobs) <= Cardinality(Worker \ {w}) /\ IsFiniteSet(RunningJobs)
    BY <1>3, <1>4, FS_Injection
  <1>6. Cardinality(RunningJobs) \in Nat /\ Cardinality(Worker) \in Nat
    BY <1>5, WorkerAssumption, FS_CardinalityType
  <1> QED BY <1>4, <1>5, <1>6 DEF MaxWorkers

Line == Held \o jobQueue \o parked
Refused == {j \in Job : submitter[j] = "panicked"}

\* A job whose submitter is about to send is unknown to JobService.
LEMMA SenderIsUnknown ==
    ASSUME Refining, NEW j \in Job, submitter[j] = "sending"
    PROVE  j \notin Service!Known
  <1>1. Held \in Seq(Job) /\ jobQueue \in Seq(Job) /\ parked \in Seq(Job)
    BY HeldType DEF Refining, Typing, TypeOK
  <1>2. Held \o jobQueue \in Seq(Job) /\ Range(Held \o jobQueue) = Range(Held) \cup Range(jobQueue)
    BY <1>1, ConcatElements
  <1>3. Range(Line) = Range(Held) \cup Range(jobQueue) \cup Range(parked)
    <2> DEFINE front == Held \o jobQueue
    <2>1. front \in Seq(Job) /\ Line = front \o parked
      BY <1>2 DEF Line
    <2> HIDE DEF front
    <2>2. Range(front \o parked) = Range(front) \cup Range(parked)
      BY <1>1, <2>1, ConcatElements
    <2> QED BY <1>2, <2>1, <2>2 DEF front
  <1>4. j \notin Range(accepted) /\ j \notin Range(parked)
    BY DEF Refining, FifoInv, ParkedInv
  <1>5. j \notin Range(Line) /\ j \notin Range(started)
    BY <1>3, <1>4, AcceptedJobs DEF Refining
  <1>6. j \notin RunningJobs
    BY <1>5, NilAssumption DEF Refining, RunInv, RunningJobs
  <1>7. Service!Range(Line) = Range(Line)
    BY DEF Range, Service!Range
  <1> QED BY <1>5, <1>6, <1>7 DEF Service!Known, Finished, Line

\* Every step of the pool is one of JobService or leaves its state alone.
LEMMA PoolStepServes == Refining /\ [Next]_vars => [Service!Next]_Service!vars
  <1> SUFFICES ASSUME Refining, [Next]_vars PROVE Service!Next \/ UNCHANGED Service!vars
    OBVIOUS
  <1>0. /\ Held \in Seq(Job) /\ jobQueue \in Seq(Job) /\ parked \in Seq(Job)
        /\ Held \o jobQueue \in Seq(Job) /\ Line \in Seq(Job) /\ started \in Seq(Job)
        /\ submitter \in [Job -> {"none", "sending", "parked", "queued", "panicked"}]
        /\ wpc \in [Worker -> {"register", "select", "run", "stopped"}]
        /\ wJob \in [Worker -> Job \cup {ZeroJob, NoJob}]
    BY HeldType, ConcatProperties DEF Refining, Typing, TypeOK, Line
  <1>a. ASSUME UNCHANGED <<queueClosed, Line, RunningJobs, Finished, Refused>>
        PROVE  UNCHANGED Service!vars
    BY <1>a DEF Service!vars, Line, Refused
  <1>b. ASSUME UNCHANGED <<wpc, wJob, started>> PROVE UNCHANGED <<RunningJobs, Finished>>
    BY <1>b DEF RunningJobs, Executing, Finished
  <1>c. ASSUME NEW j \in Job, UNCHANGED <<queueClosed, wpc, wJob, started, Refused>>,
               submitter[j] = "sending", ~queueClosed, Line' = Append(Line, j)
        PROVE  Service!Next
    <2>1. j \notin Service!Known
      BY <1>c, SenderIsUnknown
    <2>2. Service!Arrive(j)
      BY <1>b, <1>c, <2>1 DEF Service!Arrive, Line, Refused
    <2> QED BY <2>2 DEF Service!Next
  <1>1. ASSUME NEW j \in Job, Request(j) PROVE UNCHANGED Service!vars
    <2>1. /\ UNCHANGED <<queueClosed, jobQueue, parked, dpc, dJob, wpc, wJob, started>>
          /\ submitter[j] = "none" /\ submitter' = [submitter EXCEPT ![j] = "sending"]
      BY <1>1 DEF Request, queueVars, dispVars, workerVars
    <2>2. UNCHANGED <<Line, Refused>>
      BY <1>0, <2>1 DEF Line, Held, Refused
    <2> QED BY <1>a, <1>b, <2>1, <2>2
  <1>2. ASSUME NEW j \in Job, SendBuffered(j) PROVE Service!Next
    <2>1. /\ UNCHANGED <<queueClosed, parked, dpc, dJob, wpc, wJob, started>>
          /\ submitter[j] = "sending" /\ submitter' = [submitter EXCEPT ![j] = "queued"]
          /\ ~queueClosed /\ jobQueue' = Append(jobQueue, j) /\ Len(jobQueue) < QueueCap
      BY <1>2 DEF SendBuffered, dispVars, workerVars
    <2>2. parked = <<>>
      <3>1. Len(jobQueue) # QueueCap
        BY <1>0, <2>1, QueueCapAssumption, LenProperties
      <3> QED BY <3>1 DEF Refining, ParkedInv
    <2>3. Line = Held \o jobQueue /\ Line' = Held \o Append(jobQueue, j)
      <3>1. Held' = Held /\ Append(jobQueue, j) \in Seq(Job)
        BY <1>0, <2>1, AppendElements DEF Held
      <3>2. Held \o Append(jobQueue, j) \in Seq(Job)
        BY <1>0, <3>1, ConcatProperties
      <3> QED BY <1>0, <2>1, <2>2, <3>1, <3>2, ConcatEmptySeq DEF Line
    <2>4. Held \o Append(jobQueue, j) = Append(Held \o jobQueue, j)
      <3>1. <<j>> \in Seq(Job)
        OBVIOUS
      <3>2. /\ Append(Held \o jobQueue, j) = (Held \o jobQueue) \o <<j>>
            /\ Append(jobQueue, j) = jobQueue \o <<j>>
        BY <1>0, AppendIsConcat
      <3>3. (Held \o jobQueue) \o <<j>> = Held \o (jobQueue \o <<j>>)
        <4>1. Held \in Seq(Job) /\ jobQueue \in Seq(Job) /\ <<j>> \in Seq(Job)
          BY <1>0, <3>1
        <4> QED BY <4>1, ConcatAssociative, SMTT(30)
      <3> QED BY <3>2, <3>3
    <2>5. Refused' = Refused
      BY <1>0, <2>1 DEF Refused
    <2> QED BY <1>c, <2>1, <2>3, <2>4, <2>5
  <1>3. ASSUME NEW j \in Job, SendBlocks(j) PROVE Service!Next
    <2>1. /\ UNCHANGED <<queueClosed, jobQueue, dpc, dJob, wpc, wJob, started>>
          /\ submitter[j] = "sending" /\ submitter' = [submitter EXCEPT ![j] = "parked"]
          /\ ~queueClosed /\ parked' = Append(parked, j)
      BY <1>3 DEF SendBlocks, dispVars, workerVars
    <2>2. Line' = (Held \o jobQueue) \o Append(parked, j)
      BY <2>1 DEF Line, Held
    <2>3. (Held \o jobQueue) \o Append(parked, j) = Append(Line, j)
      <3> DEFINE front == Held \o jobQueue
      <3>1. front \in Seq(Job) /\ parked \in Seq(Job) /\ <<j>> \in Seq(Job)
            /\ front \o parked \in Seq(Job) /\ Line = front \o parked
        BY <1>0 DEF Line
      <3> HIDE DEF front
      <3>2. Append(front \o parked, j) = (front \o parked) \o <<j>> /\ Append(parked, j) = parked \o <<j>>
        BY <3>1, AppendIsConcat
      <3>3. (front \o parked) \o <<j>> = front \o (parked \o <<j>>)
        BY <3>1, ConcatAssociative, SMTT(30)
      <3> QED BY <3>1, <3>2, <3>3 DEF front
    <2>4. Refused' = Refused
      BY <1>0, <2>1 DEF Refused
    <2> QED BY <1>c, <2>1, <2>2, <2>3, <2>4
  <1>4. ASSUME NEW j \in Job, SendPanics(j) PROVE Service!Next
    <2>1. /\ UNCHANGED <<queueClosed, jobQueue, parked, dpc, dJob, wpc, wJob, started>>
          /\ submitter[j] = "sending" /\ submitter' = [submitter EXCEPT ![j] = "panicked"]
          /\ queueClosed
      BY <1>4 DEF SendPanics, queueVars, dispVars, workerVars
    <2>2. Line' = Line /\ Refused' = Refused \cup {j}
      BY <1>0, <2>1 DEF Line, Held, Refused
    <2>3. Service!Refuse(j)
      BY <1>b, <2>1, <2>2, SenderIsUnknown DEF Service!Refuse, Line, Refused
    <2> QED BY <2>3 DEF Service!Next
  <1>5. CASE ReceiveJob
    <2>1. /\ dpc = "select" /\ dpc' = "take" /\ jobQueue # <<>> /\ dJob' = Head(jobQueue)
          /\ UNCHANGED <<queueClosed, wpc, wJob, started>>
      BY <1>5 DEF ReceiveJob, workerVars
    <2>2. Head(jobQueue) \in Job /\ Tail(jobQueue) \in Seq(Job)
      BY <1>0, <2>1, TailElements
    <2>3. Held = <<>> /\ Held' = <<Head(jobQueue)>> /\ Held' \in Seq(Job)
      BY <2>1, <2>2, NilAssumption DEF Held
    <2>4. Held \o jobQueue = Held' \o Tail(jobQueue)
      BY <1>0, <2>1, <2>2, <2>3, MoveHead, ConcatEmptySeq
    <2>5. CASE parked = <<>>
      BY <1>5, <1>a, <1>b, <2>1, <2>4, <2>5 DEF ReceiveJob, Line, Refused
    <2>6. CASE parked # <<>>
      <3>1. /\ jobQueue' = Append(Tail(jobQueue), Head(parked)) /\ parked' = Tail(parked)
            /\ submitter' = [submitter EXCEPT ![Head(parked)] = "queued"]
        BY <1>5, <2>6 DEF ReceiveJob
      <3>2. Head(parked) \in Job /\ Head(parked) \in Range(parked)
        BY <1>0, <2>6, TailElements
      <3>3. Refused' = Refused
        <4>1. submitter[Head(parked)] = "parked"
          BY <3>2 DEF Refining, ParkedInv
        <4> QED BY <1>0, <3>1, <3>2, <4>1 DEF Refused
      <3>4. Line' = Line
        <4> DEFINE rest == Tail(jobQueue)
                   next == Head(parked)
                   front == Held' \o rest
        <4>1. /\ Held' \in Seq(Job) /\ rest \in Seq(Job) /\ <<next>> \in Seq(Job)
              /\ next \in Job /\ front \in Seq(Job)
          BY <2>2, <2>3, <3>2, ConcatProperties
        <4>2. Line = front \o parked /\ Line' = (Held' \o Append(rest, next)) \o Tail(parked)
          BY <2>4, <3>1 DEF Line
        <4>3. front \o parked = (front \o <<next>>) \o Tail(parked)
          <5> HIDE DEF front
          <5> QED BY <1>0, <2>6, <4>1, MoveHead
        <4>4. Held' \o Append(rest, next) = front \o <<next>>
          <5> DEFINE h == Held'
          <5>1. h \in Seq(Job)
            BY <4>1
          <5> HIDE DEF h, rest, next, front
          <5>2. Append(rest, next) = rest \o <<next>>
            BY <4>1, AppendIsConcat
          <5>3. (h \o rest) \o <<next>> = h \o (rest \o <<next>>)
            BY <4>1, <5>1, ConcatAssociative, SMTT(30)
          <5> QED BY <5>2, <5>3 DEF h, front
        <4> QED BY <4>2, <4>3, <4>4
      <3> QED BY <1>a, <1>b, <2>1, <3>3, <3>4
    <2> QED BY <2>5, <2>6
  <1>6. ASSUME NEW w \in Worker, Handoff(w) PROVE Service!Next \/ UNCHANGED Service!vars
    <2>1. /\ dpc = "send" /\ dpc' = "select" /\ dWorker = w
          /\ wpc[w] = "select" /\ dJob \in Job \cup {ZeroJob}
          /\ wpc' = [wpc EXCEPT ![w] = "run"]
          /\ wJob' = [wJob EXCEPT ![w] = dJob]
          /\ started' = IF dJob = ZeroJob THEN started ELSE Append(started, dJob)
          /\ UNCHANGED <<submitter, jobQueue, parked, queueClosed>>
      BY <1>6 DEF Handoff, queueVars, Refining, Typing, DispatcherInv
    <2>2. Executing' = Executing \cup {w} /\ w \notin Executing /\ Executing \subseteq Worker
      BY <1>0, <2>1 DEF Executing
    <2>3. wJob'[w] = dJob /\ \A v \in Executing : wJob'[v] = wJob[v]
      BY <1>0, <2>1, <2>2
    <2>4. RunningJobs' = RunningJobs \cup ({dJob} \cap Job)
      BY <2>2, <2>3 DEF RunningJobs
    <2>5. Held' = <<>> /\ Line' = jobQueue \o parked
      BY <1>0, <2>1, ConcatEmptySeq DEF Held, Line
    <2>6. CASE dJob = ZeroJob
      <3>1. Held = <<>> /\ Line = jobQueue \o parked
        BY <1>0, <2>6, ConcatEmptySeq DEF Held, Line
      <3>2. RunningJobs' = RunningJobs /\ started' = started
        BY <2>1, <2>4, <2>6, NilAssumption
      <3>3. UNCHANGED <<Line, Finished, Refused>>
        BY <2>1, <2>5, <3>1, <3>2 DEF Finished, Refused
      <3> QED BY <1>a, <2>1, <3>2, <3>3
    <2>7. CASE dJob # ZeroJob
      <3>1. dJob \in Job /\ Held = <<dJob>>
        BY <2>1, <2>7 DEF Held
      <3>2. Line = <<dJob>> \o (jobQueue \o parked) /\ jobQueue \o parked \in Seq(Job)
        <4>1. <<dJob>> \in Seq(Job)
          BY <3>1
        <4> QED BY <1>0, <3>1, <4>1, ConcatAssociative, ConcatProperties, SMTT(30) DEF Line
      <3>3. Line # <<>> /\ Head(Line) = dJob /\ Tail(Line) = Line'
        <4> DEFINE rest == jobQueue \o parked
        <4>1. rest \in Seq(Job) /\ Line = <<dJob>> \o rest /\ Line' = rest
          BY <2>5, <3>2
        <4> HIDE DEF rest
        <4>2. <<dJob>> \in Seq(Job) /\ Len(<<dJob>>) = 1 /\ <<dJob>>[1] = dJob
          BY <3>1
        <4>3. /\ Len(Line) = 1 + Len(rest) /\ Len(rest) \in Nat
              /\ Line[1] = dJob
              /\ \A i \in 1 .. Len(rest) : Line[i + 1] = rest[i]
          <5>1. /\ Len(Line) = 1 + Len(rest) /\ Len(rest) \in Nat
                /\ \A i \in 1 .. 1 + Len(rest) :
                     Line[i] = IF i <= 1 THEN <<dJob>>[i] ELSE rest[i - 1]
            BY <4>1, <4>2, ConcatProperties, LenProperties
          <5> QED BY <4>2, <5>1
        <4>4. Line # <<>>
          BY <1>0, <4>3, EmptySeq
        <4>5. /\ Head(Line) = Line[1] /\ Tail(Line) \in Seq(Job)
              /\ Len(Tail(Line)) = Len(rest)
              /\ \A i \in 1 .. Len(rest) : Tail(Line)[i] = rest[i]
          BY <1>0, <4>3, <4>4, HeadTailProperties
        <4>6. Tail(Line) = rest
          BY <4>1, <4>5, SeqEqual
        <4> QED BY <4>1, <4>3, <4>4, <4>5, <4>6
      <3>4. dJob \notin Range(started) /\ Range(started') = Range(started) \cup {dJob}
        <4>1. dJob \in Range(Held)
          BY <3>1 DEF Range
        <4>2. dJob \notin Range(started)
          BY <4>1, AcceptedJobs DEF Refining
        <4> QED BY <1>0, <2>1, <2>7, <3>1, <4>2, AppendElements
      <3>5. Finished' = Finished
        <4>1. dJob \notin Finished
          BY <3>4 DEF Finished
        <4>2. RunningJobs' = RunningJobs \cup {dJob}
          BY <2>4, <3>1
        <4> QED BY <3>4, <4>1, <4>2 DEF Finished
      <3>6. Service!Cardinality(RunningJobs) < MaxWorkers
        <4>1. Service!Cardinality(RunningJobs) = Cardinality(RunningJobs)
          BY DEF Cardinality, Service!Cardinality
        <4> QED BY <2>2, <4>1, IdleMeansRoom
      <3>7. Service!Begin
        <4>1. RunningJobs' = RunningJobs \cup {Head(Line)}
          BY <2>4, <3>1, <3>3
        <4> QED BY <2>1, <3>3, <3>5, <3>6, <4>1 DEF Service!Begin, Line, Refused
      <3> QED BY <3>7 DEF Service!Next
    <2> QED BY <2>6, <2>7
  <1>7. ASSUME NEW w \in Worker, RunReturns(w) PROVE Service!Next \/ UNCHANGED Service!vars
    <2>1. /\ wpc[w] = "run"
          /\ wpc' = [wpc EXCEPT ![w] = "register"]
          /\ wJob' = [wJob EXCEPT ![w] = NoJob]
          /\ UNCHANGED <<submitter, jobQueue, parked, queueClosed, dpc, dJob, started>>
      BY <1>7 DEF RunReturns, queueVars, dispVars
    <2>2. /\ Executing' = Executing \ {w} /\ w \in Executing /\ Executing \subseteq Worker
          /\ \A v \in Executing' : wJob'[v] = wJob[v]
      BY <1>0, <2>1 DEF Executing
    <2>3. UNCHANGED <<Line, Refused>>
      BY <2>1 DEF Line, Held, Refused
    <2>4. CASE wJob[w] \in Job
      <3>1. \A v \in Executing \ {w} : wJob[v] # wJob[w]
        BY <2>2, <2>4 DEF Refining, RunInv
      <3>2. RunningJobs' = RunningJobs \ {wJob[w]} /\ wJob[w] \in RunningJobs
        BY <2>2, <2>4, <3>1 DEF RunningJobs
      <3>3. wJob[w] \in Range(started)
        BY <2>2, <2>4, NilAssumption DEF Refining, RunInv
      <3>4. Finished' = Finished \cup {wJob[w]}
        BY <2>1, <3>2, <3>3 DEF Finished
      <3>5. Service!Finish(wJob[w])
        BY <2>1, <2>3, <3>2, <3>4 DEF Service!Finish, Line, Refused
      <3> QED BY <2>4, <3>5 DEF Service!Next
    <2>5. CASE wJob[w] \notin Job
      <3>1. RunningJobs' = RunningJobs
        BY <2>2, <2>5 DEF RunningJobs
      <3>2. Finished' = Finished
        BY <2>1, <3>1 DEF Finished
      <3> QED BY <1>a, <2>1, <2>3, <3>1, <3>2
    <2> QED BY <2>4, <2>5
  <1>8. ASSUME NEW w \in Worker, Register(w) \/ WorkerQuit(w) PROVE UNCHANGED Service!vars
    <2>1. UNCHANGED <<submitter, jobQueue, parked, queueClosed, dpc, dJob, wJob, started>>
      BY <1>8 DEF Register, WorkerQuit, queueVars, dispVars
    <2>2. Executing' = Executing
      BY <1>0, <1>8 DEF Register, WorkerQuit, Executing
    <2>3. UNCHANGED <<Line, Refused, RunningJobs, Finished>>
      BY <2>1, <2>2 DEF Line, Held, Refused, RunningJobs, Finished
    <2> QED BY <1>a, <2>1, <2>3
  <1>9. CASE CloseQueue
    <2>1. /\ main = "serving" /\ queueClosed' = TRUE /\ parked' = <<>>
          /\ submitter' = [j \in Job |->
               IF submitter[j] = "parked" THEN "panicked" ELSE submitter[j]]
          /\ UNCHANGED <<jobQueue, dpc, dJob, wpc, wJob, started>>
      BY <1>9 DEF CloseQueue, dispVars, workerVars
    <2> DEFINE front == Held \o jobQueue
               n == Len(front)
    <2>2. Line' = front
      BY <1>0, <2>1, ConcatEmptySeq DEF Line, Held
    <2>3. /\ front \in Seq(Job) /\ Line = front \o parked
          /\ n \in Nat /\ Len(Line) = n + Len(parked) /\ Len(parked) \in Nat
          /\ DOMAIN parked = 1 .. Len(parked)
          /\ \A i \in 1 .. n + Len(parked) : Line[i] = IF i <= n THEN front[i] ELSE parked[i - n]
      BY <1>0, ConcatProperties, LenProperties DEF Line
    <2> HIDE DEF front, n
    <2>4. n \in 0 .. Len(Line)
      BY <2>3
    <2>5. SubSeq(Line, 1, n) = front
      <3>1. \A i \in 1 .. n : Line[i] = front[i] /\ Line[i] \in Job
        <4>1. Len(front) = n
          BY DEF n
        <4>2. \A i \in 1 .. n : front[i] \in Job
          BY <2>3, <4>1, ElementOfSeq
        <4> QED BY <2>3, <4>2
      <3>2. /\ SubSeq(Line, 1, n) \in Seq(Job)
            /\ Len(SubSeq(Line, 1, n)) = IF 1 <= n THEN n - 1 + 1 ELSE 0
            /\ \A i \in 1 .. n - 1 + 1 : SubSeq(Line, 1, n)[i] = Line[1 + i - 1]
        BY <2>3, <3>1, SubSeqProperties
      <3>3. Len(front) = n /\ Len(SubSeq(Line, 1, n)) = n
        BY <2>3, <3>2 DEF n
      <3>4. \A i \in 1 .. n : SubSeq(Line, 1, n)[i] = front[i]
        BY <2>3, <3>1, <3>2
      <3> QED BY <2>3, <3>2, <3>3, <3>4, SeqEqual
    <2>6. {Line[i] : i \in n + 1 .. Len(Line)} = Range(parked)
      <3>1. \A i \in n + 1 .. Len(Line) : i - n \in 1 .. Len(parked) /\ Line[i] = parked[i - n]
        BY <2>3
      <3>2. \A k \in 1 .. Len(parked) : n + k \in n + 1 .. Len(Line) /\ Line[n + k] = parked[k]
        BY <2>3
      <3>3. {Line[i] : i \in n + 1 .. Len(Line)} \subseteq Range(parked)
        BY <2>3, <3>1 DEF Range
      <3>4. ASSUME NEW x \in Range(parked) PROVE x \in {Line[i] : i \in n + 1 .. Len(Line)}
        <4>1. PICK k \in 1 .. Len(parked) : x = parked[k]
          BY <2>3 DEF Range
        <4> QED BY <3>2, <4>1
      <3> QED BY <3>3, <3>4
    <2>7. Refused' = Refused \cup Range(parked)
      <3>1. Range(parked) \subseteq Job
        BY <1>0, <2>3, ElementOfSeq DEF Range
      <3>2. \A j \in Job : submitter[j] = "parked" <=> j \in Range(parked)
        BY DEF Refining, ParkedInv
      <3> QED BY <1>0, <2>1, <3>1, <3>2 DEF Refused
    <2>8. ~queueClosed
      BY <2>1 DEF Refining, CloseInv
    <2>9. Service!Close
      <3>1. UNCHANGED <<RunningJobs, Finished>>
        BY <1>b, <2>1
      <3>2. (~queueClosed)' = FALSE
        BY <2>1
      <3> QED BY <2>2, <2>4, <2>5, <2>6, <2>7, <2>8, <3>1, <3>2 DEF Service!Close, Line, Refused
    <2> QED BY <2>9 DEF Service!Next
  <1>10. CASE \/ ReceiveZero \/ TakeWorker \/ DispatcherQuit
              \/ StopBegins \/ StopReturns \/ StopTimesOut \/ Exit
              \/ UNCHANGED vars
    <2>1. UNCHANGED <<submitter, jobQueue, parked, queueClosed, wpc, wJob, started>>
      BY <1>10 DEF ReceiveZero, TakeWorker, DispatcherQuit, StopBegins, StopReturns,
           StopTimesOut, Exit, vars, queueVars, workerVars
    <2>2. Held' = Held
      BY <1>10 DEF ReceiveZero, TakeWorker, DispatcherQuit, StopBegins, StopReturns,
           StopTimesOut, Exit, vars, dispVars, Held
    <2> QED BY <1>a, <1>b, <2>1, <2>2 DEF Line, Refused
  <1> QED
    BY <1>1, <1>2, <1>3, <1>4, <1>5, <1>6, <1>7, <1>8, <1>9, <1>10
    DEF Next, DispatcherStep, WorkerStep, MainStep, SubmitterStep, Send

\* The pool implements JobService: with any number of workers, jobs and slots
\* in the queue, jobs run in the order in which their submitters reached the
\* queue, at most MaxWorkers at a time, and only the shutdown gives one up.
THEOREM PoolImplementsJobService == Spec => ImplementsJobService
  <1>1. Init => Refining /\ Service!Init
    <2> SUFFICES ASSUME Init PROVE Refining /\ Service!Init
      OBVIOUS
    <2>1. Held = <<>> /\ <<>> \o <<>> = <<>> /\ Range(<<>>) = {} /\ IsInjective(<<>>)
      BY EmptySeq, ConcatEmptySeq DEF Init, Held, Range, IsInjective
    <2>2. Executing = {} /\ RunningJobs = {}
      BY DEF Init, Executing, RunningJobs
    <2>3. Refining
      BY <2>1, <2>2, QueueInit DEF Init, Refining, RunInv, CloseInv
    <2>4. Service!Init
      BY <2>1, <2>2 DEF Init, Service!Init, Finished
    <2> QED BY <2>3, <2>4
  <1>2. Refining /\ [Next]_vars => Refining'
    BY TypingStep, ParkedStep, FifoStep, RunStep, CloseStep DEF Refining
  <1> QED BY <1>1, <1>2, PoolStepServes, PTL DEF Spec, Service!Spec, ImplementsJobService
=============================================================================
