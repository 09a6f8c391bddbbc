------------------------- MODULE AgentProcessProofs -------------------------
(***************************************************************************)
(* Proofs about AgentProcess for any set of processes the agent may start. *)
(***************************************************************************)
EXTENDS AgentProcess, TLAPS

-----------------------------------------------------------------------------
(* The inductive invariant, part by part. *)

\* The agent is in its group from its start on; nothing of the group runs once
\* it was killed on Unix, and the agent on Windows neither.
GroupInv ==
    /\ call \in {"select", "drain"} => leader \in group
    /\ call = "drain" \/ result = "timeout" =>
         leader \notin alive /\ (platform = "unix" => alive \cap group = {})

\* What the goroutine in cmd.Wait has seen stays true: the leader is not
\* started again, and without a writer the pipe gets no new one.
WaitInv ==
    /\ call = "start" => alive = {} /\ group = {} /\ waiter = "none"
    /\ waiter \in {"pipe", "sent"} => leader \notin alive
    /\ waiter = "sent" => pipe = {}
    /\ result \in {"ok", "error"} => waiter = "sent"

IInv == TypeOK /\ GroupInv /\ WaitInv

-----------------------------------------------------------------------------

\* The first state satisfies the invariant.
LEMMA Initially == Init => IInv
  BY DEF Init, IInv, TypeOK, GroupInv, WaitInv, Process

\* A new process has its parent's group or none, and its parent's pipe or
\* none: where no parent can give one, nobody gets one.
LEMMA ForkStep ==
    ASSUME IInv, NEW p \in Process, NEW d \in Desc, Fork(p, d)
    PROVE  IInv'
  <1>1. /\ p \in alive /\ d \notin alive /\ d \notin group /\ d \notin pipe
        /\ alive' = alive \cup {d}
        /\ group' = group \/ (p \in group /\ group' = group \cup {d})
        /\ pipe' = pipe \/ (p \in pipe /\ pipe' = pipe \cup {d})
        /\ UNCHANGED <<platform, call, result, expired, waiter, exitedOk>>
    BY DEF Fork
  <1>2. d # leader /\ d \in Process
    BY LeaderAssumption DEF Process
  <1>3. TypeOK'
    BY <1>1, <1>2 DEF IInv, TypeOK
  <1>4. GroupInv'
    BY <1>1, <1>2 DEF IInv, GroupInv
  <1>5. WaitInv'
    BY <1>1, <1>2 DEF IInv, TypeOK, WaitInv
  <1> QED BY <1>3, <1>4, <1>5 DEF IInv

\* Every step keeps the invariant.
LEMMA Inductive == IInv /\ [Next]_vars => IInv'
  <1> SUFFICES ASSUME IInv, [Next]_vars
               PROVE  IInv'
    OBVIOUS
  <1> USE DEF IInv, TypeOK, GroupInv, WaitInv, Process
  <1>1. CASE Start
    BY <1>1 DEF Start
  <1>2. CASE StartFails
    BY <1>2 DEF StartFails, processVars
  <1>3. CASE ReturnDone
    BY <1>3 DEF ReturnDone, processVars
  <1>4. CASE Kill
    BY <1>4 DEF Kill, Victims
  <1>5. CASE Drain
    BY <1>5 DEF Drain, processVars
  <1>6. CASE WaitExit
    BY <1>6 DEF WaitExit, processVars
  <1>7. CASE WaitPipe
    BY <1>7 DEF WaitPipe, processVars
  <1>8. CASE Expire
    BY <1>8 DEF Expire, processVars
  <1>9. CASE ContextKillsLeader
    BY <1>9 DEF ContextKillsLeader
  <1>10. ASSUME NEW p \in Process, Exit(p)
         PROVE  IInv'
    BY <1>10 DEF Exit
  <1>11. ASSUME NEW p \in Process, NEW d \in Desc, Fork(p, d)
         PROVE  IInv'
    BY <1>11, ForkStep
  <1>12. CASE UNCHANGED vars
    BY <1>12 DEF vars, processVars
  <1> QED
    BY <1>1, <1>2, <1>3, <1>4, <1>5, <1>6, <1>7, <1>8, <1>9, <1>10, <1>11, <1>12
    DEF Next, CallStep, WaitStep, TreeStep

\* The invariant holds in every reachable state.
THEOREM Invariance == Spec => []IInv
  BY Initially, Inductive, PTL DEF Spec

\* Types; the pipe is held by living processes only, and there is a result
\* exactly when the call has returned.
THEOREM AgentTypeCorrect == Spec => []TypeOK
  <1>1. IInv => TypeOK
    BY DEF IInv
  <1> QED BY <1>1, Invariance, PTL

\* However many processes the agent has started, and whenever they fork or
\* end, neither it nor, on Unix, any of its group runs after a timeout.
THEOREM TimeoutKillsGroup == Spec => []GroupDiesOnTimeout
  <1>1. IInv => GroupDiesOnTimeout
    BY DEF IInv, GroupInv, GroupDiesOnTimeout
  <1> QED BY <1>1, Invariance, PTL

\* Every outcome other than a timeout comes with the whole output, whichever
\* process wrote it.
THEOREM OutcomesAreWhole == Spec => []OutputIsWhole
  <1>1. IInv => OutputIsWhole
    BY DEF IInv, WaitInv, OutputIsWhole
  <1> QED BY <1>1, Invariance, PTL
=============================================================================
