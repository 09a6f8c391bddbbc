------------------------- MODULE ServerStartupProofs -------------------------
(***************************************************************************)
(* Proofs about ServerStartup for any set of servers on one port, finite   *)
(* or not, any of them with AUTO_KILL_PORT, and any number of requests.    *)
(***************************************************************************)
EXTENDS ServerStartup, TLAPS

-----------------------------------------------------------------------------
(* The inductive invariant, part by part. *)

\* The counters of a server's work.
Hand == [served : 0 .. MaxWork, handlers : 0 .. MaxWork,
         sending : 0 .. MaxWork, jobs : 0 .. MaxWork]

\* What a server has in hand came with its requests.
WorkInv ==
    \A s \in Server :
        /\ work[s].handlers <= work[s].served
        /\ work[s].sending + work[s].jobs <= work[s].served

\* Where the listener is, main has been: there is none before the server is
\* started, and it is closed before anything is waited for.
ListenerInv ==
    \A s \in Server :
        /\ pc[s] \in {"off", "refused"} \cup (Early \ {"notify"}) => listener[s] = "none"
        /\ pc[s] \in Leaving => listener[s] = "closed"

\* The port has one owner.
PortInv ==
    \A s, t \in Server : listener[s] = "listening" /\ listener[t] = "listening" => s = t

\* Work comes from the listener, and without one it belongs to a server that
\* is leaving.
SourceInv ==
    \A s \in Server : work[s].sending > 0 \/ work[s].jobs > 0 =>
        listener[s] = "listening" \/ pc[s] \in Leaving

\* What a step of the shutdown has waited for does not come back.
DrainInv ==
    \A s \in Server : ~timedOut[s] =>
        /\ pc[s] \in {"drainPool", "stopTunnel", "closeDB"} => work[s].handlers = 0
        /\ pc[s] \in {"stopTunnel", "closeDB"} => work[s].jobs = 0

\* ngrok runs only between its start and its end, or when its server died.
TunnelInv ==
    \A s \in Server : tunnel[s] # "none" =>
        pc[s] \in {"poll", "hanging", "serve", "notify", "serving", "drainHTTP", "drainPool",
                   "stopTunnel", "killed"}

Parts == WorkInv /\ ListenerInv /\ PortInv /\ SourceInv /\ DrainInv /\ TunnelInv

IInv == TypeOK /\ Parts

-----------------------------------------------------------------------------

\* Nothing has started.
LEMMA Initially == Init => IInv
  BY NobodyAssumption, BoundAssumption
  DEF Init, NoWork, IInv, TypeOK, Parts, WorkInv, ListenerInv, PortInv, SourceInv, DrainInv,
      TunnelInv, Early, Leaving, Ended, Stages

\* A server that a signal kills or only notifies keeps the types.
LEMMA InterruptTypes ==
    ASSUME IInv, NEW s \in Server, Interrupt(s)
    PROVE  /\ pc' \in [Server -> Stages]
           /\ listener' \in [Server -> {"none", "starting", "listening", "closed"}]
           /\ interrupted' \in [Server -> BOOLEAN]
           /\ work' \in [Server -> Hand]
  <1> USE BoundAssumption DEF IInv, TypeOK, Hand, NoWork
  <1>1. CASE pc[s] \in Early
    <2>1. Dies(s) /\ UNCHANGED interrupted
      BY <1>1 DEF Interrupt
    <2> QED BY <2>1 DEF Dies, Stages, Ended
  <1>2. CASE pc[s] \notin Early
    <2>1. UNCHANGED <<pc, listener, work>>
      BY <1>2 DEF Interrupt
    <2>2. interrupted' = [interrupted EXCEPT ![s] = pc[s] \in {"serving"} \cup Leaving \/ @]
      BY <1>2 DEF Interrupt
    <2>3. (pc[s] \in {"serving"} \cup Leaving \/ interrupted[s]) \in BOOLEAN
      OBVIOUS
    <2> QED BY <2>1, <2>2, <2>3
  <1> QED BY <1>1, <1>2

\* The types.
LEMMA TypeStep == IInv /\ [Next]_vars => TypeOK'
  <1> SUFFICES ASSUME IInv, [Next]_vars PROVE TypeOK'
    OBVIOUS
  <1> USE BoundAssumption
      DEF IInv, TypeOK, Stages, Early, Leaving, Ended, Go, guardVars, tunnelVars, NoWork
  <1>1. CASE ForeignLeaves
    BY <1>1 DEF ForeignLeaves
  <1>2. ASSUME NEW s \in Server, Begin(s) PROVE TypeOK'
    BY <1>2 DEF Begin
  <1>3. ASSUME NEW s \in Server, GuardStep(s) PROVE TypeOK'
    <2>1. CASE Probe(s)
      BY <2>1 DEF Probe
    <2>2. CASE Find(s)
      <3>1. Listings \subseteq SUBSET Pid
        BY DEF Listings, Holder, Connected, Pid
      <3>2. /\ \E p \in {"reprobe", "refused", "kill"} : pc' = [pc EXCEPT ![s] = p]
            /\ found' = found \/ \E pids \in Listings : found' = [found EXCEPT ![s] = pids]
            /\ UNCHANGED <<foreign, listener, interrupted, tunnelVars, work, timedOut>>
        <4> HIDE DEF Listings
        <4> QED BY <2>2 DEF Find
      <3>3. pc' \in [Server -> Stages]
        BY <3>2
      <3>4. found' \in [Server -> SUBSET Pid]
        BY <3>1, <3>2
      <3> QED BY <3>2, <3>3, <3>4
    <2>3. ASSUME NEW pid \in Pid, KillPid(s, pid) PROVE TypeOK'
      <3>1. found' \in [Server -> SUBSET Pid]
        BY <2>3 DEF KillPid
      <3>2. CASE UNCHANGED <<pc, listener, interrupted, tunnel, api, work>>
        BY <2>3, <3>1, <3>2 DEF KillPid
      <3>3. ASSUME NEW t \in Server, TunnelEnds(t),
                   UNCHANGED <<foreign, pc, listener, interrupted, work>>
            PROVE  TypeOK'
        BY <2>3, <3>1, <3>3 DEF KillPid, TunnelEnds
      <3>4. ASSUME NEW t \in Server, Interrupt(t), UNCHANGED <<foreign, tunnel, api>>
            PROVE  TypeOK'
        <4>1. UNCHANGED <<polls, url, timedOut>>
          BY <2>3 DEF KillPid
        <4> QED BY <3>1, <3>4, <4>1, InterruptTypes DEF Hand
      <3> QED BY <2>3, <3>2, <3>3, <3>4 DEF KillPid
    <2>4. CASE KillDone(s)
      BY <2>4 DEF KillDone
    <2>5. CASE Reprobe(s)
      BY <2>5 DEF Reprobe
    <2> QED BY <1>3, <2>1, <2>2, <2>3, <2>4, <2>5 DEF GuardStep
  <1>4. ASSUME NEW s \in Server, StartStep(s) PROVE TypeOK'
    <2>1. CASE NoTunnel(s)
      BY <2>1 DEF NoTunnel
    <2>2. CASE StartTunnel(s)
      BY <2>2 DEF StartTunnel
    <2>3. CASE Poll(s)
      <3>1. UNCHANGED <<guardVars, listener, interrupted, tunnel, api, work, timedOut>>
        BY <2>3 DEF Poll
      <3>2. url' \in [Server -> Server \cup {Nobody}]
        BY <2>3 DEF Poll
      <3>3. polls' \in [Server -> 0 .. MaxPolls]
        BY <2>3 DEF Poll
      <3>4. pc' \in [Server -> Stages]
        BY <2>3 DEF Poll
      <3> QED BY <3>1, <3>2, <3>3, <3>4
    <2>4. CASE Serve(s)
      BY <2>4 DEF Serve
    <2>5. CASE Notify(s)
      BY <2>5 DEF Notify
    <2> QED BY <1>4, <2>1, <2>2, <2>3, <2>4, <2>5 DEF StartStep
  <1>5. ASSUME NEW s \in Server, ShutdownStep(s) PROVE TypeOK'
    <2>1. CASE GetSignal(s)
      BY <2>1 DEF GetSignal
    <2>2. CASE HttpDrained(s)
      BY <2>2 DEF HttpDrained
    <2>3. CASE PoolDrained(s)
      BY <2>3 DEF PoolDrained
    <2>4. CASE StopTunnel(s)
      BY <2>4 DEF StopTunnel, TunnelEnds
    <2>5. CASE CloseDB(s)
      BY <2>5 DEF CloseDB
    <2> QED BY <1>5, <2>1, <2>2, <2>3, <2>4, <2>5 DEF ShutdownStep
  <1>6. ASSUME NEW s \in Server, WorkStep(s) PROVE TypeOK'
    <2>1. work'[s] \in [served : 0 .. MaxWork, handlers : 0 .. MaxWork,
                        sending : 0 .. MaxWork, jobs : 0 .. MaxWork]
      BY <1>6 DEF WorkStep, Request, Submit, HandlerReturns, JobEnds, Parts, WorkInv
    <2>2. work' = [work EXCEPT ![s] = work'[s]]
      BY <1>6 DEF WorkStep, Request, Submit, HandlerReturns, JobEnds
    <2>3. UNCHANGED <<guardVars, pc, listener, interrupted, tunnelVars, timedOut>>
      BY <1>6 DEF WorkStep, Request, Submit, HandlerReturns, JobEnds
    <2> QED BY <2>1, <2>2, <2>3
  <1>7. ASSUME NEW s \in Server, Bind(s) PROVE TypeOK'
    <2>1. UNCHANGED <<guardVars, interrupted, tunnelVars, timedOut>>
      BY <1>7 DEF Bind
    <2>2. CASE Dies(s)
      BY <2>1, <2>2 DEF Dies
    <2>3. CASE listener' = [listener EXCEPT ![s] = "listening"] /\ UNCHANGED <<pc, work>>
      BY <2>1, <2>3
    <2> QED BY <1>7, <2>2, <2>3 DEF Bind
  <1>8. ASSUME NEW s \in Server, Signal(s) PROVE TypeOK'
    <2>1. Interrupt(s) /\ UNCHANGED <<guardVars, polls, url, timedOut>>
      BY <1>8 DEF Signal
    <2>2. tunnel' \in [Server -> {"none", "starting", "up"}] /\ api' \in Server \cup {Nobody}
      BY <1>8 DEF Signal, TunnelEnds
    <2> QED BY <2>1, <2>2, InterruptTypes DEF Hand
  <1>9. ASSUME NEW s \in Server, TunnelUp(s) PROVE TypeOK'
    BY <1>9 DEF TunnelUp
  <1>10. ASSUME NEW s \in Server, TunnelFails(s) PROVE TypeOK'
    BY <1>10 DEF TunnelFails, TunnelEnds
  <1>11. CASE UNCHANGED vars
    BY <1>11 DEF vars
  <1> QED
    BY <1>1, <1>2, <1>3, <1>4, <1>5, <1>6, <1>7, <1>8, <1>9, <1>10, <1>11 DEF Next

\* The parts speak of where main and the listener are, of the work, of ngrok
\* and of the timeouts only; of ngrok only as long as it runs.
LEMMA Untouched ==
    ASSUME IInv, UNCHANGED <<pc, listener, work, timedOut>>,
           \A t \in Server : tunnel'[t] # "none" => tunnel[t] # "none"
    PROVE  Parts'
  BY DEF IInv, Parts, WorkInv, ListenerInv, PortInv, SourceInv, DrainInv, TunnelInv

\* A server that is killed takes its listener and its work with it.
LEMMA Death ==
    ASSUME IInv, NEW s \in Server, Dies(s), UNCHANGED timedOut,
           \A t \in Server : tunnel'[t] # "none" => tunnel[t] # "none"
    PROVE  Parts'
  <1>1. /\ pc'[s] = "killed" /\ listener'[s] = "closed" /\ work'[s] = NoWork
        /\ \A t \in Server \ {s} :
             pc'[t] = pc[t] /\ listener'[t] = listener[t] /\ work'[t] = work[t]
    BY DEF Dies, IInv, TypeOK
  <1>2. WorkInv' /\ ListenerInv'
    BY <1>1 DEF NoWork, IInv, Parts, WorkInv, ListenerInv, Early, Leaving
  <1>3. PortInv' /\ SourceInv'
    BY <1>1 DEF NoWork, IInv, Parts, PortInv, SourceInv
  <1>4. DrainInv' /\ TunnelInv'
    BY <1>1 DEF NoWork, IInv, Parts, DrainInv, TunnelInv
  <1> QED BY <1>2, <1>3, <1>4 DEF Parts

\* main goes on without touching the listener, the work or ngrok.
LEMMA MainGoesOn ==
    ASSUME IInv, NEW s \in Server, NEW to, Go(s, pc[s], to),
           UNCHANGED <<listener, work, tunnel>>,
           \A t \in Server \ {s} : timedOut'[t] = timedOut[t],
           to \in {"refused"} \cup (Early \ {"notify"}) => listener[s] = "none",
           to \in Leaving => pc[s] \in Leaving,
           pc[s] \in Leaving => to \in Leaving,
           ~timedOut'[s] /\ to \in {"drainPool", "stopTunnel", "closeDB"} => work[s].handlers = 0,
           ~timedOut'[s] /\ to \in {"stopTunnel", "closeDB"} => work[s].jobs = 0,
           tunnel[s] # "none" => to \in {"poll", "hanging", "serve", "notify", "serving", "drainHTTP",
                                          "drainPool", "stopTunnel", "killed"},
           to # "off"
    PROVE  Parts'
  <1>1. pc'[s] = to /\ \A t \in Server \ {s} : pc'[t] = pc[t]
    BY DEF Go, IInv, TypeOK
  <1>2. WorkInv' /\ PortInv'
    BY DEF IInv, Parts, WorkInv, PortInv
  <1>3. ListenerInv'
    BY <1>1 DEF IInv, Parts, ListenerInv
  <1>4. SourceInv'
    BY <1>1 DEF IInv, Parts, SourceInv
  <1>5. DrainInv'
    BY <1>1 DEF IInv, Parts, DrainInv
  <1>6. TunnelInv'
    BY <1>1 DEF IInv, Parts, TunnelInv
  <1> QED BY <1>2, <1>3, <1>4, <1>5, <1>6 DEF Parts

\* The other parts.
LEMMA PartsStep == IInv /\ [Next]_vars => Parts'
  <1> SUFFICES ASSUME IInv, [Next]_vars PROVE Parts'
    OBVIOUS
  <1> USE BoundAssumption
      DEF IInv, TypeOK, Parts, WorkInv, ListenerInv, PortInv, SourceInv, DrainInv, TunnelInv,
          Stages, Early, Leaving, Ended, Go, guardVars, tunnelVars, NoWork
  <1>1. CASE ForeignLeaves
    BY <1>1 DEF ForeignLeaves
  <1>2. ASSUME NEW s \in Server, Begin(s) PROVE Parts'
    BY <1>2 DEF Begin
  <1>3. ASSUME NEW s \in Server, GuardStep(s) PROVE Parts'
    <2>1. CASE Probe(s)
      BY <2>1 DEF Probe
    <2>2. CASE Find(s)
      <3>1. /\ pc[s] = "find" /\ listener[s] = "none" /\ tunnel[s] = "none"
            /\ UNCHANGED <<listener, tunnel, work, timedOut>>
        BY <2>2 DEF Find
      <3>2. PICK to \in {"reprobe", "refused", "kill"} : Go(s, pc[s], to)
        BY <2>2, <3>1 DEF Find
      <3>3. to # "off" /\ to \notin Leaving
        OBVIOUS
      <3> HIDE DEF Go
      <3> QED BY <3>1, <3>2, <3>3, MainGoesOn
    <2>3. ASSUME NEW pid \in Pid, KillPid(s, pid) PROVE Parts'
      <3>1. UNCHANGED timedOut
        BY <2>3 DEF KillPid
      <3>2. CASE UNCHANGED <<pc, listener, interrupted, tunnel, api, work>>
        BY <3>1, <3>2, Untouched
      <3>3. ASSUME NEW t \in Server, TunnelEnds(t), UNCHANGED <<pc, listener, work>>
            PROVE  Parts'
        <4>1. \A u \in Server : tunnel'[u] # "none" => tunnel[u] # "none"
          BY <3>3 DEF TunnelEnds
        <4> QED BY <3>1, <3>3, <4>1, Untouched
      <3>4. ASSUME NEW t \in Server, Interrupt(t), UNCHANGED <<foreign, tunnel, api>>
            PROVE  Parts'
        BY <3>1, <3>4, Untouched, Death DEF Interrupt
      <3> QED BY <2>3, <3>2, <3>3, <3>4 DEF KillPid
    <2>4. CASE KillDone(s)
      BY <2>4 DEF KillDone
    <2>5. CASE Reprobe(s)
      BY <2>5 DEF Reprobe
    <2> QED BY <1>3, <2>1, <2>2, <2>3, <2>4, <2>5 DEF GuardStep
  <1>4. ASSUME NEW s \in Server, StartStep(s) PROVE Parts'
    <2>1. CASE NoTunnel(s)
      BY <2>1 DEF NoTunnel
    <2>2. CASE StartTunnel(s)
      BY <2>2 DEF StartTunnel
    <2>3. CASE Poll(s)
      <3>1. pc[s] = "poll" /\ listener[s] = "none" /\ UNCHANGED <<listener, tunnel, work, timedOut>>
        BY <2>3 DEF Poll
      <3>2. CASE UNCHANGED pc
        BY <3>1, <3>2, Untouched
      <3>3. ASSUME NEW to \in {"serve", "hanging"}, Go(s, pc[s], to) PROVE Parts'
        <4>1. to # "off" /\ to \notin Leaving
          OBVIOUS
        <4> HIDE DEF Go
        <4> QED BY <3>1, <3>3, <4>1, MainGoesOn
      <3> QED BY <2>3, <3>1, <3>2, <3>3 DEF Poll
    <2>4. CASE Serve(s)
      BY <2>4 DEF Serve
    <2>5. CASE Notify(s)
      BY <2>5 DEF Notify
    <2> QED BY <1>4, <2>1, <2>2, <2>3, <2>4, <2>5 DEF StartStep
  <1>5. ASSUME NEW s \in Server, ShutdownStep(s) PROVE Parts'
    <2>1. CASE GetSignal(s)
      BY <2>1 DEF GetSignal
    <2>2. CASE HttpDrained(s)
      <3>1. /\ pc[s] = "drainHTTP" /\ Go(s, pc[s], "drainPool")
            /\ UNCHANGED <<listener, work, tunnel>>
        BY <2>2 DEF HttpDrained
      <3>2. /\ \A t \in Server \ {s} : timedOut'[t] = timedOut[t]
            /\ ~timedOut'[s] => ~(work[s].handlers > 0)
        BY <2>2 DEF HttpDrained
      <3>3. ~timedOut'[s] => work[s].handlers = 0
        <4>1. work[s].handlers \in Nat
          OBVIOUS
        <4> QED BY <3>1, <3>2, <4>1
      <3> HIDE DEF Go, IInv
      <3> QED BY <3>1, <3>2, <3>3, MainGoesOn
    <2>3. CASE PoolDrained(s)
      <3>1. /\ pc[s] = "drainPool" /\ Go(s, pc[s], "stopTunnel")
            /\ UNCHANGED <<listener, work, tunnel>>
        BY <2>3 DEF PoolDrained
      <3>2. /\ \A t \in Server \ {s} : timedOut'[t] = timedOut[t]
            /\ ~timedOut'[s] => ~timedOut[s] /\ ~(work[s].jobs > 0)
        BY <2>3 DEF PoolDrained
      <3>3. ~timedOut'[s] => work[s].handlers = 0 /\ work[s].jobs = 0
        <4>1. work[s].jobs \in Nat
          OBVIOUS
        <4> QED BY <3>1, <3>2, <4>1
      <3> HIDE DEF Go, IInv
      <3> QED BY <3>1, <3>2, <3>3, MainGoesOn
    <2>4. CASE StopTunnel(s)
      BY <2>4 DEF StopTunnel, TunnelEnds
    <2>5. CASE CloseDB(s)
      BY <2>5 DEF CloseDB
    <2> QED BY <1>5, <2>1, <2>2, <2>3, <2>4, <2>5 DEF ShutdownStep
  <1>6. ASSUME NEW s \in Server, WorkStep(s) PROVE Parts'
    <2>1. CASE Request(s)
      BY <2>1 DEF Request
    <2>2. CASE Submit(s)
      BY <2>2 DEF Submit, QueueOpen
    <2>3. CASE HandlerReturns(s)
      BY <2>3 DEF HandlerReturns
    <2>4. CASE JobEnds(s)
      BY <2>4 DEF JobEnds
    <2> QED BY <1>6, <2>1, <2>2, <2>3, <2>4 DEF WorkStep
  <1>7. ASSUME NEW s \in Server, Bind(s) PROVE Parts'
    <2>1. UNCHANGED <<tunnel, timedOut>> /\ listener[s] = "starting"
      BY <1>7 DEF Bind
    <2>2. CASE Dies(s)
      BY <2>1, <2>2, Death
    <2>3. CASE ~PortTaken /\ listener' = [listener EXCEPT ![s] = "listening"]
               /\ UNCHANGED <<pc, work>>
      BY <2>1, <2>3 DEF PortTaken
    <2> QED BY <1>7, <2>2, <2>3 DEF Bind, Probed
  <1>8. ASSUME NEW s \in Server, Signal(s) PROVE Parts'
    <2>1. \A t \in Server : tunnel'[t] # "none" => tunnel[t] # "none"
      BY <1>8 DEF Signal, TunnelEnds
    <2>2. Interrupt(s) /\ UNCHANGED timedOut
      BY <1>8 DEF Signal
    <2> QED BY <2>1, <2>2, Untouched, Death DEF Interrupt
  <1>9. ASSUME NEW s \in Server, TunnelUp(s) PROVE Parts'
    BY <1>9 DEF TunnelUp
  <1>10. ASSUME NEW s \in Server, TunnelFails(s) PROVE Parts'
    BY <1>10 DEF TunnelFails, TunnelEnds
  <1>11. CASE UNCHANGED vars
    BY <1>11 DEF vars
  <1> QED
    BY <1>1, <1>2, <1>3, <1>4, <1>5, <1>6, <1>7, <1>8, <1>9, <1>10, <1>11 DEF Next

\* The invariant holds in every reachable state.
THEOREM Invariance == Spec => []IInv
  <1>1. IInv /\ [Next]_vars => IInv'
    BY TypeStep, PartsStep DEF IInv
  <1> QED BY Initially, <1>1, PTL DEF Spec

\* Types.
THEOREM StartupTypeCorrect == Spec => []TypeOK
  <1>1. IInv => TypeOK
    BY DEF IInv
  <1> QED BY <1>1, Invariance, PTL

\* However many servers are started on the port, of two that have jobs one is
\* leaving.
THEOREM OneServerAtATime == Spec => []OneServerTakesWork
  <1>1. IInv => OneServerTakesWork
    BY DEF IInv, Parts, PortInv, SourceInv, OneServerTakesWork
  <1> QED BY <1>1, Invariance, PTL

\* No ngrok is left by a main that returns or gives up.
THEOREM TunnelEnded == Spec => []TunnelEndsWithMain
  <1>1. IInv => TunnelEndsWithMain
    BY DEF IInv, Parts, TunnelInv, TunnelEndsWithMain
  <1> QED BY <1>1, Invariance, PTL

\* A shutdown within its limits leaves nothing open and nothing at work.
THEOREM CleanShutdown == Spec => []CleanShutdownIsQuiet
  <1>1. IInv => CleanShutdownIsQuiet
    BY DEF IInv, Parts, DrainInv, CleanShutdownIsQuiet
  <1> QED BY <1>1, Invariance, PTL
=============================================================================
