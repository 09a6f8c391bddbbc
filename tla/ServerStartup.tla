---------------------------- MODULE ServerStartup ----------------------------
(***************************************************************************)
(* cmd/server/main.go from the port check to its return, with the port     *)
(* guard of internal/server/port.go and the tunnel of internal/ngrok, for  *)
(* several servers that are started on one port and one database: started  *)
(* together, or one taking the port over while the other still drains.     *)
(* A server's main goroutine is pc, its ListenAndServe goroutine listener; *)
(* ngrok is a child process, and whoever has port 4040 answers for it.     *)
(***************************************************************************)
EXTENDS Naturals

CONSTANTS
    Server,      \* the server processes
    Nobody,
    AutoKill,    \* those started with AUTO_KILL_PORT=true
    MaxPolls,    \* how often Start asks for the tunnel's URL (10)
    MaxWork      \* bound: requests a server gets

ASSUME NobodyAssumption   == Nobody \notin Server
ASSUME AutoKillAssumption == AutoKill \subseteq Server
ASSUME BoundAssumption    == MaxPolls \in Nat \ {0} /\ MaxWork \in Nat

VARIABLES
    foreign,      \* another program listens on the port
    pc,           \* where each server's main is
    listener,     \* where its ListenAndServe is
    found,        \* the processes its guard has still to interrupt
    interrupted,  \* a signal is in its channel quit
    tunnel,       \* its ngrok process
    polls,        \* Start's loop: requests to ngrok's local API so far
    url,          \* the server whose tunnel's URL it has printed
    api,          \* the server whose ngrok has port 4040
    work,         \* its requests so far, and of them the open handlers, the
                  \* submitting goroutines and the queued or running jobs
    timedOut      \* its shutdown went on with work left

guardVars  == <<foreign, found>>
tunnelVars == <<tunnel, polls, url, api>>
vars == <<guardVars, pc, listener, interrupted, tunnelVars, work, timedOut>>

NoWork == [served |-> 0, handlers |-> 0, sending |-> 0, jobs |-> 0]

\* pc before signal.Notify (hanging: in a poll that is never answered): SIGINT and SIGTERM still end the process.
Early   == {"probe", "find", "kill", "reprobe", "tunnel", "poll", "hanging",
            "serve", "notify"}
Leaving == {"drainHTTP", "drainPool", "stopTunnel", "closeDB"}
\* main has returned, has called os.Exit(1) at the guard, or has been ended by
\* a signal or log.Fatalf.
Ended   == {"returned", "refused", "killed"}
Stages  == {"off", "serving"} \cup Early \cup Leaving \cup Ended

Init ==
    /\ foreign \in BOOLEAN
    /\ pc = [s \in Server |-> "off"]
    /\ listener = [s \in Server |-> "none"]
    /\ found = [s \in Server |-> {}]
    /\ interrupted = [s \in Server |-> FALSE]
    /\ tunnel = [s \in Server |-> "none"]
    /\ polls = [s \in Server |-> 0]
    /\ url = [s \in Server |-> Nobody]
    /\ api = Nobody
    /\ work = [s \in Server |-> NoWork]
    /\ timedOut = [s \in Server |-> FALSE]

\* main goes from one stage to another.
Go(s, from, to) == pc[s] = from /\ pc' = [pc EXCEPT ![s] = to]

-----------------------------------------------------------------------------
(* The port guard. *)

\* net.Listen fails while somebody listens on the port.
PortTaken == foreign \/ \E s \in Server : listener[s] = "listening"

\* The database is open and the pool runs before the port is looked at.
Begin(s) ==
    /\ Go(s, "off", "probe")
    /\ UNCHANGED <<guardVars, listener, interrupted, tunnelVars, work, timedOut>>

\* What CheckPortAvailable may find: it listens itself for a moment, so that
\* two guards can get in each other's way.
Probed(s) ==
    {PortTaken, PortTaken \/ \E t \in Server \ {s} : pc[t] \in {"probe", "reprobe"}}

\* CheckPortAvailable, for the first time.
Probe(s) ==
    /\ \E taken \in Probed(s) : Go(s, "probe", IF taken THEN "find" ELSE "tunnel")
    /\ UNCHANGED <<guardVars, listener, interrupted, tunnelVars, work, timedOut>>

ServerPid(s) == <<"server", s>>
NgrokPid(s)  == <<"ngrok", s>>
ForeignPid   == <<"foreign", Nobody>>
Pid == {ServerPid(s) : s \in Server} \cup {NgrokPid(s) : s \in Server} \cup {ForeignPid}

\* The process that listens.
Holder == {ServerPid(s) : s \in {t \in Server : listener[t] = "listening"}}
             \cup (IF foreign THEN {ForeignPid} ELSE {})

\* An ngrok that is connected to the port is listed like the one who listens.
Connected == {NgrokPid(s) : s \in {t \in Server : tunnel[t] = "up"}}

\* FindProcessUsingPort: nothing if the tool fails or may not see the process.
Listings == {{}} \cup {Holder \cup clients : clients \in SUBSET Connected}

\* Without a pid the guard waits for five seconds; without AUTO_KILL_PORT
\* it gives up.
Find(s) ==
    /\ pc[s] = "find"
    /\ \E pids \in Listings :
         \/ pids = {} /\ Go(s, "find", "reprobe") /\ UNCHANGED found
         \/ pids # {} /\ s \notin AutoKill /\ Go(s, "find", "refused") /\ UNCHANGED found
         \/ /\ pids # {} /\ s \in AutoKill /\ Go(s, "find", "kill")
            /\ found' = [found EXCEPT ![s] = pids]
    /\ UNCHANGED <<foreign, listener, interrupted, tunnelVars, work, timedOut>>

\* ngrok of s ends; port 4040 is free again if it was its.
TunnelEnds(s) ==
    /\ tunnel' = [tunnel EXCEPT ![s] = "none"]
    /\ api' = IF api = s THEN Nobody ELSE api

\* The process is gone, and with it its socket and its goroutines.
Dies(s) ==
    /\ pc' = [pc EXCEPT ![s] = "killed"]
    /\ listener' = [listener EXCEPT ![s] = "closed"]
    /\ work' = [work EXCEPT ![s] = NoWork]

\* A signal reaches server s: the channel takes it once Notify was called,
\* before that the process dies and leaves its ngrok behind.
Interrupt(s) ==
    IF pc[s] \in Early
      THEN Dies(s) /\ UNCHANGED interrupted
      ELSE /\ interrupted' = [interrupted EXCEPT ![s] = pc[s] \in {"serving"} \cup Leaving \/ @]
           /\ UNCHANGED <<pc, listener, work>>

\* KillProcessByPID interrupts one process of the list. It may fail: the
\* process belongs to somebody else, or, always on Windows, the line of
\* netstat is not a number.
KillPid(s, pid) ==
    /\ pc[s] = "kill" /\ pid \in found[s]
    /\ found' = [found EXCEPT ![s] = @ \ {pid}]
    /\ \/ UNCHANGED <<foreign, pc, listener, interrupted, tunnel, api, work>>
       \/ /\ pid = ForeignPid
          /\ foreign' = FALSE
          /\ UNCHANGED <<pc, listener, interrupted, tunnel, api, work>>
       \/ /\ \E t \in Server : pid = NgrokPid(t) /\ TunnelEnds(t)
          /\ UNCHANGED <<foreign, pc, listener, interrupted, work>>
       \/ /\ \E t \in Server : pid = ServerPid(t) /\ Interrupt(t)
          /\ UNCHANGED <<foreign, tunnel, api>>
    /\ UNCHANGED <<polls, url, timedOut>>

\* All were interrupted; the guard sleeps for two seconds.
KillDone(s) ==
    /\ found[s] = {}
    /\ Go(s, "kill", "reprobe")
    /\ UNCHANGED <<guardVars, listener, interrupted, tunnelVars, work, timedOut>>

\* CheckPortAvailable after the wait: os.Exit(1) if the port is still taken.
Reprobe(s) ==
    /\ \E taken \in Probed(s) : Go(s, "reprobe", IF taken THEN "refused" ELSE "tunnel")
    /\ UNCHANGED <<guardVars, listener, interrupted, tunnelVars, work, timedOut>>

\* The other program stops listening on its own.
ForeignLeaves ==
    /\ foreign /\ foreign' = FALSE
    /\ UNCHANGED <<found, pc, listener, interrupted, tunnelVars, work, timedOut>>

-----------------------------------------------------------------------------
(* The tunnel. *)

\* ngrok is not installed or does not start: the server goes on without.
NoTunnel(s) ==
    /\ Go(s, "tunnel", "serve")
    /\ UNCHANGED <<guardVars, listener, interrupted, tunnelVars, work, timedOut>>

\* m.cmd.Start()
StartTunnel(s) ==
    /\ Go(s, "tunnel", "poll")
    /\ tunnel' = [tunnel EXCEPT ![s] = "starting"]
    /\ UNCHANGED <<guardVars, listener, interrupted, polls, url, api, work, timedOut>>

\* ngrok connects, and serves its API on 4040 unless another one has it.
TunnelUp(s) ==
    /\ tunnel[s] = "starting"
    /\ tunnel' = [tunnel EXCEPT ![s] = "up"]
    /\ api' = IF api = Nobody THEN s ELSE api
    /\ UNCHANGED <<guardVars, pc, listener, interrupted, polls, url, work, timedOut>>

\* ngrok ends on its own: no account, limit of sessions, network.
TunnelFails(s) ==
    /\ tunnel[s] # "none"
    /\ TunnelEnds(s)
    /\ UNCHANGED <<guardVars, pc, listener, interrupted, polls, url, work, timedOut>>

\* Variant: Start polls until it gets a URL; the counter only wraps around.
PollForever(s) ==
    /\ \/ Go(s, "poll", "hanging") /\ UNCHANGED <<polls, url>>
       \/ /\ api # Nobody /\ Go(s, "poll", "serve")
          /\ url' = [url EXCEPT ![s] = api]
          /\ polls' = [polls EXCEPT ![s] = 0]
       \/ /\ pc[s] = "poll"
          /\ polls' = [polls EXCEPT ![s] = (@ + 1) % MaxPolls]
          /\ UNCHANGED <<pc, url>>
    /\ UNCHANGED <<guardVars, listener, interrupted, tunnel, api, work, timedOut>>

\* Manager.Start asks http://localhost:4040 for a tunnel, whoever is there:
\* the request may be accepted and never answered (http.Get and ReadAll have
\* no timeout); the ngrok that has the port may have a tunnel; or there is no
\* answer with one, and after MaxPolls of these Start reports an error and
\* ngrok is left running.
Poll(s) ==
    /\ \/ Go(s, "poll", "hanging") /\ UNCHANGED <<polls, url>>
       \/ /\ api # Nobody /\ Go(s, "poll", "serve")
          /\ url' = [url EXCEPT ![s] = api]
          /\ polls' = [polls EXCEPT ![s] = 0]
       \/ /\ pc[s] = "poll" /\ polls[s] + 1 < MaxPolls
          /\ polls' = [polls EXCEPT ![s] = @ + 1]
          /\ UNCHANGED <<pc, url>>
       \/ /\ polls[s] + 1 >= MaxPolls /\ Go(s, "poll", "serve")
          /\ polls' = [polls EXCEPT ![s] = 0]
          /\ UNCHANGED url
    /\ UNCHANGED <<guardVars, listener, interrupted, tunnel, api, work, timedOut>>

-----------------------------------------------------------------------------
(* Serving. *)

\* go func() { srv.ListenAndServe() }()
Serve(s) ==
    /\ Go(s, "serve", "notify")
    /\ listener' = [listener EXCEPT ![s] = "starting"]
    /\ UNCHANGED <<guardVars, interrupted, tunnelVars, work, timedOut>>

\* Variant: the port is shared (SO_REUSEPORT) instead of failing.
BindShared(s) ==
    /\ listener[s] = "starting"
    /\ listener' = [listener EXCEPT ![s] = "listening"]
    /\ UNCHANGED <<guardVars, pc, interrupted, tunnelVars, work, timedOut>>

\* The goroutine gets the port, or it was taken since the guard looked, be it
\* by another guard's probe: log.Fatalf ends the process without main's
\* cleaning up.
Bind(s) ==
    /\ listener[s] = "starting"
    /\ \E taken \in Probed(s) :
         IF taken
           THEN Dies(s)
           ELSE /\ listener' = [listener EXCEPT ![s] = "listening"]
                /\ UNCHANGED <<pc, work>>
    /\ UNCHANGED <<guardVars, interrupted, tunnelVars, timedOut>>

\* signal.Notify, concurrently with the listening goroutine.
Notify(s) ==
    /\ Go(s, "notify", "serving")
    /\ UNCHANGED <<guardVars, listener, interrupted, tunnelVars, work, timedOut>>

\* kill, or Ctrl-C in the terminal, which interrupts ngrok too.
Signal(s) ==
    /\ pc[s] \in {"serving"} \cup Early /\ ~interrupted[s]
    /\ Interrupt(s)
    /\ \/ UNCHANGED <<tunnel, api>>
       \/ tunnel[s] # "none" /\ TunnelEnds(s)
    /\ UNCHANGED <<guardVars, polls, url, timedOut>>

\* A request comes in; its handler will submit one job.
Request(s) ==
    /\ listener[s] = "listening" /\ work[s].served < MaxWork
    /\ work' = [work EXCEPT ![s].served = @ + 1, ![s].handlers = @ + 1, ![s].sending = @ + 1]
    /\ UNCHANGED <<guardVars, pc, listener, interrupted, tunnelVars, timedOut>>

\* Variant: the queue is closed only after the pool was stopped.
QueueOpenTooLong(s) == pc[s] \in {"notify", "serving", "drainHTTP", "drainPool", "stopTunnel"}

\* main has not yet called close(JobQueue).
QueueOpen(s) == pc[s] \in {"notify", "serving", "drainHTTP"}

\* JobQueue <- job; after the close the panic is recovered.
Submit(s) ==
    /\ work[s].sending > 0
    /\ work' = [work EXCEPT ![s].sending = @ - 1,
                            ![s].jobs = IF QueueOpen(s) THEN @ + 1 ELSE @]
    /\ UNCHANGED <<guardVars, pc, listener, interrupted, tunnelVars, timedOut>>

HandlerReturns(s) ==
    /\ work[s].handlers > 0
    /\ work' = [work EXCEPT ![s].handlers = @ - 1]
    /\ UNCHANGED <<guardVars, pc, listener, interrupted, tunnelVars, timedOut>>

\* Run returns, or Stop's workers leave a queued job behind.
JobEnds(s) ==
    /\ work[s].jobs > 0
    /\ work' = [work EXCEPT ![s].jobs = @ - 1]
    /\ UNCHANGED <<guardVars, pc, listener, interrupted, tunnelVars, timedOut>>

-----------------------------------------------------------------------------
(* The shutdown. *)

\* <-quit, then srv.Shutdown, which closes the listener before it waits.
GetSignal(s) ==
    /\ interrupted[s]
    /\ Go(s, "serving", "drainHTTP")
    /\ listener' = [listener EXCEPT ![s] = "closed"]
    /\ UNCHANGED <<guardVars, interrupted, tunnelVars, work, timedOut>>

\* Shutdown returns when the last handler has, or after five seconds; then
\* close(JobQueue).
HttpDrained(s) ==
    /\ Go(s, "drainHTTP", "drainPool")
    /\ timedOut' = [timedOut EXCEPT ![s] = @ \/ work[s].handlers > 0]
    /\ UNCHANGED <<guardVars, listener, interrupted, tunnelVars, work>>

\* Variant: no time.After beside workerDone.
PoolDrainedForGood(s) ==
    /\ work[s].jobs = 0
    /\ Go(s, "drainPool", "stopTunnel")
    /\ UNCHANGED <<guardVars, listener, interrupted, tunnelVars, work, timedOut>>

\* Dispatcher.Stop returns when the workers have left, or main goes on after
\* 30 seconds.
PoolDrained(s) ==
    /\ Go(s, "drainPool", "stopTunnel")
    /\ timedOut' = [timedOut EXCEPT ![s] = @ \/ work[s].jobs > 0]
    /\ UNCHANGED <<guardVars, listener, interrupted, tunnelVars, work>>

\* Variant: only a tunnel whose URL was printed is stopped.
StopPrintedTunnel(s) ==
    /\ Go(s, "stopTunnel", "closeDB")
    /\ IF url[s] # Nobody THEN TunnelEnds(s) ELSE UNCHANGED <<tunnel, api>>
    /\ UNCHANGED <<guardVars, listener, interrupted, polls, url, work, timedOut>>

\* ngrokManager.Stop() kills the child if there is one.
StopTunnel(s) ==
    /\ Go(s, "stopTunnel", "closeDB")
    /\ TunnelEnds(s)
    /\ UNCHANGED <<guardVars, listener, interrupted, polls, url, work, timedOut>>

\* db.Close(), and main returns.
CloseDB(s) ==
    /\ Go(s, "closeDB", "returned")
    /\ work' = [work EXCEPT ![s] = NoWork]
    /\ UNCHANGED <<guardVars, listener, interrupted, tunnelVars, timedOut>>

-----------------------------------------------------------------------------

GuardStep(s) ==
    Probe(s) \/ Find(s) \/ (\E pid \in Pid : KillPid(s, pid)) \/ KillDone(s) \/ Reprobe(s)

StartStep(s) ==
    NoTunnel(s) \/ StartTunnel(s) \/ Poll(s) \/ Serve(s) \/ Notify(s)

ShutdownStep(s) ==
    GetSignal(s) \/ HttpDrained(s) \/ PoolDrained(s) \/ StopTunnel(s) \/ CloseDB(s)

WorkStep(s) == Request(s) \/ Submit(s) \/ HandlerReturns(s) \/ JobEnds(s)

Next ==
    \/ ForeignLeaves
    \/ \E s \in Server :
         \/ Begin(s) \/ GuardStep(s) \/ StartStep(s) \/ ShutdownStep(s)
         \/ Bind(s) \/ Signal(s) \/ WorkStep(s)
         \/ TunnelUp(s) \/ TunnelFails(s)

Spec == Init /\ [][Next]_vars

\* Both goroutines run, the commands of the guard (lsof, netstat) end, and its
\* waits and those of the shutdown have limits in the code. Poll is made, but
\* its outcome may be to hang for good. Handlers, jobs, ngrok and signals owe
\* nothing.
Fairness ==
    \A s \in Server :
        /\ WF_vars(GuardStep(s) \/ StartStep(s) \/ ShutdownStep(s))
        /\ WF_vars(Bind(s))

FairSpec == Spec /\ Fairness

-----------------------------------------------------------------------------
(* Properties. *)

TypeOK ==
    /\ foreign \in BOOLEAN
    /\ pc \in [Server -> Stages]
    /\ listener \in [Server -> {"none", "starting", "listening", "closed"}]
    /\ found \in [Server -> SUBSET Pid]
    /\ interrupted \in [Server -> BOOLEAN]
    /\ tunnel \in [Server -> {"none", "starting", "up"}]
    /\ polls \in [Server -> 0 .. MaxPolls]
    /\ url \in [Server -> Server \cup {Nobody}]
    /\ api \in Server \cup {Nobody}
    /\ work \in [Server -> [served : 0 .. MaxWork, handlers : 0 .. MaxWork,
                           sending : 0 .. MaxWork, jobs : 0 .. MaxWork]]
    /\ timedOut \in [Server -> BOOLEAN]

\* Two servers share the database but never both take work: while one runs
\* jobs, another that does so has closed its listener and is leaving
\* (main.go:313; the guard's wait ends when the port is free, not when the old
\* server is gone).
OneServerTakesWork ==
    \A s, t \in Server : s # t /\ work[s].jobs > 0 /\ work[t].jobs > 0 =>
        pc[s] \in Leaving \/ pc[t] \in Leaving

\* However it started, when main returns or gives up at the guard no ngrok
\* of its is left: also not one whose URL never came (ngrok.go:47) or whose
\* API another ngrok answered for (main.go:346).
TunnelEndsWithMain ==
    \A s \in Server : pc[s] \in {"returned", "refused"} => tunnel[s] = "none"

\* A shutdown that ran into neither timeout leaves no handler open and no job
\* at work when the database is closed, although handlers submit to the end.
CleanShutdownIsQuiet ==
    \A s \in Server : pc[s] \in {"stopTunnel", "closeDB"} /\ ~timedOut[s] =>
        work[s].handlers = 0 /\ work[s].jobs = 0

\* A start comes to an end, whoever holds the port and however many polls bring
\* no URL: the server serves, has refused to, or is gone. The one thing that may
\* keep it for ever is a single request to port 4040 that is accepted and never
\* answered (ngrok.go:73, 79).
StartSettles ==
    \A s \in Server :
        pc[s] = "probe" ~> pc[s] \in {"serving", "hanging"} \cup Leaving \cup Ended

\* A signal ends a serving server even when handlers and jobs hang.
ShutdownEnds == \A s \in Server : interrupted[s] ~> pc[s] \in Ended
=============================================================================
