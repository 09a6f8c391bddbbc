---------------------------- MODULE AgentProcess ----------------------------
(***************************************************************************)
(* executeCursorCommand and the process tree it starts: cursor-agent leads *)
(* a process group, its descendants may leave the group and may keep the  *)
(* write end of its output pipe, the goroutine in cmd.Wait needs the       *)
(* leader's exit and the end of the pipe, and the 15 minutes may run out   *)
(* at any moment. Processes, pipe and os/exec are external.                *)
(***************************************************************************)
EXTENDS Naturals

CONSTANTS
    Desc,      \* processes cursor-agent may come to start, itself excluded
    leader     \* cursor-agent

ASSUME LeaderAssumption == leader \notin Desc

VARIABLES
    platform,  \* "unix" or "windows"
    call,      \* where executeCursorCommand is
    result,    \* what it returned
    expired,   \* ctx is done
    waiter,    \* the goroutine in cmd.Wait: "none", "exit", "pipe" or "sent"
    alive,     \* processes that run
    exitedOk,  \* the leader ended with status 0
    group,     \* processes in the leader's process group
    pipe       \* processes that hold the write end of stdout or stderr

processVars == <<alive, exitedOk, group, pipe>>
vars == <<platform, call, result, expired, waiter, processVars>>

Process == Desc \cup {leader}

Init ==
    /\ platform \in {"unix", "windows"}
    /\ call = "start" /\ result = "none" /\ expired = FALSE /\ waiter = "none"
    /\ alive = {} /\ exitedOk = FALSE
    /\ group = {} /\ pipe = {}

-----------------------------------------------------------------------------
(* The process tree. *)

\* A process starts another, which stays in its parent's group or, after
\* setsid, does not, and which inherits the pipe or has its output redirected.
Fork(p, d) ==
    /\ p \in alive /\ d \in Desc \ (alive \cup group \cup pipe)
    /\ alive' = alive \cup {d}
    /\ \E g \in SUBSET ({p} \cap group) : group' = IF g = {} THEN group ELSE group \cup {d}
    /\ \E h \in SUBSET ({p} \cap pipe) : pipe' = IF h = {} THEN pipe ELSE pipe \cup {d}
    /\ UNCHANGED <<platform, call, result, expired, waiter, exitedOk>>

\* A process ends; the leader with a status.
Exit(p) ==
    /\ p \in alive
    /\ alive' = alive \ {p}
    /\ pipe' = pipe \ {p}
    /\ exitedOk' \in IF p = leader THEN BOOLEAN ELSE {exitedOk}
    /\ UNCHANGED <<platform, call, result, expired, waiter, group>>

-----------------------------------------------------------------------------
(* executeCursorCommand. *)

\* cmd.Start succeeds: the leader runs in a group of its own and cmd.Wait in
\* a goroutine.
Start ==
    /\ call = "start"
    /\ call' = "select" /\ waiter' = "exit"
    /\ alive' = {leader} /\ group' = {leader} /\ pipe' = {leader}
    /\ UNCHANGED <<platform, result, expired, exitedOk>>

\* ... or it does not: no such command, no such directory.
StartFails ==
    /\ call = "start"
    /\ call' = "returned" /\ result' = "startFailed"
    /\ UNCHANGED <<platform, expired, waiter, processVars>>

\* 15 minutes are over.
Expire ==
    /\ call # "start" /\ ~expired
    /\ expired' = TRUE
    /\ UNCHANGED <<platform, call, result, waiter, processVars>>

\* exec.CommandContext's own reaction to ctx: the leader alone is killed.
ContextKillsLeader ==
    /\ expired /\ call \in {"select", "drain"} /\ waiter = "exit"
    /\ leader \in alive
    /\ alive' = alive \ {leader} /\ pipe' = pipe \ {leader}
    /\ UNCHANGED <<platform, call, result, expired, waiter, exitedOk, group>>

\* cmd.Wait, first half: the leader has exited.
WaitExit ==
    /\ waiter = "exit" /\ leader \notin alive
    /\ waiter' = "pipe"
    /\ UNCHANGED <<platform, call, result, expired, processVars>>

\* Variant: the output is not copied by os/exec, Wait ends with the leader.
WaitWithoutPipe ==
    /\ waiter = "pipe"
    /\ waiter' = "sent"
    /\ UNCHANGED <<platform, call, result, expired, processVars>>

\* cmd.Wait, second half: the copying into outb and errb has met the end of
\* the pipe; done <- err never blocks, done has room for it.
WaitPipe ==
    /\ waiter = "pipe" /\ pipe = {}
    /\ waiter' = "sent"
    /\ UNCHANGED <<platform, call, result, expired, processVars>>

\* case err = <-done: also chosen when ctx is done as well.
ReturnDone ==
    /\ call = "select" /\ waiter = "sent"
    /\ call' = "returned"
    /\ result' = IF exitedOk THEN "ok" ELSE "error"
    /\ UNCHANGED <<platform, expired, waiter, processVars>>

\* Variant: the Unix version kills the process, not its group.
KillOnlyLeader == {leader}

\* Whom KillProcessGroup kills: kill(-pid, SIGKILL) the group, on Windows the
\* process alone.
Victims == IF platform = "windows" THEN {leader} ELSE group

\* case <-ctx.Done(): KillProcessGroup; when nobody is left to kill its error
\* is logged.
Kill ==
    /\ call = "select" /\ expired
    /\ call' = "drain"
    /\ alive' = alive \ Victims /\ pipe' = pipe \ Victims
    /\ UNCHANGED <<platform, result, expired, waiter, exitedOk, group>>

\* Variant: <-done without time.After(2 * time.Second).
DrainForGood ==
    /\ call = "drain" /\ waiter = "sent"
    /\ call' = "returned" /\ result' = "timeout"
    /\ UNCHANGED <<platform, expired, waiter, processVars>>

\* <-done or two seconds, then the buffers are read: while the copying is
\* still under way, when a process outside the group holds the pipe.
Drain ==
    /\ call = "drain"
    /\ call' = "returned" /\ result' = "timeout"
    /\ UNCHANGED <<platform, expired, waiter, processVars>>

-----------------------------------------------------------------------------

CallStep == Start \/ StartFails \/ ReturnDone \/ Kill \/ Drain
WaitStep == WaitExit \/ WaitPipe
TreeStep == \E p \in Process : Exit(p) \/ \E d \in Desc : Fork(p, d)

Next == CallStep \/ WaitStep \/ Expire \/ ContextKillsLeader \/ TreeStep

Spec == Init /\ [][Next]_vars

\* The goroutines and the clock; the processes may run for ever.
FairSpec ==
    /\ Spec
    /\ WF_vars(CallStep) /\ WF_vars(WaitStep)
    /\ WF_vars(Expire) /\ WF_vars(ContextKillsLeader)

-----------------------------------------------------------------------------
(* Properties. *)

\* Types; only living processes hold the pipe.
TypeOK ==
    /\ platform \in {"unix", "windows"}
    /\ call \in {"start", "select", "drain", "returned"}
    /\ result \in {"none", "ok", "error", "timeout", "startFailed"}
    /\ expired \in BOOLEAN /\ exitedOk \in BOOLEAN
    /\ waiter \in {"none", "exit", "pipe", "sent"}
    /\ alive \in SUBSET Process
    /\ group \in SUBSET Process
    /\ pipe \in SUBSET alive
    /\ result # "none" <=> call = "returned"

\* After a timeout the agent is dead, as JobLifecycle has it, and on Unix no
\* process of its group runs either, whichever of its members had ended before
\* and whatever they forked meanwhile (task_executor.go:197, process_unix.go:27).
GroupDiesOnTimeout ==
    result = "timeout" =>
        leader \notin alive /\ (platform = "unix" => alive \cap group = {})

\* An outcome other than a timeout is reported with the whole output: no
\* process can write to it any more (task_executor.go:187-220).
OutputIsWhole == result \in {"ok", "error"} => pipe = {} /\ leader \notin alive

\* executeCursorCommand returns although a process that nobody kills holds
\* the pipe for ever: the worker is not lost (task_executor.go:201-207).
CallReturns == <>(call = "returned")
=============================================================================
