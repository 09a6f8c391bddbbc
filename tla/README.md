# Verification of the Slack / cursor-agent bridge

TLA+ models of the server in this repository, TLC runs that check them on small
instances, and TLAPS proofs of all safety properties, and of three refinements,
for any instance. Paths like `dispatcher.go:57` are relative to the
packages under `src/internal` and `src/cmd`.

## The system

A Go server takes prompts from a Slack slash command and from a JSON API, runs
one `cursor-agent` process per prompt in the configured project, stores each
job in SQLite and reports to Slack.

```
 Slack / API client
      | HTTP                                 job_records (SQLite)
  handlers  -- CreateJob, GetJob, ListJobs --------^   ^
      | goroutine per job: JobQueue <- job             | CreateJob, UpdateJobStatus,
  dispatcher -- WorkerPool --> worker --> TaskExecutor.Run   UpdateJobResult
                                             |      \-- progress goroutine --> response_url
                                             |--> cursor-agent (process group)
                                             \--> result pages --> response_url
```

| component | state | operations | hard parts | what makes it correct |
|---|---|---|---|---|
| worker pool (`worker/dispatcher.go`, `worker.go`) | JobQueue, WorkerPool, one WorkChannel per worker, quit | submit, dispatch, register, run, stop | blocking channels, a closed queue, shutdown at any moment | no job lost, doubled or overtaken; nobody blocks for ever; MAX_WORKERS holds |
| job store (`database/database.go`) | table job_records | CreateJob, UpdateJobStatus, UpdateJobResult, GetJob, ListJobs | two creators of one row, failing statements, NULL columns | a row tells the truth, never goes backwards and can be read |
| requests (`server/handlers.go`, `router.go`) | project path, open requests | slash command, API async and sync, poll, set-path | path changes under way, answers and timeouts | answers agree with what happened and are given |
| executor (`worker/task_executor.go`) | where Run is, progress goroutine, uses of response_url | validate, run, save, report | close/tick races, limited posts | result saved before it is told; result gets through; worker freed |
| agent process (`executeCursorCommand`, `process/`) | process tree, pipe, deadline | start, wait, kill | exits, forks and the deadline in any order | always returns; whole output; group killed |
| message splitting (`splitMessage`) | offset, pages | cut, warn, number | boundaries | pages hold the message |
| output formatting (`formatSuccessOutput` and the functions it calls) | flags, counters and limits of three loops over the agent's lines | read a line | flags that stay set, two counters for one limit | code and only code is shown as code; what is cut is announced; fenced code is not reformatted |
| start and shutdown (`cmd/server/main.go`) | where main and the listener are, the signal channel | start, serve, signal, stop, crash | a second server, timeouts of 5 and 30 seconds, late senders | one server takes work; a clean shutdown leaves nothing at work |
| port guard (`server/port.go`) | the port and whoever is connected to it | probe, find, interrupt, wait, probe again | the port changes hands between two probes | a start gets past the guard whoever holds the port |
| ngrok tunnel (`ngrok/ngrok.go`) | the ngrok process, port 4040 | start, poll the URL, stop | an ngrok that dies, or answers for another, or a request that is never answered | no tunnel outlives main |
| Slack authentication (`server/middleware/slack_auth.go`) | clock, secret, request under way | read body, check time, check signature | delayed and repeated requests, clocks that differ | genuine and recent requests are handled, others are not |
| setup wizard (`setup/`) | the .env files, the shell's rc file, the agent's binary | one action per question and effect | aborts between truncating and writing, a second run, wizard and server in different directories | a server that is run from where the wizard saved has its secret, and finds the agent |
| API docs, request types | | | | generated, or data only |

PROJECT.json lists the components with their status, the hazards of the code
line by line, and the properties meant to catch each.

## Modules

| module | models | state and actions |
|---|---|---|
| `JobService` | what the pool promises | jobs in one line, running, finished or dropped |
| `WorkerPool` | the pool, its submitters and main's shutdown | one `pc` per goroutine (`submitter`, `dpc`, `wpc`, `main`), one sequence per channel; each blocking operation is an action |
| `JobStore`, `JobStoreProofs` | the SQL statements | operators on a function from ids to rows; which columns are NULL is kept |
| `JobLifecycle` | requests, Run, project path, failing statements, crash and restart | extends `JobStore`; `req` and `run` say where each job's handler and executor are; a database statement is one action |
| `TaskExecutor` | Run, the progress goroutine and response_url | extends `JobStore`; `pc` and `progress`; ticks at any moment; `Lifecycle` is the Run of `JobLifecycle`, as far as the database shows it |
| `AgentProcess` | executeCursorCommand | who is alive, in the group, and holds the pipe |
| `SplitMessage` | splitMessage | a message is its length and its line breaks; a loop iteration is an action |
| `ResultText` | `extractCodeChanges`, `extractChangeSummary`, `convertMarkdownToSlack` | a line is its kind; one line is one iteration of all three; reference definitions ask the same of the whole output |
| `ServerStartup` | main, port guard, listener and ngrok of several servers on one port | `pc` and `listener` per server, "hanging" in a poll that is never answered; handlers, senders and jobs are counters |
| `Setup` | the wizard, and main reading what it left | `wizard` and `wizardAt` say where it is in the code and on the disk; `env` is a .env per folder; `LoadedFile` is main's choice among them, for an executable in a folder of its own, in the working directory, or built by `go run` |
| `SlackAuth` | the middleware, in a server configured by `Setup` | one request under way, and a clock |
| `WorkerPoolProofs`, `JobStoreProofs`, `JobLifecycleProofs`, `TaskExecutorProofs`, `AgentProcessProofs`, `ServerStartupProofs`, `SlackAuthProofs` | | the TLAPS proofs about the module they name |
| `MessageProofs` | | the TLAPS proofs about `SplitMessage` and `ResultText` |

How they fit together: `WorkerPool` is shown to implement `JobService`, and
`JobLifecycle` uses that promise (a line of jobs, at most MaxWorkers of them
running, jobs refused once the queue is closed) instead of the channels. It is
shown in turn to implement `JobService` with restarts, which adds that no job
comes back in a later process. `JobLifecycle` takes the agent and the posts to
Slack as one step each; `AgentProcess` and `TaskExecutor` open these steps, and
`SplitMessage` and `ResultText` say what the pages hold. `TaskExecutor` is shown
to implement the Run of `JobLifecycle`: what it adds, the ticker, the closing of
progressDone and the single posts, is invisible there. `SlackAuth` extends
`Setup`: the secret its requests are checked with is the one the wizard left.
`ServerStartup` takes pool and handlers as counters and has what the others
leave out, a second process on the same port and database.

Every action stands for the code that its PROJECT.json entry names, between
two points where another goroutine, process or the clock can be noticed.
Definitions under a comment "Variant: ..." are plausible bugs. They are in no
next-state relation: each breaks the property it was written for, which shows
that the property depends on the code as it is.

## Runs

Passing runs:

| run | instance | shows |
|---|---|---|
| `WorkerPool_all` | 4 jobs, 1 of them may hang, 2 workers, queue of 1 | jobs go through in order and once, registering and handing over never block, a clean stop is idle; the fair `JobService` is implemented, so that all others are served while the server is up; the workers leave after quit |
| `JobLifecycle_all` | one job of each kind, 1 worker, 1 failing statement, 1 restart, the path set twice | statuses and answers stay true, an idle server can list its jobs, no row is forgotten without a reason; `JobService` with restarts is implemented |
| `JobLifecycle_liveness` | one job of each kind, 2 workers, 1 failing statement, posts that may hang | accepted jobs get a status unless every worker hangs in a post, pollers always get an answer |
| `TaskExecutor_all` | one Run, 1 failing post and statement | the result has room and is stored before it is told; Run returns, the goroutine ends; it is the Run of `JobLifecycle` |
| `AgentProcess_all` | an agent and 3 descendants, Unix and Windows | the call returns, with whole output; after a timeout the agent, and on Unix its group, is dead |
| `SplitMessage_all` | messages up to 13 characters, pages of 4, 3 pages | contiguous pages, no silent cut |
| `ResultText_all` | outputs of up to 5 lines of 13 kinds, limits of 2 and 1 | only code is shown as code, cuts are announced, lines of fenced blocks are not reformatted |
| `ServerStartup_all` | 2 servers on one port, one with AUTO_KILL_PORT, another program, 2 polls, 1 request each | never two that take work, starts settle unless a poll is never answered, shutdowns end, a clean one leaves neither tunnel nor job |
| `SlackAuth_all` | 2 secrets, a CURSOR_CLI_PATH, two folders and `go run`, an agent to be installed, a window of 1, clocks 1 apart, time up to 3 | handled requests are genuine; genuine ones are handled when the server is run from where their secret was saved and the terminal does not hide it; after a successful setup the agent is found, or a path was given that the wizard did not write |

Runs that end in a violation compare the code with its own words; the quotes
are in PROJECT.json under "findings":

| run | what the code does |
|---|---|
| `JobLifecycle_readable` | pending and running jobs cannot be queried (NULL columns) |
| `SplitMessage_warning` | a complete message is said to be cut |
| `ResultText_context` | the first context line of a hunk ends the diff, later changes are not shown |

The models also show these, for which there is no run:

- Stop may leave the dispatcher blocked with an accepted job: a worker whose
  channel it holds (`dispatcher.go:57`) may choose its quit case, and nobody
  waits for the dispatcher (line 66);
- an API job with a blank prompt is accepted and stored (`handlers.go:264`), then
  refused by Run (`task_executor.go:68`) before anything is recorded: it stays
  pending for ever;
- four progress messages (`task_executor.go:229`) and five pages (line 740) are
  more than the five posts a response_url takes;
- a genuine slash command that Slack repeats within five minutes makes a second
  job;
- the URL that is printed may be the tunnel of another ngrok (`ngrok.go:57,73`
  ask whoever has port 4040; compare `SETUP.md:72,291`), and the log says that
  the server is local only while its ngrok is still coming up (`main.go:279`);
- a signal before `main.go:306`, or the `log.Fatalf` of a failed listen (line
  300), ends the process and leaves its ngrok running;
- on Windows the guard takes whole lines of netstat for process ids, which
  `port.go:53` refuses: it interrupts nobody;
- MAX_WORKERS holds per process: while one server drains and its successor
  works, both run agents for one database;
- the limit of 150 lines is kept per block (`task_executor.go:431`), so that more
  may be shown; its marker appears too when the output ends exactly there;
- a fence without a language is dropped where it opens a block and kept where it
  closes one (`task_executor.go:446,453`), and fences nest in the section's own
  (line 340): shown code may lie outside of every block;
- in the summary a diff never ends: items of a list behind `---` count as
  deletions; and the deletion of a line that begins with `--` is taken for a header;
- a slash command is acknowledged (`handlers.go:145`) before anything is stored,
  the order of `docs/technical/architecture.md:36-38` is the reverse;
- an API job's row names the path read at `handlers.go:207`, its agent runs in
  the one read at `task_executor.go:78`, and the second CreateJob changes nothing;
- agents outlive their server (`main.go:341`, `process_unix.go:14`), so that after
  a restart more than MAX_WORKERS may run (`architecture.md:56`);
- `GET /api/jobs/{id}` answers 500 for an unknown id: GetJob makes it an error,
  and the 404 of `handlers.go:419` cannot be reached;
- a progress message may arrive after the result: one that is under way, or whose
  tick the select prefers to the closed channel (`task_executor.go:233`);
- a descendant that leaves the process group survives the timeout
  (`process_unix.go:12` speaks of the entire process tree);
- an unfenced diff is code to `extractCodeChanges` and prose to
  `convertMarkdownToSlack` (`task_executor.go:633,663,671`): in the text itself
  `- x` becomes a bullet and `# x` a title;
- `inDiff` outlives blank lines, and the reference definition follows it there: an
  item `- x` after a header and a blank line is shown as code;
- a post that is never answered (`task_executor.go:845`) keeps its worker; with all
  workers kept, nothing is served until the process is ended;
- a poll of port 4040 that is accepted and never answered (`ngrok.go:73,79`, no
  timeout) keeps the start for ever, before `signal.Notify`: Ctrl-C then ends the
  process at once and leaves its ngrok;
- the wizard's secret serves only a server in the same directory, or one built by
  `go run` in it. A .env beside another executable, or the one of the working
  directory, is used instead without a word (`main.go:90-103`). Run as the docs say
  (`README.md:37-44`, `SETUP.md:41`: `go run cmd/server/main.go --setup`), the wizard
  saves into a directory that go removes behind it (`setup.go:223`), although
  `SETUP.md:54` promises "`.env` 파일 자동 생성" and `SETUP.md:75` that the bridge can be
  used right away; a server by `go run` then ends with log.Fatal (`main.go:117`) or
  takes an older .env. Its default database (`main.go:185`) is removed too;
- a .env that the wizard left empty (`setup.go:256`) ends the next start with
  log.Fatal (`main.go:117`), although the next wizard calls it an existing setting;
- a kept .env or the terminal may name a CURSOR_CLI_PATH that is out of date; it is
  used unseen (`main.go:173`), also right after the wizard found another agent;
- a request of exactly five minutes passes (`slack_auth.go:50` tests `>`), while
  `docs/technical/architecture.md:62` refuses five minutes and more;
- page number and warning make a full page longer than the limit it was cut to
  (`task_executor.go:777,784`), and a page may end in a code block (line 759).

### Bounds and why they suffice

- Pool: four jobs fill every place that holds one: two running, one in the
  dispatcher's hands and one buffered; or one on its way, one buffered and two
  blocked, in either order. One that hangs leaves a worker for the others.
  Capacity `maxWorkers * 2` is shrunk to 1, which the properties do not mention.
  The proofs need none of these bounds.
- Lifecycle: `MaxFaults` (failing statements), `MaxRestarts` and `MaxSets` (path
  changes) bound what the environment may do; they can fall between any
  two steps of any job. The jobs meet in the queue, the path, and the limit of
  workers, and with one worker the other two wait behind each; the path starts
  unset, is set twice, and cannot be unset again. The liveness run has two
  workers, so that the Slack job's post may keep one, and no restart, after which
  its properties owe nothing. The proofs need none of these bounds.
- Executor: one job, since Run shares nothing with other jobs but the tables
  above; its path is set or not. `maxUpdates`, `maxMessages` and Slack's limit have their real values.
- Agent: three descendants suffice for one in the group, one outside, and one
  forked late by either.
- Splitting: lengths are scaled (page 4 instead of 40000, window 3 instead of
  1000, 3 pages instead of 5); 13 characters reach past the last page. The proof
  is for any sizes.
- Text: with a limit of two lines of code and one of summary, five lines hold a
  header, a block or hunk that is cut, and something behind it.
- Start: two servers are one that holds the port and one that wants it, in all
  stages of each other's start and shutdown; one request is enough to have a
  handler, a sender and a job outlive each step. `MaxPolls` is 2 instead of 10:
  a first poll, a later one, and the end of the loop.
- Setup: one folder with its own executable beside the working directory, and
  `go run`, are the places among which main and the wizard can differ; each .env
  may be missing, empty, or hold a secret, a path or both, at first. The
  agent is missing at first and comes by the installer or later, by hand; two looks
  for the binary are one that is followed by another, and the last. Nobody edits a
  .env, removes the agent or runs the wizard beside a server.
- Authentication: a request may be as old as the clock, 3, which is past the
  window and skew together; 2 secrets are Slack's and one that is not.

`CHECK_DEADLOCK FALSE` is set everywhere because every one of these systems
ends: the process exits, Run or the call returns, all jobs are used up.

### Fairness

- Go schedules every goroutine that can run: weak fairness of each send,
  receive, step of Run and of the waiting goroutine. Where a `select` has two
  ready cases Go picks one at random, so a case that is ready again and again is
  chosen in the end: strong fairness of the two quit cases.
- The clock moves: weak fairness of `Expire` in `AgentProcess`, because the
  15 minutes of `context.WithTimeout` run out, and of a poll of `JobLifecycle`,
  which ends by its row or its 15 minutes (`handlers.go:282`). The 30 seconds of
  the pool and the ticker owe nothing, and no property needs them.
- `JobLifecycle`: every step of a handler and of Run but the posts (`Report`), which
  `http.Post` does not bound: `AcceptedIsRecorded` holds with hanging posts, as
  long as one worker is not kept by one.
- `ServerStartup`: main goes on where it can, and ListenAndServe is run. The waits
  of the guard and the shutdown have limits in the code, and so has the number of
  polls; a single poll has none, and may leave main in "hanging", which owes
  nothing and which `StartSettles` names. lsof and netstat are taken to end.
  Handlers, jobs, ngrok and signals owe nothing. `Setup`, `SlackAuth` and `ResultText` have no
  liveness property and no fairness.
- Nothing is assumed of clients, signals, crashes, or processes. A job in `Hang`
  never returns; `TaskExecutor_all` assumes that each `http.Post` returns,
  which the code does not bound by a timeout: `ServesFairly` says what
  remains true if one does not.

## Proofs

None of the properties is inductive. Each proof module begins with the parts of
an invariant that is, proves that the initial states have it and that every step
keeps it, and draws the theorems from it. The constants are as general as the
ASSUMEs of the model allow.

`WorkerPoolProofs`: every finite non-empty set of workers, every set of jobs,
every queue capacity of at least one. Proved of `Spec`: `TypeCorrect`,
`RegisteringNeverBlocks`, `HandingOffNeverBlocks`, `HandingOversNeverBlock`,
`CleanStop`, `JobsAreConserved`, `JobsStartOnce`, `PoolImplementsJobService`. The parts:

- `Typing` and `DispatcherInv`: the dispatcher's variables are set exactly where
  the code has set them;
- `PoolInv`: a channel is in the pool once, is not also in the dispatcher's
  hands, and belongs to a worker that has not a job. With it the pool is an
  injective sequence over the other workers whenever one registers, hence
  shorter than its capacity (`InjectiveLength`, `PoolHasRoom`);
- `StopInv`: workers leave only after quit, so before it the dispatcher's send
  meets its worker;
- `ParkedInv`: blocked senders are exactly those in the FIFO, behind a full and
  open buffer, so that a receive admits the first of them and a close loses the
  rest;
- `FifoInv`: accepted = started, held, buffered, and no job in it twice. The
  first half is `FirstInFirstOut`; the second needs that the submitters marked
  "queued" are the accepted ones, and gives `StartedOnce`;
- `RunInv` and `CloseInv`, for the refinement: what workers execute was started,
  each job by one worker, so that an idle worker means fewer than MaxWorkers
  jobs run (`IdleMeansRoom`); only main closes the queue. JobService's line is
  held, buffered and parked jobs together (`Line`): a receive that wakes a sender
  moves jobs within it and is invisible, and the close drops its parked tail.

`JobStoreProofs` says what each statement does to the table, with the one
assumption that `NoRow` is no row, and that a page of the list holds nothing but
stored rows of the status asked for (`PageIsStored`). The second needs `Ordered`, the
numbers of the rows are distinct and at most their count: the number of newer
rows is then a different place for each, and with as many places as rows every
place is taken. `JobLifecycleProofs` (any jobs, paths, number of
workers, faults, restarts) and `TaskExecutorProofs` cite these lemmas instead of
the statements.

- `LifecycleTypeCorrect`, `OutcomesAreReal`, `AnswersAreComplete`,
  `RowsAreNotForgotten`, `StatusesNeverRegress` and `LifecycleImplementsJobService`. `Typing` contains that
  the table is finite, which CreateJob's row number needs, and that whoever
  creates a row has read a path that was set. `LineInv`, `ReqInv` and `DownInv`
  say where jobs in the line, before it and after a crash are: the refinement
  rests on them. `OutcomeInv` says that Run knows the outcome when it writes it.
  `AnswerInv` strengthens the answer to the row it was read from, which later
  statements and restarts leave alone (`FinalStays`).
- `RowsAreNotForgotten`: `ReasonInv` adds, for every job (`Explained`), that while one
  with a row, or about to get one, is on its way, the path is set, which no request
  undoes, so that Run refuses only a blank prompt; that the result is stored before
  the status; and that a queued job is in the line, so that a stop marks it lost.
- `IdleListIsReadable`: while no statement has failed in the first life of a server
  (`Undisturbed`), a row is there only because a path was set, which no step undoes;
  hence Run refuses no job with a row, unless its prompt is blank, and lets go of it
  only when all columns are filled (`RowReady`). With `PageIsStored` every page can be
  scanned.
- `ExecutorTypeCorrect`, `ResultGetsThrough`, `ShowFindsTheJob` and
  `RunImplementsLifecycle`. `RoomInv`
  counts Slack's posts by the goroutine's counter while Run has posted nothing,
  the post under way included; with `RoomAssumption` (Slack takes more posts than
  there are updates) the first page has room. `StoredInv` and `PageInv` tie each
  stage, and each page that is made or posted, to the statements before it. The
  refinement goes step by step (`StepIsRunStep`): Refuse and Validate are the two
  branches of `JobLifecycle`'s Validate, every statement is the same statement on
  the same row with the same fault, and the last page is its Report; the close,
  the pages before and everything the goroutine does change none of its variables.
  The project path is the one Run reads, unset also for a blank prompt.

`AgentProcessProofs`: every set of processes the agent may start, finite or not;
the agent itself is not among its descendants. `AgentTypeCorrect`,
`TimeoutKillsGroup` and `OutcomesAreWhole`, which together say that the agent is
dead whenever the call returns, as `JobLifecycle` assumes:

- `GroupInv`: the agent is in its group from its start on, and on Unix nothing of
  the group runs from the kill on, not only when the call has returned. A new process needs a living parent and is in the group
  only when its parent is (`ForkStep`), so the group cannot come back;
- `WaitInv`: the goroutine in `Wait` moves on only when the leader is gone and
  then when nobody holds the pipe, and neither can change back; the results
  "ok" and "error" are taken only from what it sent.

`MessageProofs`, first part: every message, page size, window and number of pages
that `SizeAssumption` allows. `PagesFollow` and `CutsAreAnnounced`: `OffsetInv` ties
the loop's offset to the last page's end; `RoomInv` gives the i-th page a start of at
least (i - 1) pages without the window, because a line break is looked for in the
window only (`ChunkSizes`, `MaxOfInterval`), so that a message that is cut
off is longer than that.

Second part: every output, of any length, and any limits. `OnlyCode`,
`CutCodeIsAnnounced`, `SummaryIsComplete` and `FencedCodeStaysVerbatim`. The
reference definitions of `ResultText` look at the whole output, the loops at one
line; the proof is by the number of lines read, and each step asks what one more
line does to both:

- `FencesGrow`, `DiffGrows`, `CodeGrows`, `SummaryGrows`: a new line changes nothing
  that was said of the lines before it, and what is said of the new one depends on
  the old ones only through the parity of the fences and the open diff;
- `FlagsInv`: the two inBlock flags are that parity, inDiff is that open diff, and
  the summary's flag says whether there was a header: the three flags of the code
  are all it has to remember;
- `ShownInv`: what is shown is code or a fence, in order, and a line of code that is
  not shown was met with a limit reached; a block's own counter is never ahead of
  what was shown, and reaching the limit sets the marker for good;
- `SlackInv`: each line is converted by the parity before it.

`ServerStartupProofs`: every set of servers, any of them with AUTO_KILL_PORT, any
bounds. `StartupTypeCorrect`, `OneServerAtATime`, `TunnelEnded` and `CleanShutdown`:
the port has one owner (`PortInv`), the owner's main is past its start and before
its shutdown (`ListenerInv`), work comes only from the owner (`SourceInv`); hence
of two servers with jobs one is leaving. `DrainInv` says that what the shutdown
has waited for does not come back, `TunnelInv` where ngrok may run.

`SlackAuthProofs`: any secrets and paths, window, skew and clock. `AuthTypeCorrect`,
`HandledRequestsAreGenuine`, `GenuineRequestsAreHandled` and
`AgentIsFoundAfterSetup`: no wizard runs beside a server (`QuietInv`), the file that
was saved last holds its secret and no path until a later wizard empties it
(`FileInv`, `OverwriteStep`), a server that runs where it was saved loads that file
whatever the other folder holds (`SavedIsLoaded`), questions behind the first are
asked only with an agent (`AgentInv`), and a request keeps its body and its
distance to Slack's clock (`RequestInv`).

Only model-checked: liveness. `ServesFairly`, `WorkersLeave`, `AcceptedIsRecorded`,
`SyncIsAnswered`, `WorkerIsFreed`, `ProgressEnds`, `CallReturns`, `StartSettles` and
`ShutdownEnds` need fairness and ENABLED, which the prover does not treat.

## Not modelled

- Texts: messages, help, logs, the wording of a result's sections, and the
  conversion of links and bold text within a line. What is cut by bytes
  (`handlers.go:561,653`) may end within a character.
- The 8-character prefix by which `show` may name a job.
- HTTP connections: a response that is not delivered is an answer all the same
  (the server's WriteTimeout equals the poll's 15 minutes, `main.go:292`).
- SIGKILL of a process in an uninterruptible call; the reuse of a process id
  between the exit of a leader and `kill(-pid)`.
- The content of the buffers that are read while they are written after the two
  seconds of `task_executor.go:204` (a data race).
- The MAC of a signature: it is the equality of keys, and a request that is not
  Slack's has another.
- `extractModifiedFiles` (`task_executor.go:388`): which words of which lines count
  as files is a matter of characters, and its list says no more than that.
- The rc files of other shells, versions that the wizard prints, an os.Executable
  that fails, and the wizard's buffered readers, each of which may swallow the
  input of the next (`installer.go:134`).
- `docs/docs.go` is generated; `types/slack.go` is one struct without behaviour.

## Plan

Done: every component that has behaviour (store, requests and output formatting
but for their texts), both refinements of `JobService`, the refinement of Run, and
the proofs listed.

1. `JobLifecycle` composed with `WorkerPool` in place of the line, for the
   shutdown's lost jobs and their rows. Both implement `JobService` by proof, so
   that what is left to learn is the timing of the hand-over.
2. A divergence to decide by a run once rows carry a requester: the comment at
   `handlers.go:516` promises the user's own recent jobs, `handleListCommand`
   ignores its `userID` and lists everybody's.
