# Verification of Oh-my-Gunnsama (`omg`) in TLA+

`omg` is a Go command that sits beside a coding agent ("host"). The host calls
it on its lifecycle events (submit, before and after a tool, error, stop), and
`omg run` delegates a task to a worker subprocess, verifies what the worker did
and records everything in a SQLite database and in per-session state files. A
daemon behind a Unix socket may handle the events instead of the command itself.

This directory models the parts of `omg` that keep state, checks them with TLC
on small instances and proves the central properties with TLAPS for every value
of the constants. `PROJECT.json` gives, for every definition, the source lines it
stands for.

## 1. Inventory

| component | source | state | operations |
|---|---|---|---|
| session state store | `internal/state` | `sessions/<id>/state.json` and a root `state.json`, a process-wide mutex per path | `Transition`, `WriteRoot`, `MarkStaleHeartbeats`, `ReadEffective` |
| run pipeline | `internal/orchestrator/run.go`, `phases.go` | the request's context, the list of warnings, the response | `handleRun`: pre-worker phase, run with worker, `finishRun` |
| verification | `internal/verify`, `orchestrator/verification.go` | none of its own: two kinds of event per plan | `RunPlan`, `runCheck`, `recordVerificationStorage` |
| storage projection | `internal/storage` | rows of runs, work items, agent sessions, evidence, diagnoses | `RecordEvent`: one transaction per event |
| pi worker driver | `adapters/pi` | a subprocess, two pipes, an events channel of 64, a done channel | `Spawn` (scanner, stderr reader, reaper), `Events`, `Wait`, `Abort` |
| daemon and clients | `internal/daemon`, `cmd/omg/main.go` | lock file, socket path, listener, one goroutine per connection and per handler | `Start`, `serve`, `handleConnection`, `Close`, `RoundTrip` |
| tool guard | `internal/guard`, `orchestrator/orchestrator.go` | the decision under construction | `Evaluate`, suppressions, `handleToolBefore` |
| MCP process manager | `internal/mcp/manager.go` | map of server processes and of their last use | `Use`, `CleanupIdle`, `CleanupZombies` |
| MCP tool router | `internal/mcp/client.go` | map from session and server to a client | `Register`, `Disconnect`; `Call`, `ListTools` read |
| host event handlers | `internal/orchestrator/orchestrator.go`, `cmd/omg/main.go` | the session's state file, the rows of its run and tool call; on the client's side an answer made after 100 ms without one | on-submit, on-tool-before, on-tool-after, on-error, on-stop, on-compact, on-run |
| protocol | `internal/protocol` | none | validation of requests, the two kinds of response |
| configuration | `internal/config` | none: layers of files, merged | `Load` |
| registry | `internal/registry` | agents by name and alias, built once | `Build`, tool policies |
| routing | `internal/route` | none | `Route`: scores, doubts, procedures |
| prompt builder | `internal/prompt` | none | `BuildPrompt` under a budget of tokens |
| hook chain | `internal/hook` | hooks sorted by priority | `NewChain`, `Apply` |
| skills | `internal/skills` | none | `LoadAll` along the scopes |
| remote observer | `remote/` | two report files, a ticker, refreshes on request | `observe`: `Scan`, `ResolveOutput`, `Write`, serve |
| built-in agents, worker interface, host adapters, scripts | the packages of those names | constant data | |

**How they interact.** A command either sends its event to the daemon
(`RoundTrip`) or calls the orchestrator's handler itself. The handler evaluates
the guard (before a tool), moves the session's state file and records an event.
The client waits 100 ms for the daemon and then answers the host itself, while the
daemon's handler goes on. `handleRun` records events one transaction at a time, sets the session to
running, spawns a worker, drains its events channel, waits for it, runs the
checks, sets the session to finished or failed, and records the terminal events.
Only `handleRun` moves a session to running, so for a session that no run has
started on-stop and on-error are refused by the transition table.

Facts about the wiring that matter for reading the results: the daemon's handler
has no worker factory (`cmd/omg/main.go:260`), so `omg run` through a daemon
always answers with an error; a failed worker is a normal answer of `handleRun`,
not an error; `omg daemon` passes no guard rules, so there the guard allows every
tool; the orchestrator does not call the hook, skill, MCP and prompt code yet
(`CHANGELOG.md:38`).

**What is hard.** The state store validates before it locks, and locks only
within one process. A run spans about fifteen transactions and two files with no
transaction around them; a lost event is a warning; one deadline of five seconds
covers the checks and the terminal events. The pi driver has four concurrent
parties that can all wait for one another. The daemon shares two files with its
predecessor and its successor, and its handlers outlive the answer to the client,
which may have answered the host in their place. Configuration is merged from
layers by rules that differ per key. The observer's refreshes overlap on two files
while the workspace changes between two git commands. `PROJECT.json` lists 40 such
hazards by line with the properties aimed at them.

**What makes each part correct.** A finished session stays finished and every
record on disk is one that a single call wrote; the database says *completed*
only for a run that earned it, a success is backed by evidence, and a committed
run terminates; no worker event disappears without a note, and a run that is
cancelled, or whose worker leaves nothing behind, does not wait for ever; there is one daemon, it is reachable, and it answers truthfully; the guard
answers with the strictest rule and fails closed; no server process is lost or
stopped as idle soon after it was handed out; sessions do not close each other's
clients; a clean answer to an event means that the event took effect and an error
that it did not; the tool policy written in the files reaches the prompt; the
observer reports what was, or warns in `state.json`, and catches up with the
workspace.

## 2. Modules

| module | models | composed of |
|---|---|---|
| `LifecycleTable` | `validateTransition`: the legal moves of a session | |
| `SessionLifecycle` | abstract specification: a session's lifecycle as one atomic variable | `LifecycleTable` |
| `StateStore` | the file-backed store, with the steps of a write apart | `LifecycleTable`; refines `SessionLifecycle` |
| `Projection` | what `RecordEvent` does to the rows of one run, and which foreign keys it needs | |
| `RunPipeline` | `handleRun` and `RunPlan`, event by event | `Projection`, `LifecycleTable` |
| `PiDriver` | the subprocess, the driver's goroutines, the consumer | |
| `Daemon` | daemons, lock and socket files, connections, handlers, clients | |
| `Guard` | `Evaluate` and `handleToolBefore`, rule by rule | |
| `McpManager`, `McpRouter` | the two halves of `internal/mcp` | |
| `HostEvents` | the handlers of `orchestrator.go` as the daemon runs them, and the clients with their fallbacks | `Projection`, `LifecycleTable` |
| `Sorting` | what the uses of package `sort` compute | |
| `AgentConfig` | `Load` and `Build`: layers of files to agents and their tool policies | `Sorting` |
| `Route`, `Prompt` | `Route` and `BuildPrompt` | `Sorting` |
| `Submit` | on-submit from the files to the answer | `AgentConfig`, `Route`, `Prompt` |
| `Hooks` | the hook chain and the lookup of skills | `Sorting` |
| `Algorithms` | the pure parts against what they should compute | `Submit`, `Hooks` |
| `Observer` | `remote observe --serve` | |
| `MC*` | symmetry sets and constants for TLC | |
| `*Proofs` | theorems and proofs | TLAPS |

### StateStore
`disk` maps a path to its record (lifecycle, heartbeat, reason) or `NoFile`;
`dirs` the session directories that exist; `lock` the mutex of a path within one
host process; `call` what each goroutine is doing. A `Transition` is
`BeginTransition`, `ReadCurrent` (read, validate, build the new record: all
before the mutex), `MkdirAll` (takes the mutex, makes the directory), `Rename`.
`WriteRoot` begins at the mutex. A sweep visits entries one at a time, and writes
a record it read before. `ReadFails`, `MkdirFails` and `WriteFails` are the error
returns; `Crash` ends a host process with all its goroutines and mutexes and
leaves the files. The temporary file's write and its rename are one step: nobody
reads the temporary file.

### Projection and RunPipeline
`db` holds the rows of one run; `Projection` says which rows an event needs
(foreign keys) and what it makes of them. Each event of `handleRun` is an action
`Emit...` with two outcomes: committed, or rejected (storage failure, missing
row, dead context) with a warning. `elapsed` is the time used up since the
worker returned, against `termCtx`; `ctxDone` is the request's cancellation.
A state transition is two steps, as in the code: `ReadState` reads and validates,
`WriteState` writes whatever the file holds by then. Another writer of the
session's state file (on-stop, on-error, the sweep) does the same in `OtherReads`
and `OtherWrites`; `others.pending` is what such writers have validated and not yet
written, `others.stale` says that one has written over a record from which its
transition is not valid. `Cancel`, `Crash` and these two may happen between any two
steps. A check is killed at its limit, but `cmd.Output` returns only when no
descendant of it holds its output any more: `held` seconds later, which count
against `termCtx`, too. The model assumes that the database could be opened and that
the request names a project.
`runCheck`'s error returns cannot be reached from `handleRun`. Event ids are
taken as fresh (see the hazard at `storage.go:190`).

### PiDriver
`plan` is the sequence of kinds of line the subprocess will write (an event, a
skipped line, an unparsable line, a line beyond the scanner's buffer), and may
contain a "hang" it never gets past; `pipe` and
`events` are bounded queues; `scanner`, `stderr`, `reaper`, `consumer` are program
counters. The consumer is the one of `phases.go`: drain `Events`, then `Wait`.
`Fork` leaves a descendant that holds the pipes open; `RunReturns` and
`CancelReturns` except a descendant that never ends, because nobody kills it, and
`SuccessIsComplete` excepts over-long lines, after which the rest of the output is
not read.

### Daemon
Each daemon has a `pc` from opening the lock to exit; `lock` and `sock` say whose
the two files are. A request passes through `client` (dial, write, read), `conn`
(queued, reading, handling, closed) and `hnd` (the handler goroutine, which may
outlive `conn`). `took` is the set of requests whose effect has happened.
Nobody but `omg` removes the two files.

### Guard, McpManager, McpRouter
`Guard` folds the rules one at a time into `decision`, as the loop of `Evaluate`
does. A rule is known by its position, and what a rule answers to a call is an
input. `McpManager` gives every call a `now` that may lag behind the clock,
because callers take it before the lock. `McpRouter` keeps the map of clients;
`StartsWith` says which session ids begin with which, all that `Disconnect` looks at. Its
callers are sequential, as the map has no lock, and session ids have no colon.

### HostEvents
`req` gives each request its event and the fields the handlers look at; `host` and
`answer` are the host's side, `hnd` and `reply` the daemon's, with one step for
each of read-and-validate, write of the state file, the statements of the event's
transaction (`Execute`, under the handler's context), its COMMIT (`Commit`, which no
context stops), cancellation and return. Only one transaction at a time is between
the two (`Locked`). `closed` are the requests answered with a timeout while their handler goes
on; `expired` and `stopping` end contexts. `life` is the state file, `db` and `tool`
the rows, `ledger` and `moved` remember whose effects are there. Between any two
steps a client may give up and answer itself (`GiveUp`), a write may fail, another
process may end the run (`RunEnds`) and the daemon may die (`Exit`). All requests
name one session, run and tool call, which is where they can meet, or no project or
no session, which makes on-error and on-stop a clean answer that does nothing. The session is
one that a run has set running: from any other the table allows neither `failed`
nor `cancelled`. `handleToolBefore`'s decision is an input here; how it comes about
is `Guard`. Likewise an on-submit either fails or not; which is `Submit`.

### AgentConfig, Route, Prompt, Submit, Hooks, Algorithms
Operators, one per function of the code. Names are numbers in the order of
`sort.Strings`, texts are known by the terms they contain, sections by their
tokens. YAML nodes are "absent", "null", "all" or a value, because the merge rules
tell exactly these apart. In `Algorithms` a state is one input of one of the parts,
and the properties compare what the code computes with a definition that is not an
algorithm: the policy a reader of the files expects, the best-scored agent, the
least important sections left out, the first scope with a valid skill.
`PolicyReachesPrompt` runs the whole of on-submit. A loop is a
`FoldLeft` over its rounds with one operator per round, and a sort is a `SortedBy` with
the order its comparison defines, ties broken by position where the code's sort is
stable. `InputsAssumption` says what the inputs are: anything the program can be given,
of any size.

### Observer
`trees` is the history of the workspace, `scan` the report a refresh works on. A
refresh reads git in three steps, `Stat`, `Status` and `NameOnly`; the commands whose
output the report leaves out (branch, diff stat) belong to the step before them, since
all they add is a warning. A command may fail or take too long, which gives a warning,
or succeed and have written to stderr, which `CombinedOutput` mixes into its output
without one (`noise`). `json` and `page` are the two files, each opened (which empties
it) and written in two steps, either of which may fail. The page does not show warnings
(`Shown`). The ticker starts one refresh after the other, every POST one of its own,
and all of them overlap. Where the output directory lies is a record of its place by
name and by its real path, as `ResolveOutput` compares both.

## 3. Runs

| run | result | bounds | shows |
|---|---|---|---|
| `StateFiles` | pass | 2 sessions and the root file, 2 goroutines of one process of which one owns the sessions and sweeps, clock to 3 | with one writer per session the table is obeyed through failed writes and crashes, the store refines `SessionLifecycle`, records are well formed, and nobody waits for ever for a mutex |
| `StateTwoWriters` | violation | 1 session, 2 processes | a finished session becomes blocked |
| `RunFaults` | pass | up to 2 checks of 1 or 4 s whose output may be held for 4 s more, 1 worker event, 2 failing writes, cancellation, crash, two other writers | completed is earned, success is evidenced, a run without warnings leaves rows that agree with its answer, and a state file that does unless another writer's stale write replaced it; a committed run reaches a terminal status unless a write failed, the process died or the checks used up `termCtx` |
| `RunSlowCheck` | violation | 1 check of 6 s | the terminal events are lost |
| `PiStream` | pass | 4 lines of all kinds, a subprocess that may hang, pipe of 2, channel of 1, a descendant | every event is delivered or noted as dropped; success means all output was read; the run returns, and a cancelled one does even when the subprocess hangs or is stuck |
| `DaemonFaults` | pass | 2 daemons, on-stop and another request that may be garbled, crashes, hanging handlers | one daemon, reachable socket, true answers; every connection ends; on-stop brings the daemon down |
| `DaemonStaleLock` | violation | 2 daemons, crashes | after a crash every start is refused |
| `HostEvents` | pass | 7 triples of requests, 1 failing write, one life of the daemon | a clean answer holds, an error has left nothing, a recorded end of a tool call stays, a blocked tool runs only unheard, a handler whose connection timed out gets no event into a COMMIT any more |
| `Decisions` | pass | guard: 3 rules, 9 answers each, 2 tools, 3 paths, 1 suppression; the rest: all inputs of up to 3 layers, sections, hooks and scopes | the guard is strict and fails closed; configuration, registry, routing, prompt, on-submit, hooks and skills compute what they should |
| `McpProcesses` | pass | 2 keys, 3 processes, clock to 6, lag 1 | no unknown live process while `Stop` works; none stopped as idle that `Use` handed out within the timeout, less the lag of the callers' clocks. `Use` hands a process out and does not learn when its caller is done with it, so one still in use may be stopped |
| `RouterPrefix` | violation | 2 sessions (`s-1`, `s-10`), 2 servers, 3 clients | ending `s-1` closes clients of `s-10` |
| `ObserverServe` | pass | 1 file, 1 change of the workspace, 2 posted refreshes, 1 failure or use of stderr | a `state.json` without a warning says what was, up to what git wrote to stderr, and never calls a dirty workspace clean; the page shows no change there was not, though its "Clean" means nothing; both files catch up |

**Why the bounds are enough.** Races in the store are between two writers of one
record; a third adds orders of the same pairs. The heartbeat timeout is one tick
and a heartbeat is stale when it is more than that old, so a clock that reaches 3
gives both fresh and stale heartbeats. Two checks give
every mixture of passing and failing, and checks of four seconds outlast
`termCtx` two at a time, or one whose output is held, while one alone does not. Channel and pipe fill up with far
fewer lines than are written, which is all that their real sizes (64 events, the
kernel's pipe buffer) mean. Two daemons are a daemon and its successor. Three
rules give a decision that is replaced, kept and replaced again. The triples of
`HostEvents` are a tool call's two events beside each kind of event that could
disturb them, the two transitions against each other, one without a project, and
refused requests of each kind. Three layers are all there are, and two or three agents with up to two aliases
each give every clash of names. One change of the workspace separates `git status` from
`git diff`; of three overlapping refreshes each can
be the one that finishes last, and two can leave a broken file behind the third. Three processes
for two keys let one key be served twice. The safety
properties that section 5 proves do not rest on these bounds at all.

Deadlock is checked everywhere but in `McpProcesses`, where every process may
have been used up and nobody needs to call again; the others go on for ever or
say explicitly when they are done.

## 4. Fairness

* `StateStore`: weak fairness for the next step of a call that has begun, strong
  fairness for taking the mutex: Go's `sync.Mutex` goes into starvation mode and
  passes to the longest waiter. None for beginning a call, ticking or crashing.
* `RunPipeline`: weak fairness for `handleRun`'s own steps, including the end of
  the worker's stream and of every check. That the stream ends is the business of
  `PiDriver` (`RunReturns`, which excepts over-long lines). A check that leaves a
  process behind which holds its output for ever is excluded: nothing in the code
  ends such a run.
* `PiDriver`: weak fairness for the goroutines, the delivery of SIGKILL on
  cancellation, and a subprocess that can write or exit. None for `Fork`,
  `Cancel`, `Abort` or the descendant's exit.
* `Daemon`: weak fairness for the closing sequence, for a connection's goroutine
  and its timer, and for clients, whose reads have deadlines. None for handlers,
  which may hang, nor for starting or signalling a daemon.
* `Observer`: weak fairness for the start, for the ticker and for the steps of a
  refresh: each git command is killed after two seconds, and taken to leave no process
  behind that holds its output (`CombinedOutput` would wait for it). None for edits,
  posts or signals; `ReportCatchesUp` speaks of the time after edits, posts and
  failures have ceased, which their bounds bring about.
* `HostEvents`, `Guard`, `Algorithms`, `McpManager`, `McpRouter`: safety only.

## 5. Proofs

All are for arbitrary constants satisfying the named `ASSUME`s, and TLC evaluates
those assumptions in the runs.

* **StateStoreProofs.** `TypeCorrect` and `RecordsAlwaysWellFormed`, for any
  number of racing processes. A record on disk comes from the record a call
  carries, so the invariant must speak of both: `TypeOK`, `RecordsWellFormed`,
  `CallsWellFormed`. `SingleWriterTerminalIsFinal` and
  `SingleWriterRefinesLifecycle` assume `SingleWriter`; they need `CallsCurrent`:
  the record a call is about to write is a legal successor of what is on disk
  *now*, which is just what a second writer destroys (`StateTwoWriters`).
* **RunPipelineProofs.** `RunTypeCorrect`, `CompletedIsAlwaysEarned`,
  `SuccessIsAlwaysEvidenced` and `WarningFreeRunAlwaysAgrees`, for any number of
  checks and any timeouts. The
  invariant has three parts beside `TypeOK`: `Earned` (a completed row, or being
  past the point that writes one, implies that worker and checks succeeded),
  `Planned` (what the program counter says about the checks that have run) and
  `Evidenced` (which evidence is in the database at each step of `RunPlan`). The
  last theorem has an invariant of its own on top (`Agreeing`): while there is no
  warning, every write so far has reached the database, so what the rows hold is known
  at each step of the bail-out (`CleanFailure`) and of the end (`CleanEnd`); so is the
  state file, as long as no stale write of another process has landed on it.
* **DaemonProofs.** `AtMostOneDaemon` and `ServingDaemonIsReachable` from
  `TypeOK`, `LockIsOwn` (a daemon between opening and removing the lock owns it)
  and `ServingSocket`; `AnswersAreTrue` from `TypeOK`, `ConnectionsOwned` (an
  accepted connection's daemon is alive) and `HandledInv` (a handler that has
  returned has taken effect). `DaemonTypeCorrect`. `RefusalIsTrueWithoutFaults` from
  `LockIsHeld`: without crashes and failed removals, a lock file has a holder. The
  stale lock of `DaemonStaleLock` therefore needs a fault; no order of starts, failed
  starts and stops leaves one.
* **DecisionProofs, the guard.** `StrictestDecisionWins` and `GuardFailsClosed`,
  for any number of rules and suppressions. `DecisionIsStrictest` is inductive over the loop: it says what
  `decision` is after the first `i - 1` rules. `Answered` ties the host's answer
  to the final decision.
* **DecisionProofs, the pure parts.** Every property of `Algorithms`, for inputs of
  any size that satisfy `InputsAssumption`: any number of layers, agents, aliases,
  triggers, sections, hooks and scopes, any budget. They are inductions over data, made
  from first-order pieces. `SetInduction` is induction over the numbers up to `n` from
  the well-foundedness of `Nat`; `FoldExists` with it gives, for every `FoldLeft`,
  the function of its intermediate results, so that a loop is proved as in the code's
  own terms: an invariant that holds before the first round, that each round keeps, and
  that says the property after the last. `SortOfTotalOrder` says that a `SortedBy` of a
  finite set by a total order is an increasing enumeration of it. Then:
  - `HardSlotTheorem` from `ChainInv`: which hooks have run, whether the chain is over,
    and which flow decision counts, as sets over the part of the chain passed so far;
  - `SkillTheorem` from `FoundInv`: what is found after the first scopes by rank;
  - `PromptTheorem` from `KeepInv`: what is selected is upward closed in importance and
    contains what should be kept; each round takes out one section, so that one round
    per section is enough for the loop to end;
  - `RouteTheorem`: no trigger is before the first of the sorted matches, which makes it
    the best one;
  - `PolicyTheorem` from `PolicyInv`: once the last layer that sets the tools has passed, the
    agent's tools and its "all" are those of that layer and the appends since, and once
    the last one that lists exceptions has, they are its exceptions;
  - `AliasTheorem` from `AliasInv`: the map holds exactly the aliases seen, and a
    collision is one of two agents that share a name;
  - `SubmitTheorem` puts `PolicyInv`, the routing and the prompt together: the agent the
    route names is an active one, the third section is required, and the prompt keeps it.
* **McpProofs.** `NoProcessLeaks` (while `Stop` works) and
  `RecentlyUsedIsKept`, from `EntriesCurrent`: an entry's recorded last use lags
  behind the true one by at most `MaxLag`. `PrefixFreeSessionsIsolated` for the router:
  an entry belongs to the session in its key (`EntriesOwned`), and whatever is closed
  belongs to a session whose id begins with that of one that ended (`ClosedByPrefix`).
  So the isolation that `RouterPrefix` refutes holds if no id begins with another.
* **PiDriverProofs.** `EventsAlwaysAccounted`, `SuccessIsAlwaysComplete` and
  `PiTypeCorrect`, for any number of lines and any capacities. The invariant says
  that consumer, channel and pipe hold rising sequences, each below the next
  (`Ordered`), that each line is somewhere (`Accounted`), and that the scanner ends
  after the last writer and the consumer after the scanner (`Drained`).
* **HostEventsProofs.** Every property of the `HostEvents` run, for any requests,
  any number of them and of failing writes: `CleanAnswerAlwaysHolds`,
  `ErrorAlwaysLeavesNothing`, `BlockedAlwaysUnheard`, `SettledToolAlwaysStays`,
  `TimedOutAlwaysStopsBeforeCommit`, and `HostTypeCorrect`. What a host may conclude from
  an answer follows from what the handler had done when it built the response
  (`HandlerInv`), carried over to the answer (`HeardInv`), which only the handler
  itself can give without leaving a mark (`HostSteps`) and after which it does
  nothing more (`EffectSteps`). `AfterInv` orders the two events of a tool call,
  `BlockInv` follows a block to the host, `ClosedInv` ties a timeout to a dead
  context. `SettledToolAlwaysStays` uses `OneEndAssumption`: the end of the call is
  reported once.
* **ObserverProofs.** `ReportAlwaysTruthful` and `ObserverTypeCorrect`, for any files,
  workspaces, changes, posted refreshes and failures. The invariant follows a report
  through its scan (`ScanInv`: from `git status` on, its verdict was so at some time, or
  stderr or a warning is in it) into the two files (`JsonInv`, `PageInv`). A change of the
  workspace only makes the history longer (`SayingsKept`).

**Only model-checked.** The liveness properties, which are out of the prover's reach:
`EveryCallReturns`, `TerminatesUnlessStarved`, `RunReturns`, `CancelReturns`,
`EveryConnectionEnds`, `StopEndsDaemon`, `ReportCatchesUp`. Every other property of a
passing run is a theorem.

## 6. Findings

Four places where the code does something else than a comment, message or
changelog line says, each with its violation run; `PROJECT.json` quotes the text.

1. `StateTwoWriters`: a terminal session can be overwritten, because `Transition`
   validates outside the mutex (`state.go:92`).
2. `RunSlowCheck`: phase two does not always reach terminal events
   (`phases.go:174`).
3. `DaemonStaleLock`: "already running" after a crash (`daemon.go:74`).
4. `RouterPrefix`: sessions are not isolated when one id begins with another
   (`client.go:59`).

More that the models show, and that the properties name as their exceptions:

* A line of more than one MiB ends the scanner, after which a subprocess that goes
  on writing blocks until it is killed (`pi.go:212`); a descendant that inherited
  stdout keeps the events channel open after the subprocess has exited
  (`pi.go:129`).
* A check whose descendant keeps its stdout open outlasts its timeout, and the whole run
  with it (`verify.go:183`, no `WaitDelay`).
* A stale write of on-stop, on-error or the sweep that lands after the end of a run
  leaves its state file cancelled, failed or blocked although the run succeeded and
  reported no warning (`state.go:92`).
* A run whose worker could not be spawned leaves its state file at running
  (`phases.go:138`).
* An event whose COMMIT had begun when its connection was answered with a timeout is
  still recorded, so that a retry records it twice (`storage.go:222`).
* An on-stop or on-error without a project is answered with a clean OK and does nothing
  (`orchestrator.go:159`).
* A verdict whose evidence and terminal event are lost leaves a completed row for
  a run answered as failed (`verify.go:131`).
* on-stop cancels the context its own connection waits on, so that a stop that
  worked may be answered with "daemon request timed out" (`daemon.go:184`).
* A host whose on-tool-before found no daemon within 100 ms is told to go on with a
  warning, even if a guard rule would block the tool (`main.go:133`); the handler it
  did not wait for may then record the start of a call after its end.
* `omg run` goes on without a sink, and so without any record, if the database
  cannot be opened (`main.go:201`); foreign keys are only enforced on the connection
  of the pool that ran the pragma (`storage.go:165`).
* The command and the daemon read an empty `input` differently (`main.go:305`).
* `tools_except` of a lower layer survives a layer that replaces `tools`
  (`config.go:213`).
* `code.go:16` says that agents registered in code take precedence; `Build` does
  not read them.
* The observer's page says "Clean" after a failed `git status`, because it shows no
  warnings (`report.go:31`); what git writes to stderr counts as status lines and changed
  files, without a warning (`scanner.go:155`).
* `CleanupIdle` forgets a process whose `Stop` failed (`manager.go:91`).
* An output directory that does not exist yet is judged by its name, and may lie in
  the project through a symbolic link (`scanner.go:124`).

## 7. Not modelled

* `ReadEffective`, the router's `Call` and `ListTools`, storage's `Open`, migrations
  and counts only read or set up; the in-memory sink serves tests.
* Reading and writing YAML and JSON: a file or request that cannot be decoded is an
  error input. The checks of one `skill.yaml` are one Boolean.
* `BuildDynamic` of the prompt package and the map of `registry/code.go` have no
  caller.
* Built-in agents, host adapters, the worker interface with its test workers, shell
  scripts: constant data, interfaces and manual tests.
* The texts of the observer's page, its branch and its diff stat.
* Which files the daemon and the command read: each loads the configuration of the
  directory its own process was started in, whatever the request's project is. The
  route in the command's fallback (`inlineSubmitFallback`) only informs and is left out.
* Collisions of hashed event ids, which need a clock that stands still between
  two transactions, and data races on the router's map, which end the process.

## 8. Plan

Done: state store and its refinement, run pipeline, pi driver, daemon, guard, MCP,
host events with their fallbacks, the pure parts against reference definitions,
the observer, and the proofs of section 5. Left:

1. The composition of `Daemon` with `HostEvents` and `StateStore`: the handlers of a
   stopped daemon against those of its successor.
2. The safety halves of the liveness properties: that a program counter only moves
   forward, and what must hold when a run of `omg` can no longer move.
