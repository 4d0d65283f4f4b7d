# A verification of emploke in TLA+

emploke runs AI agents for its users: a server on the user's machine keeps
workspaces, each with a catalog of agents, skills and MCP servers, and starts
agent processes for sessions, for tasks, for schedules and for the nodes of
workflows. What makes it hard to get right is that everything happens in one
Node.js process in which every `await` lets any other request, timer or process
exit run, over rows of SQLite and directories that survive the process and memory
that does not; and that a command line and a dashboard, written apart from it,
talk to it over HTTP and start and stop it.

This directory holds TLA+ models of the parts that carry that logic, TLC
configurations that check them on small instances, and theorems about them that
TLAPS checks for every value of the constants. Paths below are relative to the
repository's `packages/`; `PROJECT.json` gives, for every definition, the file
and the lines it stands for.

    tlasany Workflow.tla                      parse a module
    tlc -config MCWorkflow.cfg MCWorkflow     model-check one
    tlapm TaskProofs.tla                      check its proofs

## 1. The system

### Components

| Component | State | Operations | Modelled |
|---|---|---|---|
| workflow substrate and engine (`workflow/src`) | tables `workflows`, `workflow_nodes`, `workflow_edges`; in memory: the nudges of the engine, eager dispatches, timers of the runners | create, addNode, addEdge, addSubgraph, cancelNode, removeNode, removeEdge, replaceNodeSpec, finish, cancel; dispatchAtomic, markNodeTerminal, stuck detector, reconciliation | `Workflow` |
| node runners (`api/src/wiring/workflow-*-runner.ts`) | one poll interval per node, an error budget | dispatch a task for a node, poll it, report its end, cancel | `WorkflowRunner` |
| task service (`task/src`) | table `tasks`, a directory per task; in memory: `ctx.live`, `dispatchInProgress`, `purgeQueue`, `shuttingDown` | dispatch, cancel, delete, cascade of a schedule, purge, shutdown, recoverOrphaned | `Task` |
| copilot runtime (`runtime/src/copilot`) | one client and session per agent, `handle.exit`; an event log and a state directory per session | launchHeadless, kill, provision, deleteState, parse and stream activity | launch, kill, exit in `Task`; activity in `ActivityLog`, `ActivityView`; provision and state in `Sessions` |
| schedule service (`schedule/src`) and its handler for tasks | table `schedules`, `this.timers` | create, patch, delete, run, fire, armNext, recover, shutdown | `Schedule` |
| workspace context registry (`api/src/workspace-context.ts`) | `entries`, `inflight`, the services of each context | get, load, invalidate, reload, closeAll | `WorkspaceContexts` |
| workspace service (`workspace/src`) | table of workspaces, a directory each | register, rename, open, unregister, purge | `Sessions` and `WorkspaceContexts` |
| session service (`session/src`) | table `sessions`, a directory each, state of the runtime | create with roll-back, archive, purge, open in a terminal | `Sessions` |
| folder trust (`runtime/src/copilot/trust.ts`) | `config.json`, shared by processes, and a lock file | ensureDirTrusted | `Sessions` |
| catalog (`catalog/src`) | tables of agents, skills, MCPs with their dependencies; a plan cache | resolve, install, sync, update, delete, acknowledge, enable; the status of an entry | `CatalogPlan`, `Catalog` |
| catalog fetchers | a cache of tokens | fetch from GitHub, Azure DevOps, files | a fetch answers or fails |
| server (`server/src`) | the HTTP server, the shutdown in progress | boot, context middleware, gracefulShutdown, signals | `WorkspaceContexts`, `ServerLifecycle` |
| server routes and their error policies (`server/src/routes`) | none | check a request, call a service, answer | `Api*` |
| CLI lifecycle (`cli/src/commands/{start,stop,restart,status}.ts`) | `runtime.json`, the server's processes | start, stop, restart, status | `ServerLifecycle` |
| other CLI commands | none | build a request, send it, print | what they send: `Api*` |
| dashboard (`dashboard/src`) | the state of its pages | forms, lists, buttons; the page of a task | what it sends: `Api*`; the page of a task: `ActivityView` |
| contracts (`contracts/src`) | none | the table of routes, types of bodies | `ApiRequests` |
| terminal | none | open a terminal | a step of `Sessions` |
| first-party agents and skills, template, scripts, e2e | none | | no |

### How they interact

- A command or a page builds a request. The route checks its shape, calls a
  service and turns what the service throws into a status and, for the names on
  one list, a message.
- A request enters through the context middleware, which asks the registry for
  the workspace's context: one set of catalog, session, task, schedule and
  workflow services over one `workspace.db`. The registry shares a load between
  concurrent requests, and *drains* it before it closes anything.
- The load of a context opens the modules in order, lets `TaskService` fail the
  rows that a dead server left running, lets `ScheduleService` catch up on missed
  slots, and composes the workflow engine last. `close` drains the ticks of the
  engine first and then closes the modules.
- Schedules and workflows reach tasks through handlers and runners that call
  `tasks.dispatch`; a schedule asks the task table before a fire whether an
  earlier task of it is still running; a runner polls the task every two seconds
  and reports its end to `markNodeTerminal`.
- The exit of an agent is a promise of the runtime; a watcher per task waits for
  it, decides the outcome and writes the row. What the agent does is read from its
  log, or streamed from a buffer, under numbers the page uses to merge the two.
- After its transaction every mutation of a workflow nudges the engine, which
  dispatches what has become eligible. A coordinator is an agent like any other:
  it edits its workflow through the CLI while other nodes run.
- Agents, tasks and sessions are launched with what the rows of the catalog say
  they need; plans made from upstream and applied later change those rows.
- `emploke start` writes `runtime.json`; every other command finds the server
  through it. `gracefulShutdown` stops the listener, tells the tasks to stop,
  waits for them and closes all contexts.

### What is hard, and what must be true

**Workflow.** Two dispatches of a node; a dispatch racing an edit or the end of
the workflow; a report for a node that was cancelled meanwhile; edits that leave
cycles or orphans or pull the justification from under a started node; a node
added after its last parent has ended; a retry count that is reset or runs on for
ever; a death between a commit and what follows it. Correct means: the graph is
a rooted DAG; a node is started at most once, only while the workflow runs and
only when its parents justify it, which stays true; what has started is sealed;
nothing eligible is forgotten; the end leaves nothing pending; retries count up
to the cap, and a workflow that stands still does so for a known reason.

**Runners.** Polls that overlap, and fail; a cancel during the dispatch; a task
deleted by a user; a reconciliation that waits for one runner after another.
Correct means: one report per node, somebody who will end each node that runs, no
agent at work for a node that is over without a reason, and the workflow keeps its
contract.

**Task.** Cancel, delete, shutdown and the exit of the agent meet a dispatch at
any of its awaits; launches and saves fail half way; the server dies anywhere.
Correct means: one call owns the kill, outcomes are final and have a cause,
shutdown reaches all, `liveCount` sees every process, calls return.

**Activity.** Answers and frames in any order, for a task that is no longer the
one shown. Correct means: only the task that is shown, each item under the number
the log has for it, and a page that goes on polling while its task runs.

**Schedule.** A patch, delete, run or shutdown while a fire awaits its dispatch;
timers that are late or too far away; a crash between a dispatch and its record.
Correct means: at most one unit at a time, one dispatch per slot, never early,
never for a disabled or deleted schedule; an enabled schedule always has a timer.

**Contexts.** Two first requests at once; an eviction during a load; a load that
fails half way; a close with ticks and agents under way; a shutdown that meets
abandoned requests. Correct means: one context at a time, none leaked, no stale
name, no agent without a supervisor that the sweep then fails, every call answered.

**Catalog.** Upstream changes, another request installs or deletes between plan
and application; a fetch in the middle fails. Correct means: rows name only rows
that exist, an undisturbed installation is complete, a sync deletes only what
nothing else needs, and what is taken for ready is.

**Sessions and trust.** A session is a row, a directory, a state of the runtime
and an agent, that come and go one at a time; the trust of a folder is a
read-modify-write of a file that other programs write. Correct means: what is left
on the disk can be purged again, and no launch takes away a folder that is trusted.

**Server and CLI.** Commands that fail or are interrupted between the spawn of a
server and the write of its file; servers that do not boot, crash, or do not
stop. Correct means: `runtime.json` names the server that lives, and what a
command says of its process is so.

**Requests.** Two programs on each side of one wire, written apart. Correct means:
what a client sends its route understands, a refusal that is explained has changed
nothing, and an edit writes what its user named, and no older value but where it has to
send one along.

`PROJECT.json` lists these hazards at their lines.

## 2. The modules

| Module | Stands for | Extends or instantiates |
|---|---|---|
| `WorkflowDag` | the pure graph tests of `workflow/src` (cycle test, leaves, parents ready) | |
| `Workflow` | one workflow: its rows, the mutations, the dispatches, the stuck detector | `WorkflowDag` |
| `WorkflowContract` | what a workflow promises its readers: the life of the header and of each node | implemented by `Workflow`, and by `WorkflowRunner` |
| `WorkflowRunner` | the two node runners between a workflow and its tasks | the workflow is a `WorkflowContract`, the tasks a `TaskLedger` |
| `Task` | `TaskService` and the agent processes it supervises | |
| `TaskLedger` | what the task table promises its readers | implemented by `Task`, used by `Schedule` and `WorkflowRunner` |
| `ActivityLog` | the items read from an agent's log, and their paging | |
| `ActivityView` | the page of a task, the routes it reads, the live tail | `ActivityLog` |
| `Schedule` | `ScheduleService` for one schedule, with the handler for tasks | units of work are a `TaskLedger` |
| `WorkspaceContexts` | the registry, the life of a context, renames, unregister, `gracefulShutdown` | |
| `CatalogPlan` | what is installed and what upstream offers, closures and the plan between them | |
| `Catalog` | requests that make and apply plans, edit, flag and delete, interleaved | `CatalogPlan` |
| `Sessions` | sessions, registration of workspaces, the file of trusted folders | |
| `ServerLifecycle` | start, stop, restart, status, and the servers | |
| `ApiBody` | bodies and queries as functions from fields to forms of values, and the checks of both sides | |
| `ApiSchedules`, `ApiTasks`, `ApiWorkspaces`, `ApiWorkflows`, `ApiCatalog`, `ApiPages` | the checks of a domain's routes, and what its commands, forms and pages send | `ApiBody` |
| `ApiErrors` | error classes, policies and the list of names whose message is told | |
| `ApiRequests` | the table of routes, and every request that can be made | the six above |
| `Api` | two clients and the server, over one thing of any kind | `ApiRequests`, `ApiErrors` |
| `MC*` | values and symmetry for TLC | the module named after `MC`; `MCWorkspace`: `MCSchedule` and `Sessions`; `MCServer`: `MCApi` and `ServerLifecycle` |
| `*Proofs` | theorems | the module they are named after; `RuntimeProofs` is about `Sessions` and `ActivityView`, `ServerProofs` about `ServerLifecycle` and `Api` |

Beside some definitions stands a variant of it with a plausible mistake
(`NextRunFrom` beside `NextRun`, `EscalateInVain` beside `Escalate`). No action
uses it; under "mutants" `PROJECT.json` names the property that it breaks.

### Grain

What can be interleaved is decided by where the code waits, so each module says
what one step is.

- `Workflow`: `better-sqlite3` transactions are synchronous, so a transaction is
  one step. A call that commits and goes on to dispatch a node in the same turn
  leaves the node in `turn`; until it is dispatched nothing but a crash can
  happen. A tick of the engine is `Tick`: it takes the eligible nodes and leaves
  one `dispatchAtomic` call each in `calls`; each of these re-checks its node
  when it runs, by which time the rows may have changed. `nudged` says that a
  tick is queued, or owed by a call that has committed. `watch` holds the nodes
  some runner of this process polls: `MarkNodeTerminal` takes its reports, late
  and for nodes cancelled meanwhile too. `targets` is what `reconcileCancel` has
  yet to visit.
- `WorkflowRunner`: `dispatch[n]` is where `runner.dispatch` is (before the row,
  after it, returned); `timer` the handles in `intervals`; `polls[n]` counts
  polls that read a running row and wait for the metadata; `kill[n]` is where
  `runner.cancel` is, "vain" if the task service could not be asked yet.
- `Task`: the repository answers at once, so a step runs to the next file,
  process or network operation. `dispatch[t]` is where the call that minted `t`
  is; `live[t]` is the entry of `ctx.live` with its kill reason; `watcher[t]` is
  the function that waits for the exit; `purgeQueue` the tasks chained on the
  purge promise. `Reboot` forgets the memory, stops the processes, and runs
  `recoverOrphaned`.
- `ActivityView`: the two reads of a refresh are answered one by one. The status
  of a task may be old when it arrives; a page of activity is read when it
  arrives; a frame arrives with its event; React runs the effects of a change
  with the change.
- `Schedule`: only the dispatch of a unit waits. A chain is a timer or the
  `fire()` it became, which re-arms it; `mapped` is the chain whose timer
  `this.timers` knows. The clock is a number, a trigger the set of its slots,
  and timers may be as late as they like.
- `WorkspaceContexts`: a step runs to the next wait for something outside the
  process. Continuations of promises that have settled run first (`Turn`), which
  is what the order of `await`s in `get`, `invalidate` and `closeAll` relies on.
- `Catalog`: what a request does between two fetches is one step. A plan is made
  at once, kept under a token, and applied entry by entry.
- `Sessions`: each operation on the disk, a database or the lock is a step, with
  its failure as the other outcome. `left` holds the sessions that the code itself
  means to leave on the disk, or whose leftover is known: archived ones, creations
  cut short, agents that write after the purge.
- `ServerLifecycle`: each read and write of `runtime.json`, each signal and each
  answer of a probe is a step. A server has the name of the command that spawned
  it, so a process id is never reused.
- `Api`: the server serves a request in one step, or in two where the route asks
  again after the change. A client that reads before it writes has a step between.

### The state of a model and the state of the code

Only data that the properties tell apart is kept. A node's spec is the agent it
names; a task's outcome is a status with the kind of its cause; a cron
expression is a set of instants; a workspace's name is the number of renames; an
entry of the catalog is its version, its dependencies and its prerequisites; a
value in a request is its form (a text, several lines, white space, nothing, a
number, null, ...), because no check of this code tells two texts of one form
apart. Ids are numbers in the order of their creation. The order of `ended_at`,
which the stuck detector asks for, is kept as `lastEnded`. A call that is refused
changes nothing and is not a step, except where the refusal itself is what a
property is about (the answers of `cancel`, and all of `Api`).

History variables, which the code does not have: `crashes`, `reboots`, `patches`,
`restarts` and the like count against a bound; in `Schedule` `cut` names units
whose dispatch a crash cut off, and `overlapped` says that a patch or a delete has
come while a dispatch was under way; in `ServerLifecycle` `overlapped` says that
two commands were under way at one time and `unwritten` that one ended between
spawn and write; in `Sessions` `raced` that a file was created over one that was
there; in `ActivityView` `crossed` says that an older page was asked for
before a switch, and the `sound` of an item and `exact` of a stream that it came with
a page, or with a stream that began where the log was; in `Catalog` `calm` holds
the requests that nothing overtook. They occur in guards only to bound the runs,
and in properties to say when a property is claimed.

### Abstract specifications

`WorkflowContract`: the header is created running and ends once; a node is born,
starts at most once and only in a running workflow, ends once, and may be
removed only unstarted. `Workflow` implements it (`KeepsContract`), with a life
per node that tells a removed one from one never born. `WorkflowRunner` takes its
state from the contract and shows that the reports and cancels of the runners stay
within it.

`TaskLedger`: a task is recorded before anything works for it, nothing works for
it once it is recorded as ended, an outcome never changes, and a row that was
removed stays away; a restart may fail what was running. `Task` implements it
(`KeepsLedger`, proved). `Schedule` and `WorkflowRunner` take their tasks from the
same module, so that what they rely on is what `Task` gives.

## 3. The runs

Each run asks one question, or two where two parts are checked in one run (`workspace`,
`server`). Those two parts share no variable, and one of them moves only while the other
has not begun, so the run visits the states of each and no products. Deadlock is not checked in any of them: all these
systems may really stop (no more callers, the workflow over, the server gone),
and what must happen is stated as liveness where it can be. Every counter that
limits a run is a constant of its module, with a name that begins with `Max`.

| Run | Question | States |
|---|---|---|
| `workflow` | is the graph sound, is only what is justified started, is nothing eligible forgotten, what is left at the end | 365 k |
| `workflow_runner` | is every end reported once, has every node that runs somebody to end it, does an agent outlive its node | 382 k |
| `task` | has every process somebody to end it and every outcome a cause; do `cancel` and `shutdown` answer | 692 k |
| `activity` | does the page of a task show that task, under the right numbers, and learn of its end | 3,768 k |
| `workspace` | of a schedule: one unit at a time, one per slot, always a timer, nothing early; of sessions: can what they leave be purged, does a trusted folder stay trusted | 1,340 k |
| `contexts` | one context at a time, none leaked, none out of date, every call answered | 390 k |
| `catalog` | do rows name rows, is an installation complete, does a sync spare what is needed, is *ready* ready | 2,533 k |
| `server` | do both ends of the wire mean the same; what has a refusal, or an edit, changed; is the living server the one of `runtime.json`, and what a command says so | 1,903 k |

**`workflow`**: four nodes, three of them the callers'; retry cap 2; batches of
up to two nodes with up to two edges among them; one death of the process at any
point, after which nodes that ran are watched by nobody, which is what the code
does too. Three nodes are the least with a chain, a fork and a join; a cycle
through a batch needs two. A transaction that would need a fifth row does not
happen in this run, so a second retry, and the failure past the cap, are met below
up to two nodes of callers, not below three. The proofs have no such limit.

**`workflow_runner`**: a worker and a coordinator, since one node of each kind is
the least in which the end of the workflow spares the one and not the other, and
the reconciliation waits for one runner before it turns to the next. Two polls that
fail exhaust the error budget of the instance; a user may cancel the task of a node
itself; a poll that waits for metadata
beside a later one is enough for two reports. One restart.

**`task`**: two tasks, one of a schedule (so that a delete of the schedule meets
the other at work); two callers of `cancel`, since the answer to the second
depends on the first; one `shutdown`; all ways to exit; saves of an outcome and of
the session id that fail; clients that die before `session.idle`; one restart. A third task would meet
no code that a second does not: calls share `ctx.live`, which is keyed by task, and
`purgeQueue`, in which two tasks already have an order. An agent whose session id could
not be saved is in no list and counts as one nobody attends to (`Forsaken`).

**`activity`**: two tasks and three switches between them, the least to leave a
task and come back to it; pages of one item, and two events beside those that the logs
begin with, of kinds that make one item, none, or complete an earlier one; two requests
whose answers are out when the user goes on, and one break of the stream. Reads may
fail, and a task may be deleted once it has ended.

**`workspace`**, the schedule: three instants, with triggers for each of them and for the last
only; a caller of `run`; three units; two patches, the least with which a lost timer
can itself be replaced; one crash. `OneAtATime`, `SlotOnce`, `FiresOnTime` and
`NextIsNextRun` are claimed while no patch or delete has met a dispatch
(`overlapped`); `comment_OneAtATime` shows what happens otherwise. `SlotIsWatched`
needs no such proviso. `MaxDelay = MaxTime` leaves out delays that `setTimeout`
cannot keep (section 6).

**`contexts`**: three requests, each a get, rename, unregister or reload, beside
`gracefulShutdown`; one task; three contexts, as the third is the first that two
evictions can race for. Loads fail at each of their stages.

**`catalog`**: two agents, two skills and an MCP; two requests, which may overlap;
two publications upstream, which change dependencies and prerequisites, rename an
entry or remove it. A plan that goes stale needs one request and one publication
between its two halves; a deletion under an installation needs two requests.

**`workspace`**, the sessions: one session in each of two workspaces and three calls: one that is cut, one
that comes between and one that tries to clean up. Every step may fail, and the
server may stop at each.

**`server`**, the commands: four of them. Two overlap; the third finds what they left; the
fourth finds what the third made of it.

**`server`**, the requests: two clients. The first makes one request, any that a command, form or page
can make, on each route; the second makes up to two well-formed ones. Nothing survives
a request but the thing it is about, so what a request can meet is a change between
two of its client's or the server's steps, for which one other client is enough.

Four more runs check a statement of the repository that the code does not bear out.
Each is expected to find a counterexample; `findings` in `PROJECT.json` quotes the
statement.

| Run | What it shows |
|---|---|
| `comment_OneAtATime` | a patch of the trigger during the dispatch of a fire leaves two timer chains, one of which nothing can cancel; both may dispatch |
| `comment_LocalIsAcyclic` | skills installed at different times come to depend on each other among the rows, though "the local catalog is acyclic by construction"; in the trace upstream has a cycle itself at the second installation, which takes what is installed as it is and does not see it |
| `comment_SeqIsCanonical` | a stream numbers its items from the number of *events* in the buffer, so one event that makes no item puts the next frame under a number the log gives to another, though "`seq` is the canonical pagination cursor and matches what `streamActivity` would yield" |
| `help_OtherHalfIsPreserved` | `--cron` alone writes back the time zone it read (and `--tz` the expression), over what another client wrote in between, though its help says "preserves existing tz" |

## 4. Fairness

Liveness is checked in `workflow`, `workflow_runner`, `task` and `contexts`. All
fairness is weak: an event loop runs what is queued, and what is queued stays so.

- `Workflow`: the rest of a synchronous turn, a queued tick, an outstanding
  `dispatchAtomic` and the reconciliation of a node run. A tick is owed by the call
  that nudges it: it follows dispatches which that call awaits, and
  `runner.dispatch` returns. Callers owe nothing, and no node has to end.
- `WorkflowRunner`: a dispatch comes to an end, an interval ticks, a poll that reads
  metadata gets them, an agent *told to stop* does, the outcome is saved, and
  `reconcileCancel` goes on to the next node. An agent that nobody stops may work
  for ever: `NodesComeToAnEnd` speaks of nodes whose task has ended.
- `Task`: a call goes on when its file or process operation is over; the watcher
  sees an exit; an agent told to stop becomes idle and exits. Saves may fail, and
  nobody has to call anything. Where a client dies before `session.idle`, `exit`
  never settles and nothing is claimed for the calls that wait for it.
- `WorkspaceContexts`: continuations run; loads come to an end, well or badly, and so
  do ticks and catch-ups, since a dispatch returns once its agent is launched. Agents
  may work for ever: `close` does not wait for them.
- `Schedule` states none. That something *will* happen is the invariant
  `SlotIsWatched`: a timer is armed, or a fire that will arm one is under way.
- The other modules state none. Requests fail and are not retried; what a page must
  learn in the end is the invariant `QuietPageKnows` about a page with nothing under
  way.

## 5. The proofs

The theorems hold for every value of the constants that satisfies the `ASSUME`s of
the modules. `PROJECT.json` lists them. Each rests on an inductive invariant that is
a conjunction of layers, most of them proved one on top of the other.

**`WorkflowProofs`** begins with the graphs. An edge that `wouldCreateCycle` lets
through closes no cycle in an acyclic graph, and one it rejects would. Acyclicity is
stated without paths: every non-empty set of nodes has one without a predecessor in
the set. So no induction over the length of a path is needed, not even for
`LeafExists`: without a leaf some set of nodes would be the smallest that is not empty
and holds a child of each of its nodes, and a smaller one is left when the node
without a parent is taken out.

`TypeCorrect`, `GraphStaysRooted`, `StartsStayJustified`, `SealingHolds`,
`RetriesCount`, `ContractIsKept`, `EndLeavesNothing`, `RestIsExplained`. The invariant
joins the types, the soundness of the rows (`SoundRows`: an acyclic, rooted graph over
existing rows, ids handed out in order), `Justified` (which is `StartJustified`) and
the fact that only started nodes are watched. They need each other: `removeNode` drops
edges into nodes it does not look at, and that none of those has been started follows
only from `Justified`; a report may end a node without harm only because what is
watched has been started. That `Workflow` implements its contract needs besides what a
step does to the history of nodes (`Untouched`, `Grows`: ids grow, a row that is gone
stays gone, a new one is not started) and that one step starts one node at most.
`RetriesCount` adds `Chained`: the count of a retry continues that of the coordinator
it retries, which is over, and a removed row has no retry data left.
`EndLeavesNothing` strengthens its property by the list that `reconcileCancel` works
through (`Pursued`). `RestIsExplained`, which states `QuietExplained`, adds `Rested`,
what a running workflow is owed while no process has died: after each step the stuck
detector has seen the rows as they are, whoever became eligible is on its way to
`dispatchAtomic`, and the initial coordinator has been started. When nothing is left
to do, a node above which none is pending is the blocked worker of the property; if all
are over, there is a leaf, and what the detector did not act on has a coordinator among
several leaves.

**`TaskProofs`**: `TypeOK`, then which stages of a dispatch go with which rows,
directories and processes (`Staged`), then who has been told what (`Handled`,
`Told`). On it rest `EntriesStayRunning`, `ShutdownReachesAll`, `OneCallIsTold` and
`LedgerIsKept` (initial states map to initial states, steps to steps or stutters).
`OutcomesHaveCauses` adds `Caused`: whoever asks for a kill has left the reason
before there is an outcome. Whatever saves fail, `LiveCountIsComplete` and `LedgerIsKept` hold
of all agents but those whose dispatch threw when the save of the session id failed
(`Forsaken`, which `Staged` ties to that stage of a dispatch): the code accepts such an
agent without an entry (`task/src/task-service/dispatch.ts:241-242`), and nothing is
claimed of it.

**`ScheduleProofs`**: `Typed`; `Sound` (a fire in its dispatch owns its unit, and no
two calls own the same); `Watched`; and what holds unless `overlapped`: one chain,
one busy unit, nothing busy once deleted, fires that saw the trigger the row still
has. `SlotStaysWatched` and `LostTimersAreHarmless` need only the first three, so they
hold through any patches. `InOrder`, again unless `overlapped`, adds that slots are
handled in increasing order. `SlotsAreDispatchedOnce` and `FiresAreOnTime` assume
`MaxTime <= MaxDelay`: `setTimeout` keeps every delay asked of it.

**`WorkspaceContextsProofs`**: a context in neither `entries` nor `inflight` has
nothing open (`OneOfTwo`); which modules each stage of a load has opened (`Stages`);
ticks run only over open modules (`TicksInOpen`); calls waiting to close refer to the
context they took out (`ClosersInTurn`); a request uses a context that was ready. A
second invariant, about the row, gives `UnregisteredStaysClosed`. A third gives
`RequestsSeeNames` (`Named`): the name a rename wrote is never ahead of the row, and
ahead of a context only while that rename is about to close it.

**`WorkflowRunnerProofs`**: `TypeOK`, the properties themselves, and `Linked`: which
stage of a dispatch goes with which row and timer, and that the cancel of a node that
found nothing to cancel is the only one after which a launch may still come. From it
follow `NodesAreReportedOnce`, `NodesAreWatched`, `AgentsAreExplained`, and
`ContractIsKept`: with its runners a workflow still implements `WorkflowContract`.

**`ServerProofs`**, over the process: a command spawns once, before anything names its
server (`SpawnsOnce`), so a server that died stays dead; what a command knows to be dead
when it goes on to delete (`KnownDead`); and, where commands take turns, what the file
names by where the one under way is (`FileIsKnown`). `ServersStayFindable` follows.

Over the requests, the greater part is about no step at all: `RequestsWellMade` says of
every request a command or a form can make that it writes only what its user named, or
what goes with it, and has the shape its route takes unless a command left an option to
the server. It is proved command by command and form by form, from what is typed,
through the body that is made of it, to the check of the route, by what a body *holds*:
a field of a body that is put together is a field of one of its parts
(`HoldsOver`). The invariant (`ApiInv`) then carries this from the making of a request
to its service, across the reading before it and whatever the other clients write in
between, and adds where a call stands: it has changed nothing until it is served, and
between a change and the question after it there is only one route (`run`) whose change
is another thing: if the thing is removed in between, what a request did to it is gone
with it, and what `run` launched is left without its schedule (`Orphaned`). From it follow `ShapesAgree`, `RefusalsAreHarmless` (which needs
the statuses of two answers, computed through the ordered rows of their policies) and
`EditsAreNamed`, for any number of clients, of requests and of kinds of things. The last
is exact: what an edit writes is its own value of a field its user named, or, for half of
a trigger or a whole form, the very value read before, which may undo what was written
since; that the code writes such a value back where it should not is what
`help_OtherHalfIsPreserved` shows. One
assumption limits what may be followed: of a trigger both halves or none, since the code
edits them as one (`ApiAssumption`). A value is one of the forms of
`ApiBody`: the theorems are about every combination of forms, not about every text.

**`RuntimeProofs`**, over sessions: what stands on the disk at each step of a creation
(`Made`), of a purge (`Emptied`), and who holds the lock and what it has read
(`Locked`) give `NothingGetsLost`. Over the page of a task: at most one request counts
and the flag is up exactly as long as it is not settled (`Asked`), and a page that does
not know the status of its task has asked for it (`Owed`), which gives `QuietPagesKnow`;
`OthersStayHidden` and `NumbersAreExact` follow the answers and frames from where they
are made to where they are merged. The latter needs to know what the parser makes of
one more event, for a log of any length: that an item keeps its number while the log
grows, and that a stream that began with the right number goes on with it (`Tailed`).
It says so beside streams that began with a wrong one, whose frames the page merges by
number too: what it vouches for are the items that carry `sound`.

**`CatalogProofs`**: `CatalogInv` has three parts. The rows: each says what its author
once declared, less what was not installed, and names only rows that exist. The
requests: each has written, or failed at, exactly the entries of its plan that its
`todo` lacks. And, for a request that nothing overtook, whose plan has no conflict and
that has not failed: its plan lists an entry after what it depends on, what it has
written is complete (`Promised`), and what it flags as orphaned is referred to by the
root alone, which is still to be written (`Loosening`). `DependenciesAreInstalled`
needs the first part, since a deletion asks the rows and an installation links only
to rows; `AppliedPlansAreComplete` and `FlaggedOrphansAreLoose` need the last, which
rests on what a plan is for closures of any depth, with diamonds and with cycles
(`ClosureSound`, `PlanOrdered`, `PlanOrphans`). `ReadyAgentsAreAcknowledged` rests on
`LaunchableIsClear`: if the walk that computes the status of an entry finds nothing, nothing
it can reach has a reason to block, also where the walk met itself. That is so of a walk
with a context of its own, which `getAgentEntry` gives the launch. `listAgentEntries`
tells all agents in one context, and keeps what a skill was told while another was in
flight; its part of the property (`ListedIsClear`) supposes rows without a cycle, and is
violated without.

Two of the assumptions say what the code relies on: a skill names no agents
(`KindsAssumption`, the parser of its frontmatter), and what an entry depends on does
not change unless its version does (`VersionAssumption`, which `nodesAreUpToDate` of
`facade/resolve-pipeline.ts` takes for granted; without it an entry that is up to date
could still refer to what the plan calls an orphan).

**Recursion.** The closures, the status of an entry and the parser of a log are
recursive functions. The provers cannot use an induction theorem, which takes an
operator as a parameter. Where a proof needs one, the property is written as a set of
natural numbers (the depth of a walk, the length of a log) and the least of the
counterexamples is refuted (`LeastNatural`): that such a function satisfies its
equation is proved that way too (`WalkExists`, `CascadeExists`, `RoundsExist`), and
not assumed.

**Only model-checked**: liveness (`EligibleIsDispatched`, `NodesComeToAnEnd`, both
`CallsReturn`), because fairness and `ENABLED` are out of the prover's reach. Every
other property that a passing run checks is the conclusion of a theorem.

## 6. What is left out

Of the parts that are modelled: wording and layout of rows, files and messages;
validation that looks at the characters of a text; the arithmetic of cron and time
zones; the deadline after which `gracefulShutdown` exits with 1; reuse of process
ids; several workspaces where they share nothing but maps keyed by workspace.

Of the others: the fetchers are HTTP clients whose answers `Catalog` takes as good or
bad; the terminal starts a program; of the dashboard, what it sends and the page of a
task are modelled, the rest being layout and state that lives in a single component
(below is what reading it showed); the agents and skills are prose; the template, the
scripts and the end-to-end tests run the program.

### What reading the code showed, and no property states

Workflow and runners
- A `not_started` worker below a failed node can never start, and keeps the stuck
  detector from acting: the workflow runs for ever with nothing alive. `QuietExplained`
  allows for it.
- After a restart nothing re-arms the engine (`workflow/src/_engine.ts:98`), and
  running nodes have no poller; the pollers of the old context go on over a closed
  database. `NodeIsWatched` and the liveness of `Workflow` exclude it.
- `coordinator_agent` of a workflow is not updated by `removeNode`.
- One failed `getTask` ends the polling of a task for good.

Tasks and runtime
- A launch that fails removes the directory and leaves the row running until the next
  boot; one whose session id cannot be saved leaves an agent without an entry
  (`task/src/task-service/dispatch.ts:249`).
- A client that dies before `session.idle` leaves `exit` pending: the task runs for
  ever, and so do its cancel and the shutdown.
- A reconnection that sends `Last-Event-ID` goes on with the next event, not with the
  next item after that number: what was logged during the break is missed live, and
  shifts the numbers of what follows (`runtime/src/copilot/copilot-runtime.ts:613`).
- A stream that begins after a tool was called does not know the call, and makes a
  new item of its end (`runtime/src/copilot/activity.ts`); the log completes the old
  one.
- `loadOlder` compares no task (`dashboard/src/hooks/useTaskDetail.ts:104-123`): older items of the task left
  behind are shown under the new one, which `crossed` excludes from `NothingForeign`.

Schedules and contexts
- A slot further away than 2^31-1 ms (24.8 days) fires after 1 ms, and again each time it
  is armed. `Timer` models it; with `MaxDelay` below `MaxTime` the run finds `FiresOnTime`
  and `SlotOnce` violated. No statement of the repository says otherwise.
- A slot skipped because work is in flight stays in `next_fire_at`, in the past.
- `schedule.close` does not await fires under way, which
  `api/src/workspace-context.ts:47-50` says it does (see also
  `schedule/src/schedule-service.ts:272`).
- `get` during a close hands out the context that is being closed. `liveCount` does
  not count a dispatch that is still resolving its agent.
- A context closed by a rename leaves its agents without a supervisor, and the next
  load fails their rows while they work.
- `server/src/index.ts:392` says that no dispatch can land after `tasks.shutdown`; a
  request whose client is gone can still be on its way, and an abandoned `reload` may
  build a context after `closeAll`.

Catalog
- `applySync` deletes, then installs: an error in between leaves what was done. A
  conflict is answered 201 with nothing installed.
- A sync whose identity changed plans for the root only; nodes that are up to date are
  not linked again; a renamed origin leaves two rows; a fetch that failed can raise the
  orphan flag.
- `computeReverseDepIndex` (`facade/catalog-service.ts:641-673`) leaves out every row
  with the root's origin. After a rename has left two, the second may still refer to
  what a sync flags as orphaned; `OrphansAreLoose` is claimed for a root with one row.
- `findByOrigin` compares spellings, `sameOrigin` does not. `updateAnchor` keeps the
  acknowledgement of prerequisites. Over a cycle, the cached status of an entry in a
  list depends on where the walk began: with agents X above A and Y above B, A and B
  above each other and A not acknowledged, Y is listed as ready. A launch asks
  `getAgentEntry` and refuses it.

Sessions and trust
- `trust.ts:115` writes `{}` before the lock is taken, over an entry that another
  process may just have made; `raced` excludes it. A lock is stale after 30 s, longer
  than the retries last. A `config.json` that cannot be parsed is replaced.
- When one step of provisioning fails, its siblings go on writing (`Promise.all`).
- A fault of the database in `loadSession` is answered as 404, or as an empty list.
- Purging a workspace leaves the runtime's state of its sessions. Opening a session
  does not ask whether its agent is already at work; a terminal that fails after
  350 ms is reported as opened.

Server and CLI lifecycle
- Commands that overlap lose servers: of two starts, the file may name the child that
  lost the port while the other answers the probe (`start.ts:175`); the clean-up of
  `status` (`status.ts:45`) and the delete of `stop` (`stop.ts:85`) can delete the file
  of a server that has just started. A start that is interrupted, or cannot write,
  between spawn and write (`start.ts:159-175`) leaves a server nothing names. The probe
  of health does not ask who answers. `overlapped` and `unwritten` exclude these.
- `logs -f` detects rotation by a file that shrinks or vanishes (`logs.ts:6-8`), but the
  logger goes on under another name.

Requests
- Some refusals say nothing: `WorkflowDagInvariant` is a 409 "internal error", two spec
  errors are a bare 400, and so are faults of the disk in a purge after which the
  runtime's state is gone.
- Some come late: a 404 of `run` after the launch, where another client has removed the
  schedule in between (the task works on without it); a sync that has used up its plan.
- Reading an entry and then its content can meet a deletion. A CLI answer that holds a
  field `error` is taken for a refusal. `workspacePrefix()` is global to its module.
- Exit codes of the CLI differ between commands for one kind of failure; a session that
  could not be opened exits with 0.

Dashboard
- `useTasks.ts:70` drops the refresh for a filter that changes while one is under way,
  and its token check compares a closure with itself. `Schedules.tsx` and
  `LandingPage` take answers in any order; a toggle rolls back to what it saw.
- `DetailDialog` returns to its preview after an application that failed, with a token
  that is spent; `InstallDialog` stays in "applying", and shows a preview that arrives
  after it was closed and opened for something else.
- `PatchDialog` sends its whole form, and names of dependencies where the server expects
  origins, which it then drops.
- `DispatchModal` loses what was typed when its list of agents changes.

## 7. What could come next

- The lists of the dashboard that poll, as a module beside `ActivityView`.
- A configuration of `Workflow` with five rows, three of them callers', for machines
  with more time than a few minutes.
