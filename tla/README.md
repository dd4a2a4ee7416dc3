# SteerMyWheel: a TLA+ verification project

SteerMyWheel (C#, .NET 7, `src/SteerMyWheel`) reads the crontabs of remote hosts, keeps
hosts, scripts and repositories in a graph, migrates scripts to a git server, and runs
*workflows*: chains of dated steps (wait for files, run a command, transfer a file, send
a mail) over SSH or locally.  This directory models the parts of it where order,
concurrency and failure matter, checks the models with TLC, and proves the properties
that matter most with TLAPS.

## 1. Inventory

Sources are below `src/SteerMyWheel/`.

| Part | State it keeps | Operations | Hard behaviour |
| --- | --- | --- | --- |
| **Workflow engine** `Core/Services/WorkflowQueue.cs`, `Core/Model/Workflows/{BaseWorkflowContext,WorkflowStateContext,WorkflowThread}.cs`, `States/`, `Factory/` | a queue of contexts that is never dequeued; per context a state object, the current workflow, a cancellation token | `Enqueue`, `Process`, `setState`, `Dispose` | bodies side by side under `Parallel.ForEach`; an `async void` handler that turns a step's exception into a later crash; cancellation; a second `Process` |
| **File monitoring** `Abstractions/AbstractMonitorFilesWorkflow.cs`, `Monitoring/*`, `States/MonitoringWorkflowState.cs` | the set of paths still awaited, the flag `_CanGoNext`; in the monitoring state, the context's reset event | `MonitorAsync`, `onFileIsPresent`, `onAllFilesArePresent`, `HandleAsync` | one thread per path, an unlocked read-modify-write of the paths, a directory missing half-way |
| **Task scheduler** `Core/Services/WorkflowSchedulerService.cs` | a locked list of tasks, a count of delegates, a thread-static flag | `QueueTask`, the delegate, `TryExecuteTaskInline`, `TryDequeue` | lost wake-ups, inlining against dequeuing, blocked pool threads |
| **Workers queue** `Core/Model/WorkersQueue/*` | a FIFO of workers, a semaphore | `Enqueue`, `DeqeueAllAsync` | the count is read outside the semaphore; a worker that throws; a timeout between two workers |
| **Cron reading and discovery** `Core/Model/CronReading/*`, `Core/Workers/Discovery/*`, `Core/Services/CronDiscoveryService.cs` | a reader context (current host, current role, state object) shared by every worker | `Initialize`, `setState`, the reader states, `Parse`, `Discover` | the shared context is re-targeted while another host is read; a role that outlives its host; an initialisation that always throws |
| **Graph repositories** `Infrastracture/Connectivity/Repositories/*` | hosts, scripts, repositories and their relations, in Neo4j | `Create`, `Link`, `Delete`, `GetAll`, `CreateAndMatch` | uniqueness constraints, a shared client disposed by every call |
| **Script synchronisation** `Core/Services/ScriptSyncService.cs` | the git workers queue, a dataflow pipeline | `generateGraphRepos`, `syncRepos`, `generateMigrationWorkers`, `reflectToGraph` | faults that complete a pipeline, several calls and discovery on one graph |
| **Git migration** `Core/Workers/Migration/Git/*`, `Infrastracture/Connectivity/Git/*` | a local clone (working tree, index, commits, remote), a remote repository | `doWork`, `syncMachineAndGit` | stages that are not awaited, commands whose failure nobody looks at, pushes that outlive the worker |
| **File transfer** `SSHClient.DownloadDirectory`, `Workflows/FileTransfer/*` | local files and their `.bak` copies | `DownloadDirectory`, `Upload` | two failed downloads in a row, a crash between two file operations, a dot file that ends a loop |
| **Connections** `Infrastracture/Connectivity/ClientProviders/*` | SSH, SFTP, HTTP and Bolt connections | `ConnectSSH/SFTP`, `GetCronFile`, `FileExists`, `ExecuteCmd` | sessions that drop between two steps |
| **Graph-based SSH migration** `Core/Workers/Migration/SSH/*` | dataflow blocks | not finished in the source | — |
| **Entities, configuration, mailing, `WinAPI`, `Program`** | data | none that keeps state | — |

How the parts interact:

- A client builds a context with `WorkflowContextFactory`, gives it a name and a token
  (`Initialize`), and hands it to `WorkflowQueue`.  `Process` hands every context to a body of
  `Parallel.ForEach`; the body drives the context by `setState`, and the context calls its
  state's `HandleAsync` from an event handler that is `async void`.  Running a step is
  `Workflow.Execute(context).Wait()`; a monitoring step starts threads of its own and returns.
- `CronDiscoveryService.Discover` makes a `CronDiscoveryWorker` and enqueues it in a
  `WorkersQueue`; the drain of that queue runs it.  Constructor and `doWork` both initialise
  the *one* `ReaderStateContext`, whose states write to the graph repositories.
- `ScriptSyncService` reads and links the graph; it would make `GitMigrationWorker`s, enqueue
  them in a second `WorkersQueue` and drain it for 90 s, if its first block did not throw (see
  *Not modelled*).  A worker runs git through `WinAPI.system`.
- A download is a step of a workflow; it uses an `SSHClient` that a monitor may have used.
- `WorkflowSchedulerService` is a `TaskScheduler` of its own; nothing in the repository
  schedules on it yet.

What makes each part correct:

| Part | Properties |
| --- | --- |
| Workflow engine | steps in order and once, through exceptions and retries; complete before disposed; a cancellation stops the chain, and traps its context; `Process` returns and leaves nothing undone |
| File monitoring | never finished before every file was found; finished once every file was found; a watched file is noticed however late |
| Task scheduler | never more bodies than the level; no task forgotten, run twice or held back; tasks that wait for tasks do not lock the pool |
| Workers queue | first in, first out, one at a time; the permit comes back through every exception; a drain that returned left nothing; every call ends |
| Discovery | a script is stored under the host and role of the crontab it came from; what was read is stored; what is stored stays; every worker ends |
| Graph repositories | at most one node per name; a failed query changes nothing |
| Script synchronisation | what a call linked has its repository in the graph, once; every call comes back |
| Git migration | nothing goes to the legacy repository; what was there is committed and published; what a remote has it keeps; every migration ends |
| File transfer | the last good version of a file survives failures; a call that returned tried every file; every call ends |

`PROJECT.json` lists every component with its status and, under `hazards`, each place where
this code is hard to test, with the property that watches it.

## 2. Plan

Order of work, most important behaviour first.

Done:

1. `ChainRun`, `WorkflowQueue`, `WorkflowQueueProofs`: the engine and what it promises.
2. `LimitedPool`, `WorkflowScheduler`, `WorkflowSchedulerProofs`: the scheduler.
3. `MonitorFiles`, `MonitorFilesProofs`: the monitoring steps.
4. `SerialQueue`, `WorkersQueue`, `WorkersQueueProofs`: the workers queue.
5. `ScriptGraph`, `CronDiscovery`, `CronDiscoveryProofs`: discovery, with the part of the
   graph it writes.  `CronDiscovery` composes with the workers queue through the queue's
   promise (`SerialQueue`), not its code.
6. `Downloads`, `DownloadsProofs`: `DownloadDirectory` with failures between any two steps.
7. `GitMigration`, `GitMigrationProofs`: the pipeline of a migration worker, with the pushes that
   outlive it.  It too uses the workers queue through its promise.
8. `GraphSync`, `GraphSyncProofs`: `generateGraphRepos`, several calls at once, extending
   `ScriptGraph` by the repository nodes.
9. The proofs left from the first five: everything a run checks about the scheduler and the
   workers queue, liveness apart.
10. A promise for each of the other parts, and that the code keeps it: `FileGate` for the
    monitoring steps, `RepositoryLinks` for script synchronisation, `EditFlow` for the migration,
    `GraphSpec` of `ScriptGraph` for discovery, which is at the same time what `GraphSync` assumes
    of a discovery beside it.
11. That tasks waiting for tasks never lock the pool (`NeverLocked`), the safety behind the
    scheduler's liveness; that a cancelled context is trapped for ever (`TrappedStays`); that what a
    monitor has found stays found when it is executed again (`PathsShrink`).
12. The blocks of `generateGraphRepos` with their completions, one told by the other.

Left, should the code change: `syncRepos` once its first block works (it composes `GraphSync`,
`WorkersQueue` and `GitMigration`), and `MonitoringWorkflowState` once something enters it.

## 3. Modules and code

Each action is one handler or one step between two points where another thread can act.
`PROJECT.json` maps every definition to its lines.  Operators marked `Slip` are wrong versions
of the definition that follows them; no specification uses them.  Replacing a definition by
its slip makes the property named with it in `PROJECT.json` fail.

### WorkflowQueue (promise: ChainRun)

| State | Code |
| --- | --- |
| `chain`, `Workflow` | the list `CreateWorkflowTree` links, and `context.Workflow` |
| `State` | `context.State`: initial, running, finished, or `null` after `Dispose` |
| `Queue`, `snapshot`, `cursor`, `drained`, `faulted`, `status` | `_Queue` and one call of `Parallel.ForEach`: the enumerator's version, how far it got, whether a body or `MoveNext` has thrown |
| `pc` | where the body of a context stands |
| `unhandled`, `alive` | an exception of an `async void` handler waits to be rethrown, which ends the process |
| `done`, `late` | history: the steps that have returned, and those after a cancellation |

`Enqueue`, `Process` and `Cancel` are the client's; `MoveNext`, `MoveNextEnds`,
`MoveNextThrows` and `ProcessEnds` are `Parallel.ForEach`; the actions of `Body` are the lines
of the loop of `Process` and of `RunningState.HandleAsync`, with `ExecuteThrows` for a step
that throws and `DirectoryMissing` for the monitoring step that cancels its own context.  The
constructor of `WorkflowQueue` calls `TaskScheduler.FromCurrentSynchronizationContext()`
(`WorkflowQueue.cs:27`), which throws on a thread without a synchronisation context; the model
starts with an engine that was constructed.  Two things are left out: a client enqueues a context
once, though `Enqueue` would take it again, and `Parallel.ForEach` takes its elements one at a
time, where .NET reads ahead by chunks; the model has the enumerator become invalid at more
points than the code.  `ChainRun` keeps only chains, a clock, phases
and tokens; `ImplementsChainRun` maps `State` to the phase and `done` to how far a chain is.

### WorkflowScheduler (promise: LimitedPool)

Every access to `_Tasks` is inside a `lock`, hence one action.  `list`, `delegates` and
`processing` are the fields; `pending` counts the delegates the pool has not started;
`stack[w]` is what thread `w` is inside of, since a task that waits runs its child in place
(`WaitInPlace`) or blocks (`WaitBlocked`).  A task waits only for tasks it created, so tasks
cannot wait in a circle; that is a restriction on the clients, not on the scheduler.
`Leave` joins the decrement under the lock and the `finally` behind it, which resets a flag only
its own thread reads.  `LimitedPool` knows phases and slots; a slot is the first task of a thread's stack.  There is at
least one thread (`ThreadsAssumption`): a pool without any would never start a delegate.
`NeverLocked` says that while a task is not done some thread can go on, or the pool can start
a delegate.

### MonitorFiles (promise: FileGate)

`awaited` is the field `_Paths`, shared by all threads; the line
`_Paths = _Paths.Where(...).ToList()` is `ReadPaths` and `WritePaths`, the count is
`CountPaths`.  Local and SFTP workflows share the module (`remote`): they differ in the
connection, in which exceptions `Execute` catches, and in what `FileExists` does when the
session is gone or another exception comes from SSH.NET (`PollThrows` ends the process; in
`Execute` itself it is `GiveUp`).  The environment makes directories, lets files
come and go, and drops the session.  The engine executes the workflow again only after it
threw.  `Paths` is not empty (`PathsAssumption`): with an empty array no thread is started and
the flag is never set, which the model leaves out because there is nothing to interleave.
The loop over the paths takes them in any order, the code in the order of the list.
`FileGate` has no threads and no field: files arrive, paths are handled, the gate opens.  A path
counts as handled when a thread of its own has written the field without it, also if another
thread puts it back.

### WorkersQueue (promise: SerialQueue)

`semaphore` is the permit; `pc` tells where each caller of `Enqueue` and each drain stands.
`Guard` is the `while` condition, outside the semaphore; `Dequeue` and `DequeueThrows` are what
happens behind it.  `Expire` is the time-out of the drain's token.  Each worker is enqueued
once, by its own task: that is how the services use the queue.  The state of a worker while it
works is the business of the modules that describe workers.

### CronDiscovery, ScriptGraph (promise: GraphSpec)

Two threads share `hostName`, `currentRole` and `currentState`: the caller of `Discover`
(whose constructor call initialises the context) and the worker in the drain.  `setState`
assigns the field and then handles what the field holds *by then*, so assigning (`SetInitial`,
`ReadLine`) and handling (`HandleInitial`, `HandleRole`, `HandleScript`) are separate steps.
A crontab is a sequence of role lines, script lines and lines the parser cannot split.  The
queue is used through its promise: in order, one at a time, no `Enqueue` while a worker works.

Assumed: the unique constraints the repositories create exist; a query that fails is swallowed
(`lossy`), a connection that cannot be made throws (`Unreachable`); `setLoggerFactory` was
called.  What discovery promises the rest of the program is `GraphSpec`: hosts and scripts are only
ever added, a script that is there keeps its host, and each step adds by `Create` or
`CreateAndMatch`.  `AssignHostName` is the public setter of `currentHostName`.  Without it no discovery
works at all, which is what `fresh_context_refuses` shows.

### Downloads

| State | Code |
| --- | --- |
| `slash`, `client` | whether the remote path ends with a slash; `_sftpClient` and its session |
| `remote`, `local`, `bak` | the version the server has, the local file, its `.bak` copy; `Partial` is a file cut off or empty |
| `pc`, `at`, `todo`, `file` | the recursion: the directory whose loop runs, what each loop has still to visit, the file in hand |
| `good`, `rotations` | history: the last version a file had, and how often it was moved on since |

`VisitFile` to `FetchFails` are one file: delete the `.bak` copy, move, create, fetch; between any
two the process may die (`Crash`) and at each the local file system may throw (`LocalThrows`).
`VisitDot` is the `return` on a name that begins with a dot.  The path of a nested directory is
put together without a separator (`Right`).  A refusing local file system is a
nondeterministic choice.  Directories in `IgnoreDirectories` are not entered but copied like
files; the instance has none, the proofs cover them.  A blank remote path returns like a session that
is gone (`Call`); the local path is taken to be not blank.

### GraphSync, ScriptGraph (promise: RepositoryLinks)

`pc[k]` is the dataflow block that has the message of the k-th call, `over[k]` the blocks that have
completed or faulted, `call[k]` the caller, who waits for the second block and for the third.
`Works` is a block at its message.  `Ends` is the rest: a block completes (`Completes`) when it was
told to by the continuation of the one before (`Told`), which comes also when that one faulted;
the caller gets the exception of the second block (`Throws`) or comes back (`Returns`).  A block
that hands its message on completes in the same step, since nobody waits for it sooner.  `Link` is one cypher
statement: it creates nothing for a script that is not there, and the constraint refuses the
second script of a repository, which looks like a failed query and is swallowed (`TryLink`).
`ListFails` and `LinkThrows` are blocks that fault: after the first the call returns all the same,
after the second it throws.  A set of
scripts stands for the list, since the code takes them in whatever order the database gives.
The path of a script, hence its repository, is fixed per command.  `Discovers` is a discovery
at work beside the calls: any step of `GraphSpec`, which `CronDiscovery` is proved to keep to.
That is the composition of the two; neither looks at the roles of the other.
`RepositoryLinks` has no blocks and no queries: a repository is linked to the first script of the
graph that asks, for ever, and a call that returns answers for what it listed and did not miss.

### GitMigration (promise: EditFlow)

A repository is four sets of edits (working tree, index, last commit, what each remote has)
and the address of its remote.  `Pipeline(k)` is the chain of blocks one message goes through;
`NothingToDo` is a worker that cannot
reach the graph, or whose repository was never cloned.  `Fails` is `WinAPI.system`, whose exit
code nobody looks at: a failed command changes nothing and the next block runs.  `doWork` waits
for the commit, so `PushAll` leaves a push pending that `PushOver` and `PushEnds` bring to an end
while the next worker may already be at work.  When the process dies, pushes that were not begun
are gone, but git is a process of its own: one being sent may still end either way.  `Download` never brings anything: it asks for
the scripts through the overload that throws.  Git itself is external: adding, committing and
pushing are set unions, and a remote that has something else refuses.  No worker is made by
the program as it is (see *Not modelled*); the module describes `doWork` as the queue calls it.
`EditFlow` has no workers and no stages: edits are made, committed, published; nothing committed or
published is lost, also not what others pushed; the legacy remote gets something only when its
address has *stuck*, that is when a worker could not remove it.

## 4. Runs

Passing runs.  Deadlock is not checked, because every one of these systems may stop: nothing
is left to do, or the process has died.  That work does not get stuck is the liveness
property of each run.

| Run | Instance | What it shows |
| --- | --- | --- |
| `workflow_queue` | 2 contexts, one cancellable; 3 kinds of chain; degree 2; clock 0–1; 2 calls of `Process`; 1 exception | chains run in order and completely, a returned `Process` leaves nothing undone, a context cancelled between two steps starts no other, the engine implements `ChainRun`, and without cancellation or crash everything ends |
| `workflow_scheduler` | 4 tasks, 3 threads, level 2 | the count is exact, no task is forgotten or run twice, capacity is not left idle, tasks that wait for tasks never lock the pool, every task ends |
| `monitor_files` | 2 paths, 2 executions, both kinds | the monitor implements `FileGate` (no early finish, nothing handled without its file), does not await again what it has found, finishes if threads did not overlap, and handles a watched file |
| `workers_queue` | 3 workers, 2 drains | order and permit hold through exceptions, time-outs and overlapping drains; every call ends |
| `cron_discovery` | 2 hosts, 2 roles, 2 commands, 3 crontabs, 2 calls of `Discover` | scripts get their host and role, what was read is stored, the graph only grows (`GraphSpec`), workers end |
| `downloads` | a file, a table and a directory with a file and a dot file; 3 calls; 2 versions | the last good copy outlives one bad download, a call that returned tried every file, every call ends |
| `graph_sync` | 1 host, 3 scripts on 2 repositories, one of them improper; 2 calls | the calls implement `RepositoryLinks`: a repository for every script a returned call could link once, with one script each, for ever; every call comes back, whichever block faults |
| `git_migration` | 2 repositories, 2 edits, 2 workers | the workers implement `EditFlow` (nothing to the legacy repository unless removing it failed, commits and remotes lose nothing), what was there is committed, the last push carries everything, migrations end |

Runs that show a disagreement.  Each checks what a comment or a test says, and TLC finds the
counterexample.

| Run | What the source says | What the code does |
| --- | --- | --- |
| `cancelled_context_spins` | the token "is able to interrupt the processing of a workflow context" (`WorkflowQueue.cs:40`) | a cancelled context never becomes finished, and the loop of `Process` sets it running for ever |
| `monitor_lost_update` | `_CanGoNext` "determines whether the monitoring process has finished or not" (`BaseMonitoringWorkflow.cs:18`) | two threads put each other's path back, and the flag is never set |
| `next_step_does_not_wait` | the step after the monitors prints "File has been found" (`Program.cs:93`) | `Execute` returns when the threads are started, and the engine goes on without the files |
| `pushed_without_download` | the service "downlaods the remote script files" to push unsaved changes (`ScriptSyncService.cs:21`) | the download always throws in a task nobody awaits; the pipeline pushes without it |

Other disagreements are in the models without a run of their own, as the condition under which
a passing property holds:

- `DiscoverThrows`: `setState` refuses a context without a host, though
  `ReaderStateContextTest.cs:23-24` expects `Initialize` to work on a new one.  Only
  `AssignHostName`, the public setter, gets discovery going.
- `AloneNoUnderflow` has `~shared`: the semaphore is for "thread-safe access"
  (`WorkersQueue.cs:10`), but the count is read outside it, and overlapping drains do dequeue
  from an empty queue.
- `ReturnedMeansDone` of the engine has *returned*: a second `Process` meets the disposed contexts
  of the first, throws, and may never touch a new one (`WorkflowQueue.cs:39`).
- `DirectoryMissing`: a last step that gave up still ends in `WorkflowFinishedState(true)`.

### Why the bounds are enough

- Engine: two contexts suffice for two bodies to share a degree of two, for an `Enqueue` during
  the enumeration, and for a second `Process` that meets both an old and a new context; three
  chains cover a first, a middle and a last step, due and not due, plain and monitoring.  One
  exception is enough for a retry; the safety results hold for any number by proof.  The run
  has as many slots as contexts; the same instance with `MaxDegree = 1`, where a context that
  waits for its date holds the only slot, was checked beside it and passes.
- Scheduler: more tasks than the level, and a thread more than the level, so that the level and
  not the pool is what holds tasks back; four tasks allow a waiting chain beside a full pool.
- Monitoring: an overlap needs two threads, a retry two executions.
- Workers queue: three workers leave a worker behind a worker behind a drain; two drains are
  what it takes to overlap.
- Discovery: two hosts that share a command, a second `Discover` beside the drain.  One call of
  `AssignHostName` sets the context up; three crontabs cover role first, another role, and no
  role with a line that ends the reading.

- Downloads: three calls are one good download and the two in a row that lose it; the tree has
  every kind of entry but an ignored one, and a level where paths are wrong.
- Graph synchronisation: two calls meet the constraint through the same repository, two scripts
  share one, and a third has none.  Roles are left out (`MCRoles` is empty): linking reads none.  The safety properties were checked on
  two hosts (1,488,352 states) once beside the run.
- Git migration: two workers are what it takes for a push to be pending while another works; two
  edits let one come while the other is pushed.

Contexts, tasks, paths, workers, hosts and entries are model values.  No symmetry is declared: the
liveness properties and refinements would not be sound under it.

### Fairness

- Engine: bodies and the enumerator are pool threads that run if they can; a step returns or
  throws (weak fairness of the body as a whole, which leaves open which of them); time passes.
  Clients, cancellations and crashes are never forced.  `ProcessTerminates` allows for the
  cancellation and the crash that really break it.
- Scheduler: the pool starts a queued delegate, threads run, and a task that waits for nothing
  ends.  A task is never made to spawn or to wait.
- Monitoring: only the polling threads run.  `WatchedFileIsHandled` is conditional on a file
  that stays and a session that stays.
- Workers queue: weak fairness only, for a waiting caller too: `SemaphoreSlim` promises no
  order, but each worker is enqueued once and each drain ends, so a permit finally stays free.
- Discovery: the worker that was begun goes on.  Nothing makes anybody drain again, so
  `BeginWork` is not fair, and `WorkerEnds` speaks of a worker that was begun.
- Graph synchronisation: the block that has a message goes on, and so do the continuations
  and the waiting caller (`Works`, `Ends`): both run on the thread pool, and a query ends.
- Downloads, git migration: the thread of a call, the stages of a pipeline
  and a command that was started go on; calls, edits, discoveries and crashes are never forced.
  A crash of a download leaves the files as they are and an idle caller; one of a migration
  ends the worker and the pushes that are not begun.

## 5. Theorems

All are proved by TLAPS for every value of the constants that meets the named assumptions
(finitely many threads, at least one, and a positive level for the scheduler, non-empty chains and a positive degree
for the engine, non-empty paths for monitoring, disjoint names elsewhere).

- **Engine** (`WorkflowQueueProofs`): `TypeCorrect`, `Invariant`, `StepsInOrderCorrect`,
  `FinishedIsCompleteCorrect`, `AtMostOneLateStepCorrect`, `ReturnedMeansDoneCorrect`,
  `TrappedStaysCorrect`, `Refinement`.  The inductive invariant has two parts.
  `ContextInv` ties state object, body, current workflow and returned steps of one context: the
  current workflow is one ahead of what has returned, except when a cancellation kept a
  returned step from advancing the chain, after which no step may start.  `RoundInv` ties the
  queue, the cursor and the bodies: no context is queued twice, those before the cursor have or
  had a body, the others have none.  Without the exception in `ContextInv` the step that
  completes late could be followed by another; without `RoundInv` a second call of `Process`
  could hand out a context that has a body.  `Refinement` uses the invariant to show that an
  executing step is the next one of its chain and is due.  `TrappedStays` is the safety behind the
  run `cancelled_context_spins`: a context cancelled between two steps never leaves the loop, and
  the call of `Process` never ends, in every engine and not only in the instance.
- **Scheduler** (`WorkflowSchedulerProofs`): `CountIsExactCorrect`, `NoLostWakeupCorrect`,
  `Invariant`, `TypeCorrect`, `OnePlaceCorrect`, `NoIdleCapacityCorrect`, `NeverLockedCorrect`,
  `Refinement`.  Count and
  wake-up are inductive together with the types of the four variables they mention; the
  cardinality of the running delegates is handled by two lemmas, one more and one less.  On top
  of them, `OnePlace` says that list, stacks and phases agree on where every task is, and
  `DelegatesRunTasks` that only delegates hold tasks.  Lemmas about sequences say what taking an
  element off a list, and pushing on and popping off a stack, do to both.  `NoIdleCapacity` then
  follows step by step, and so does `Refinement`: a thread between two items is a delegate
  without a slot, so fewer slots than delegates, hence than the level, are taken.
  `NeverLocked` is the one that needs an argument over all threads at once.  `WaitInv` says that a
  task was created by one that was running, that a stack holds each task on top of its creator,
  and that a thread waits for a task that its topmost one created.  The tasks can be numbered
  above their creators (`OwnersOrdered`; a task that is created gets the next number).  Of the
  threads with tasks, take the one whose topmost task has the greatest number (`Greatest`, by the
  least-number principle of the library): a running task it waits for would have a greater
  number and lie in a stack whose topmost task has no smaller one (`TopIsGreatest`), against the
  choice, so it goes on.  If no thread has a task, `NoLostWakeup` gives the delegate
  that takes one from the list.
- **Monitoring** (`MonitorFilesProofs`): `TypeCorrect`, `Invariant`, `GoMeansAllHandledCorrect`,
  `QuietMonitorGoesCorrect`, `PathsShrinkCorrect`, `Refinement`.  `HandledInv` says that a path is off the
  field, *or off a copy some thread is about to write back*, only when its own thread took it
  off: this is what survives lost updates.  `QuietInv` says that without an overlap a copy is
  current.  `FreshInv` says a thread is started once.  `Refinement` is where lost updates do no
  harm: a write of the field handles at most the writer's own path, and a count of nothing left
  is one of all handled.
- **Workers queue** (`WorkersQueueProofs`): `TypeCorrect`, `Invariant`, `PermitHeldOnceCorrect`,
  `FirstInFirstOutCorrect`, `AloneNoUnderflowCorrect`, `ReturnedMeansBegunCorrect`,
  `ReturnedMeansDoneCorrect`, `Refinement`.  The invariant adds to the
  properties that each worker is accepted once (`WorkersOnce`), that a lone drain behind its
  guard still has a worker to take (`DrainsAlone`), and that a working drain has a worker in
  hand (`WorkInHand`).  What a drain that came back has done rests on `BegunAccounted`: a worker
  that was dequeued is done, or in the hands of a drain that is still under way.
- **Discovery** (`CronDiscoveryProofs`): `TypeCorrect`, `Invariant`, `OnHostCorrect`,
  `RoleCorrect`, `HandledCorrect`, `FirstHostCorrect`, `Refinement`.  `AloneInv` says that a thread alone in
  the context finds the state and the host it put there, `ReadInv` that no line is skipped,
  `RoleInv` that the current role is the last one read, `StoredInv` that the host is stored
  before its crontab is fetched.  `Refinement` is `GraphSpec`.
- **Downloads** (`DownloadsProofs`): `TypeCorrect`, `Invariant`, `LastGoodSurvivesCorrect`,
  `ReturnedMeansTriedCorrect`, for any tree, and files of any kinds.  `CopyInv` follows the good
  copy through the move that is under way; `RootInv` says that the loop over the root has come
  to all that is not left in it, whatever the loops below it do.
- **Graph synchronisation** (`GraphSyncProofs`): `TypeCorrect`, `Invariant`,
  `ReturnedMeansLinkedCorrect`, `Refinement`.  `LinkInv` is the constraint seen from the scripts; `TriedInv`
  says that once a script was tried without a failure its repository is there, and stays;
  `PipeInv` that a block is over only when those before it are, and that the caller is where the
  blocks have let it go: a call returned only when the last block was through with its message.
- **Git migration** (`GitMigrationProofs`): `TypeCorrect`, `Invariant`, `NeverToLegacyCorrect`,
  `ReturnedMeansCommittedCorrect`, `LastMeansPublishedCorrect`, `PublishedGrowsCorrect`,
  `Refinement`.
  `CarryInv` carries what a worker found from stage to stage; `AwayInv` says that after the first
  removal the remote never points back, so a pending push of an earlier worker cannot go astray;
  `LastInv` that nobody takes away the remote of the last worker; `SentInv` that what is being
  pushed is in a commit, which commits made meanwhile keep true.  `Refinement` rests on `GrowInv`
  for the commits, `SentInv` for the pushes and `AwayInv` for the address.

Every invariant and action property of a passing run, and all seven refinements, are proved.  Some
theorems state a property no run checks: the inductive invariants, which TLC
has checked on the instances of the runs, and properties that those of the runs contain or rest
on.  `FileGate` contains `GoMeansAllHandled`, `RepositoryLinks` contains `ReturnedMeansLinked`,
`EditFlow` contains `NeverToLegacy` and `PublishedGrows`, `NeverLocked` rests on `NoLostWakeup`;
`FinishedIsComplete`, `AtMostOneLateStep`, `OnePlace`, `PermitHeldOnce`,
`FirstInFirstOut`, `ReturnedMeansBegun` and `FirstHostKeeps` go with the invariants.

Only model-checked: the liveness properties (`ProcessTerminates`, `EveryTaskFinishes`,
`WatchedFileIsHandled`, `CallsEnd`, `WorkerEnds`, `CallEnds`, `MigrationEnds`), since fairness and
`ENABLED` are out of the prover's reach.

## 6. Not modelled

- `ScriptSyncService.syncRepos` and what is behind it (`generateMigrationWorkers`,
  `generateReport`, the 90 s drain).  Its first block calls `GetAll(object)` of
  `ScriptRepositoryRepository`, which throws `NotImplementedException`: the call returns having
  enqueued nothing, and no `GitMigrationWorker` is ever made by the program.
- `cloneLegacyRepoAsync` and `createNewRepository` of the git worker, and
  `CronReader.ReadFromFile`: nothing calls them.
- `Upload` changes nothing on this side but one file of the server.
- Of the graph repositories, the queries nothing that is reached calls.  The constructors create
  the constraints; a failure there is swallowed, and the models assume it did not happen.
- Commands and blocking calls end, in one way or the other, wherever liveness is claimed.

The steps that send a mail, call a server or run a command are one blocking call each, a step
that returns or throws to the engine.  The states nothing enters (`WorkflowInitialState.HandleAsync`,
monitoring, error, paused) and the graph-based SSH migration, which the source has not
finished, change nothing that runs.  The HTTP client, mailing, configuration, entities,
`Program` and the generated HTML under `Documentation` are data or plain I/O.

## 7. Running it

    tlc -workers 2 -config MCWorkflowQueue.cfg MCWorkflowQueue
    tlapm WorkflowQueueProofs.tla

and likewise for the other configurations and proof modules; `PROJECT.json` lists them all.
