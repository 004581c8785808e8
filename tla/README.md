# hostoria-node: TLA+ models, model checking and proofs

`hostoria-node` is the daemon that runs on every game host of the Hostoria
panel. It takes HTTP requests from the panel, runs each game server in a Docker
container, streams the console over WebSockets and reports its health to the
panel. This directory models the parts in which goroutines, Docker, the file
system and restarts interleave, checks them with TLC, and proves with TLAPS what
holds for every size. File names below are relative to `src/`.

    tlc -workers 2 -config LifecycleLive.cfg MCLifecycle.tla
    tlapm LifecycleProofs.tla     # likewise the other modules named ...Proofs,
                                  # and FlattenTheorems

`PROJECT.json` names, for every definition that models code, the lines it
models, and for every property a mutant of the code that violates it. The
definitions called `X_Something` next to a definition `X` are those mutants.

## 1. Inventory

| Part | Source | State | Operations |
|---|---|---|---|
| Server registry | `internal/server/manager.go` | map UUID -> `*Server`, under an RWMutex | `Add`, `Get`, `Remove` (cancels the context), `All`, `Len` |
| Server objects | `internal/server/server.go` | container id, state, resources, context, console listeners; one mutex, held for one field at a time | `SetState`, `SetContainerID`, `AddConsoleListener`, `RemoveConsoleListener`, `BroadcastConsole`, ... |
| Server handlers | `internal/api/handlers/servers.go` | none of their own: locals of the request goroutine | create, delete, start, stop, restart, kill, list, get, resources |
| Install runner | `internal/docker/manager.go:262` | one goroutine per install | pull, create, start, follow the log, wait with timeout, kill, remove |
| Docker manager | `internal/docker/manager.go` | none: Docker keeps the containers | create, start, stop, kill, remove, inspect, wait, logs, stats, list |
| Exit watcher | `internal/docker/manager.go:348`, `handlers/servers.go:275` | one goroutine per started container | waits for the exit, then sets `offline` or `crashed` |
| Log streamer | `internal/docker/manager.go:383` | one goroutine and one pipe per started container | copies output to `BroadcastConsole` |
| Daemon | `cmd/daemon.go` | none on disk: at start it lists the containers | restore, serve, end |
| Heartbeat | `cmd/daemon.go:105`, `internal/client/panel.go` | `heartbeatHealthy`, `heartbeatInitialized` | a beat per tick, under a timeout; log on change |
| Console | `internal/api/handlers/console.go` | per connection: a channel of 256 lines, a writer goroutine | subscribe, status, lines, stats, leave |
| File API | `internal/api/handlers/files.go`, `internal/filesystem/manager.go` | the data directory | list, read, write, delete batch, rename batch, mkdir |
| Configuration | `internal/config/config.go`, `cmd/configure.go` | one YAML file | load with defaults, save |
| System information | `internal/system/stats.go` | none | gather |
| SFTP server | `internal/sftp/server.go` | sessions | never started by `runDaemon` |
| Router, token check, CLI | `internal/api/server.go`, `middleware/auth.go`, `main.go`, `cmd/root.go` | none | - |

How they interact. A request goroutine looks its `*Server` up in the registry
and keeps the pointer. Everything after that is a sequence of short critical
sections on that object and of Docker calls, with no lock held across two of
them. Two requests for one server, the install goroutine of its creation and
the exit watcher of its container all write the same `state` and `containerID`.
Docker outlives the daemon: after a restart the labels of the containers are
all there is.

What is hard, and what makes each part correct:

* *Handlers* - two of them on one server; a delete beside anything; a call that
  fails half-way; an object that left the registry while somebody holds it.
  Correct when passing states are always left, when "running" is true or about
  to be corrected, when no container has two owners or none, and when a deleted
  server leaves nothing.
* *Install goroutine* - a script that never ends, deletion while it runs.
  Correct when it ends after deletion, and when it never shares the data
  directory with the game.
* *Exit watcher* - it reports late, about a container that was replaced.
  Correct when every exit ends up in the state, and only exits of the present
  container do.
* *Daemon* - it forgets everything. Correct when the containers are found again
  and followed as before.
* *Console* - slow and vanished clients. Correct when lines arrive in order,
  nobody blocks the server or panics it, and nobody stays subscribed for ever.
* *Log stream* - reads of any length, frames that are not lines, lines too long
  for the scanner. Correct when no byte is lost, doubled or put into another line,
  and when both goroutines end.
* *Container configuration* - maps without an order, values that look like names,
  integers of the panel. Correct when each start gets the command that was meant, each port one binding, and no
  container runs without limits.
* *Resource samples* - a probe measures while its server is deleted or restarted.
  Correct when a sample stays with the server it was measured on.
* *File API* - requests that overlap each other or a deletion, batches that fail
  half-way, full disks, failures nobody is told of. Correct when a request that was
  answered took effect, all of it, and touched nothing else, and when what is
  answered is true.
* *Configuration* - `configure` killed half-way, two of them, a daemon that
  starts meanwhile. Correct when what was saved is there, and no daemon starts with
  a mixture of two configurations.
* *Heartbeat* - a panel that hangs or answers nonsense. Correct when the log
  tells the health and the beats go on.

## 2. Modules

| Module | Models |
|---|---|
| `Node` | the constants of the daemon and the assumption on them |
| `Docker` | containers, and the effect of one successful API call each |
| `Registry` | `server.Manager` and the `Server` objects as a heap: addresses stay valid after deregistration |
| `Lifecycle` | handlers, install goroutine, exit watcher, daemon start and end, composed over `Docker` and `Registry` |
| `LifecycleProps` | the properties of `Lifecycle` and its refinement mapping |
| `ContainerSlots` | abstract specification: what the daemon promises of the containers of one name |
| `LifecycleProofs` | proofs: types, pointers, owners, power states, the refinement of `ContainerSlots`, samples, and what requests served one at a time leave |
| `MCLifecycle` | `LifecycleProps` for TLC, with symmetry |
| `Console`, `MCConsole` | listeners, channels, handler and writer goroutines, peers |
| `LossyQueues` | abstract specification: what the console promises its subscribers, a queue each |
| `ConsoleProofs` | proofs: types, order, completeness, listeners, the refinement of `LossyQueues` |
| `Heartbeat` | ticker, beat, panel, `printHealth` |
| `HeartbeatProofs` | proofs: types, `LogTellsHealth` and `LogAlternates` |
| `Monitor`, `MCMonitor` | composed with `Lifecycle`: GET resources and the sample it stores |
| `LogStream`, `MCLogStream` | `StreamLogs`: Docker's frames, copying goroutine, pipe, scanner |
| `LogStreamProofs` | proof: the lines that arrive are those of the bytes sent |
| `ContainerSpec`, `MCContainerSpec` | what `CreateContainer` makes of command, environment, ports and limits |
| `ContainerSpecProofs` | proofs: command, port bindings, limits |
| `Files` | the file handlers and `filesystem.Manager`, with the ends of create and delete that touch the directory |
| `FileStore`, `MCFiles` | what the file API promises: the requests taken one after another; history and properties of `Files` |
| `FileStoreProofs` | proofs: the tree, and all that `FileStore` promises |
| `NodeConfig`, `MCNodeConfig` | `configure` writing the file, the daemon loading it |
| `NodeConfigProofs` | proofs: `SavedIsThere`, `StartsFromOneResponse` |
| `FlattenTheorems` | lemmas on induction over numbers and sequences, and on `FlattenSeq` |

### Lifecycle

`req[r]` is a request goroutine: `pc` names the call it makes next, `uuid`,
`srv` and `cid` are its locals (the UUID of the path, the `*Server` pointer, the
container id it read). One action is one critical section or one Docker call,
in the order of the code; `StartReadID` and `StartClear`, for instance, are two
actions because `startServer` takes the mutex twice. `inst[s]` is the install
goroutine of the object at address `s`, `watch[c]` the watcher of container `c`
and the exit status it was told but has not reported yet. `daemon` and `todo`
are the start of the process: nothing is served before the restore loop is
through. `dirs` are the data directories.

Abstractions:

* A Docker call that fails has no effect. With `Faults`, any call may fail for
  no reason of the daemon's; without, it fails only on a container that is gone,
  a taken name, or an empty image reference.
* A name is taken per kind and UUID (`hostoria-<uuid>`,
  `hostoria-install-<uuid>`), as Docker refuses a second container of one name.
* Docker makes the directory of a bind mount when a container starts without
  one; starts therefore add to `dirs`.
* Only `zero` against `nonzero` of an exit status matters to the callbacks.
* A restored entry has no `DockerImage` (`image = FALSE`): the pull of the empty
  reference fails.
* `WaitBreaks` and `WatchError` are the error channel of `ContainerWait`: a broken
  call, a cancelled context, or a watcher that asks only after its container was
  removed.
* Container ids and addresses are reused once nothing refers to them (`Fresh`,
  `Unreachable`). An operation that needs a new one waits until one is free,
  which only bounds how many are alive at once.
* Environment, limits and ports (`ContainerSpec`), log lines (`LogStream`) and
  resource samples (`Monitor`) are not in this model. Log streaming is a
  goroutine that changes no state here.

### Console

`listeners`, `chan` and the pcs `handler` and `writer` follow the code; `conn` is
the peer: it may stop reading, so that writes block, and leave, so that reads
fail at once and writes sooner or later (the first write to a vanished peer may
still go into the socket), or send something that is not the JSON the reader
expects, which ends the reader while the peer is there (`BadMessage`). A line is its
number. Payloads of status and stats
events are left out; that these writes block and that their errors are ignored
is kept.

`LossyQueues` sees of a client the lines in its channel and in its writer's hand as
one queue (`Way`). With exactly `Cap` lines there, one of them may be in the hand
or not, so that the next line may find room or not; with fewer it always does, with
more never, whatever the other queues hold.

### Heartbeat

The panel is `ok`, answers an error status, refuses or hangs, and changes at any
time; the ticker's channel holds one tick and drops the rest; a hanging panel
costs the 10 s timeout, which is a failed beat.

### Monitor

A step of `Lifecycle` is a step of `Monitor` (`LifecycleStep`); a probe is the
goroutine of a GET resources request with the pointer and the container id it
read. A sample stands for its figures: it is the `Server` object for which the
measured container was made (`owner`, a history). `HoldersKept` keeps addresses
and container ids that probes still hold from being handed out again, as `Fresh`
and `Unreachable` do for the goroutines of `Lifecycle`. The console only reads
the sample stored last (`console.go:84`).

### LogStream

Bytes are numbers. `wire` is what Docker has sent, `pipe` what the copying
goroutine is handing over (a `PipeWriter.Write` lasts until all of it is read),
`buf` the scanner's buffer. Docker frames each logged line, or each piece of a
long one, and the last byte of the header is the length; sizes are scaled down
(header 2, frame 4, token 9 bytes), keeping header < frame < token. Any bytes may
be printed but a newline; the length byte of a header may be one, and
`bufio.ScanLines` takes a carriage return off each line (`DropCR`). `Scan` is what
the lines of a text are, as the properties see them.

### ContainerSpec

Text is a sequence of characters. A startup command is given as pieces, text and
names, so that `SameCommand` can say what its author meant (`Meant`); the loop sees
only the text they spell. `strings.ReplaceAll` is a scan over the whole text, so that
a value and its neighbours may form a new placeholder. The loop over the map takes
any key that is left. Integers have 8 bits and wrap around, with megabytes and the
CPU period scaled accordingly; both products can overflow. `Again` is the next start
of the same server.

### Files and FileStore

One action is one system call: each mkdir of a `MkdirAll`, the truncating open
and the write of a `WriteFile`, each name of a `RemoveAll`, each block of a read,
each entry of a listing. An error ends a request with an error status, but for a
download, whose answer stays a 200 with what was sent until then (`OnError`), the
`Info` of an entry, which only leaves the entry out (`InfoFails`), and the deletion of
the server, which does not look. Files are inodes, so that a request goes on with the
file it opened when its name is removed or moved. `FileStore` keeps the tree that
the answered requests make when they are taken one after another, in the order
of their answers, and compares it with the file system and with the answers.
Requests whose paths overlap in time promise nothing of these paths (the code
locks nothing): they make them `Unknown` until a later request settles them. A
write that overlapped another request taints all that is beside it, since its
open file may have got another name.

Taken for granted: UUIDs are of one length (the prefix test of `SafePath` needs
that); a rename is one step; `os.RemoveAll` goes by path, so that the rename of a
directory while it is removed is approximated; empty batches do nothing and are
left out.

### NodeConfig

The file is a sequence of cells that remember which response they came from.
`configure` truncates, then writes from the beginning. An empty file parses, one
that is cut short or mixed may parse or not: the daemon then may start or not.

## 3. What is checked

| Run | Bounds | Shows |
|---|---|---|
| `live` | 1 request at a time, 1 address, 3 containers, every operation, `Faults` | `TypeOK`, `ExitNoticed`, `DeletedInstallEnds` |
| `power` | 2 requests, 2 addresses, 3 containers, power actions and restarts of the daemon, `Faults` | `PassingStatesOwned`, `RunningAliveOrTold`, refinement `ContainersUsedOnce` |
| `churn` | 2 requests, create, delete and start, no faults | `SoleOwner`, `HeldOrCancelled` |
| `serial` (of `Monitor`) | 1 request at a time and 1 probe, 2 addresses, 3 containers, no install scripts, no faults | `NoOrphans`, `DeleteLeavesNothing`, `RestsSettled`, `SampleOwn` |
| `console` | 2 clients, 2 places per channel, 3 lines | `TypeOK`, `InOrder`, `NothingLostBelowCap`, `ListenersOpen`, refinement `QueuesImplemented`, `TakenLinesArrive`, `GoneUnsubscribedByOutput` |
| `heartbeat` | 4 messages in the log | `LogTellsHealth`, `LogAlternates`, `OutageLogged`, `BeatsGoOn` |
| `log_stream` | any 2 of 5 lines (empty, with a length that reads as a newline, ending in a carriage return, of 2 frames, too long), tail of 1, every cut into reads | `LinesAsSent`, `LinesArrive`, `StreamEnds` |
| `container_spec` | 2 variables, one the beginning of the other, 4 values, two of them with braces, 3 commands, 3 port lists, 10 integers around 0 and the overflows | `SameCommand`, `PortsBoundOnce`, `MemoryLimited`, `CpuLimited` |
| `files` | 1 request at a time, all nine operations, 4 paths, batches of 2, an empty file and a full one, failing calls and full disks | `TakesEffect`, `AnswersTrue`, `FailsForCause` |
| `files_shared` | 2 requests, 4 paths, a file of 2 blocks; create server, write, delete, rename, read | the same, and `TypeOK` |
| `node_config` | 1 run of `configure` at a time, 4 responses, crashes | `SavedIsThere`, `StartsFromOneResponse` |
| `find_install_recreate` | 1 request at a time | `InstallAlone` is violated |

Why the bounds are enough. Nothing in the code relates two UUIDs: the registry
is a map, names and directories carry the UUID. One UUID therefore shows what a
server can do, and what matters is how many goroutines and containers it has at
once. Two requests are what it takes to race; three container ids are the old
container, its replacement and an install container; two addresses are a
deleted server still held by a goroutine and the one created after it. The
256 places of a console channel become 2: full, empty and between occur, and
three lines overflow it. The panel's request rate and the number of lines are
the only unbounded inputs, and both are cut by these bounds. For files, two
names and one below the first are what it takes for a path to be the other's, its
parent, its child or apart; a batch of two has an item before and one after the
failure; an empty file over a full one shows what a shorter write leaves, and two
blocks whether a read takes all. For log lines, every
kind of line the code treats differently occurs, also one after another, and two
lines exceed the tail of one. Commands and values contain names, parts of names and
braces. `NodeConfig` has responses of two lengths and for two nodes, one without a
directory and one without a UUID.

Symmetry (requests, addresses, containers) is used in runs of invariants and
action properties only.

`console` and `log_stream` are without the deadlock check: both clients
may have left and the bounded lines been printed, or a stream may be at its end,
and then nothing is left to do.

Fairness. Every goroutine that can take its next step takes it in the end
(`WF` for the request goroutines, installers, watchers, the daemon's start, the
console handler and writer, the heartbeat): Go schedules them, and Docker calls
return. `TakeLine` has `SF`, as `select` chooses at random among the ready cases
and cannot pass over a waiting line for ever while the 5 s ticker also fires.
Faults that end a log stream or a wait call
(`StreamBreaks`, `WaitBreaks`) are outside the fair actions. Nothing makes the
panel send requests, a container exit, an install script end, a WebSocket peer
read or leave, or a panel answer. In `LogStream` the copying goroutine and the
scanner are fair, the container that prints and ends is not. Nor is
`BroadcastConsole`: nothing makes a server print.

### What the runs find

`find_install_recreate` checks what a message of the code says ("server is still
installing, cannot start") and ends with TLC's counterexample. Requests one at a
time: delete a server that is installing, create it again, start it. The old
script runs on under its background wait, beside the game, in the same
directory; the check at `servers.go:239` looks at the new object only.

Seen in the models and not given a run of their own:

* A start that overlaps a delete leaves a container or a directory behind the
  deregistered server: the delete reads the container id once
  (`servers.go:113`), the start stores or creates its own afterwards.
* The watcher of the container a restart removed sets `crashed` or `offline`
  after the restart set `running`, with requests one at a time
  (`servers.go:275`).
* The timeout of `docker/manager.go:326` starts only after the log stream ended,
  which follows the script: a script that never ends is never timed out.
  (Deleting the server does end it: `DeletedInstallEnds`.)
* A server restored as running has no exit watcher (`cmd/daemon.go:71`), and is
  shown running for ever once its container has ended.
* Install containers carry the label by which the daemon finds its containers
  (`docker/manager.go:366`): a restart during an installation shows the server
  running, and with an install and a game container of one server
  `docker/manager.go:376` keeps whichever is listed last.
* The console handler waits for its writer, which ends only when the write of a
  *line* fails (`console.go:105`). A client that leaves while the server prints
  nothing stays subscribed. (With output it is cleaned up:
  `GoneUnsubscribedByOutput`.) Stats are sent whatever the power state, and the
  power state once.
* A file written by a request that looked its server up before the deletion makes
  the data directory again afterwards (`filesystem/manager.go:86`).
* A download that fails, at the open or half-way, is answered 200 with what was sent
  until then (`files.go:193`). `AnswersTrue` says what still holds: it is a beginning
  of the file.
* A listing silently leaves out an entry whose `Info` fails, though the entry is there
  (`filesystem/manager.go:57`).
* The frame header is cut off lines and not off frames (`docker/manager.go:406`):
  an empty line arrives as its header, a line of 9 bytes, whose length byte with the
  newline is 10, as two lines, and the header of a second frame stays in the middle
  of a line. A carriage return at the end of a line is dropped. `StreamLogs` says of
  itself that it "calls outputFn for each line" (`docker/manager.go:382`);
  `LinesAsSent` therefore speaks of the lines of the bytes Docker sends.
* After a line of 64 KiB the console of a running server stays silent, and the
  copying goroutine may be blocked for ever; the properties of `LogStream` say
  where they stop at such a line (`Overlong`).
* With braces in a value or in the command the outcome depends on the order of a map
  iteration (`docker/manager.go:67`): a value may be a placeholder, or form one with
  its neighbours. With the value `{{` of A and `x` of B, `{{A}}B}}` becomes `x` or
  `{{B}}`. `SameCommand` excludes them (`Clean`), and the run has them.
* `configure` refuses a configuration without UUID, but truncates the file before
  it writes (`configure.go:93`): a daemon started in between, or after it was
  killed there, runs without one.
* Two runs of `configure` at once can leave the end of the longer file behind the
  shorter one, both having said "saved".
* A start between `Manager.Add` (`servers.go:65`) and `SetState(installing)`
  (`:72`) passes the check for installing; game and script run side by side.
* With requests one at a time, a delete during an install removes the directory
  (`:122`) before it cancels the context (`:124`): an install container started
  in between has Docker make the directory again.
* Two deletes of one UUID, with a create between them: the slow one removes by
  UUID, and deregisters the newer server.
* Deleting "/" and writing "/" through the file API makes the data directory a
  file.
* A file that two requests write at once may hold a mixture of both.
* The CPU product wraps around for large percentages (`docker/manager.go:99`), and the
  quota may be negative; `CpuLimited` excludes that by its premise.
* A failing stop leaves the server in `stopping` (`servers.go:160`), and a
  restored server cannot be started, as it knows no image.

## 4. What is proved

Every invariant and every action property of the passing runs is a theorem, for
every value of the constants that the named assumptions of the modules admit;
those only say that values which the code can tell apart are different, that
paths and texts are sequences, and the like. Where a theorem has a hypothesis
besides, it is one the property needs, and is named below.

### Lifecycle and Monitor (`LifecycleProofs`)

For every set of UUIDs, containers, addresses and requests, every `Ops`, and with
or without `Faults`.

* `TypeCorrect`: `Spec => [](TypeOK /\ Holds)`. The types alone are not inductive:
  a handler writes through the pointer it holds, so that pointer must be known to
  hold an object. `Holds` says so: every goroutine past its look-up holds a
  `Server` object, of the UUID of its request; the registry maps a UUID to an
  object of that UUID; a live installer or watcher points to an object. The
  proof has a lemma per operation the actions are made of (what `Goto`,
  `SetState`, `Add`, a Docker call... do to the types), one per group of actions,
  and combines them over `Next`.
* `HeldCorrect`: `HeldOrCancelled`. Inductive given `TypeInv`: an object is
  cancelled in the step that takes it out of the registry, and a goroutine gets a
  pointer from the registry, or from one that holds it. `PointersKept` says the
  latter of a step; from it follows that an object nobody points to is never
  pointed to again (`StaysUnreachable`).
* `SoleOwnerCorrect`: `SoleOwner`. Not inductive: between `ContainerCreate` and
  `SetContainerID` a handler has an id that is in no object yet, and the restore
  loop hands out ids that nobody asked for. `OwnsStored` says that the first is in
  nobody else's hands, `RestoresOwn` that before the API listens nobody works on a
  server, and that the containers still to be restored are different ones without
  an owner. Most steps only give ids up (`ClaimsKept`).
* `PassingCorrect`: `PassingStatesOwned`. Given `TypeInv` the property is
  inductive as it stands. One lemma (`PassingStep`) says what a step must do:
  start a passing state only with its owner in place, and let an owner go only
  when the state goes too. Every group of actions is then shown to do that, error
  paths, faults and restarts included.
* `RunningCorrect`: `RunningAliveOrTold`. From a state in which a start handler is
  about to watch somebody else's container, one step breaks it. `Alive` adds what
  is missing: `OwnsCreated` (between `ContainerCreate` and the watcher a handler's
  container is a game container of its UUID, unwatched, and in no other handler's
  hands), `InstallersInstall` (an install goroutine kills no game, so no watcher
  misses the news) and `IdleWatchers`. Most steps fall under one lemma
  (`AliveStep`): they claim nothing new and at most take containers away, telling
  who waits (`DockerLoses`).
* `SlotsImplemented`: `Spec => ContainersUsedOnce`, that is `Slots!Spec` under the
  refinement mapping of `LifecycleProps`. `OneEach` (one container per kind and
  UUID, as Docker refuses a taken name) and `NeverStarted` (who is about to start
  a container holds one that was never started, and alone) are what the steps need
  to be mapped; the second rests on `Alive`. Every step touches one container at
  most (`OneMove`), and each kind of touch is a step of `ContainerSlots`. The
  theorem covers installs, which the `power` run leaves out.
* `SampleCorrect`: `MonitorSpec => []SampleOwn`. A probe carries a pointer and a
  container id from call to call while servers come and go; `OwnerTrue` says that
  whoever can still be asked for its container id answers with one of its own, and
  `ProbesTrue` that id and pointer in a probe's hands stay a pair.
* `OrphansCorrect`, `RestsCorrect`, `LeavesNothingCorrect`: `NoOrphans`,
  `RestsSettled`, `DeleteLeavesNothing`, under `Sequential` (requests one at a time,
  no `Faults`, the daemon is not ended), and the last for `Ops` without
  `"install"`. Without these hypotheses the properties are false, see
  "What the runs find". Watchers and install goroutines run all the while. In the middle of a
  request all three are broken; `Orderly` says at which steps a container may be
  out of the registry's reach, what the one request knows there, and which states
  it is about to leave. The types, `PassingStatesOwned` and `DirsOwned` (a
  directory belongs to a registered server or to the request at work) do the rest.

### Console and Heartbeat

For every number of clients, lines and messages, and every capacity of a channel.

* `TypeCorrect`, `ListenersCorrect`: `TypeOK` and `ListenersOpen` of `Console`. A
  listed channel's handler is between `AddConsoleListener` and
  `RemoveConsoleListener`, and a writer that says it holds a line does.
  `RemoveFirstUnique` shows that removing a channel from a list that names nobody
  twice leaves the others.
* `OrderCorrect`: `InOrder`. `Ordered` adds that all on the way has been
  broadcast, so that the next line comes after it, and says the order for the three
  parts of the way: received, in the writer's hand, in the channel.
* `LostCorrect`: `NothingLostBelowCap`. As long as a channel has room for every
  line so far, what a listed client has and carries reaches without a gap up to
  the newest line.
* `QueuesCorrect`: `Spec => QueuesImplemented`, that is `Queues!Spec` under the
  refinement mapping of `Console`. `OrderInv` gives the types; `ClosingInv` says that
  a handler which waits for its writer or has passed it closes only for a peer that
  is gone. A broadcast maps to one `Send` to all clients at once, a line that is
  taken to a stutter, and a write to `Deliver`, `Lose` or a stutter.
* `LogTells`, `LogOnlyChanges`, `TypeCorrect` of `Heartbeat`, from one invariant,
  `LogInv`: what `printHealth` remembers is the last message, and between two beats
  the result of the last.

### Files and FileStore (`FileStoreProofs`)

For every tree of paths, every contents, any number of requests that overlap or do
not, batches of every length, with and without failing calls.

* `TypeCorrect`: `TypeOK`, from `FilesInv`: the tree is one, and each request
  carries paths and a position in its batch that its operation and pc allow.
* `EffectCorrect`, `AnswersCorrect`: `TakesEffect`, `AnswersTrue`. Both relate the
  file system at one moment to the answered requests, and neither is inductive:
  `StoreInv` is. It says, of a path that no request owns, that it holds what the
  store says, unless a `MkdirAll` made it on the way to its own (`Elsewhere`); of
  the paths of a request that no other overlaps, that they hold what its finished
  items make of the store, up to what the call in hand has changed, and that what
  it has read, sent or listed comes from there (`OwnFit`); of two requests of which one is not
  overlapped, that their paths are apart (`ClashFit`). So the step of a request
  can be looked at alone (`HandlerStep`), the others keep what is said of them
  (`OthersApart` and the lemmas before it), and an answer turns what was true of
  one request into what is true of the store (`ReplyStep`). The store after an
  answer is computed by a fold over the batch, of which lemmas say what it leaves
  at each path.
* `FailuresCorrect`: `FailsForCause`, an action property: a request that nothing
  overlaps fails only for a `Cause` in the store of that moment.

### LogStream, ContainerSpec, NodeConfig

* `LinesCorrect`: `LinesAsSent`, for all lines, widths and limits; nothing is assumed
  of the lines but that they are sequences of bytes other than a newline. The
  invariant `StreamInv` is about the bytes: while the scanner runs, those it is done
  with, those it holds, those in the pipe and those Docker still has are, one after
  the other, the whole log, and the lines passed on are the lines of those it is done
  with (`Behind`); once it has returned they begin those of the log.
* `CommandCorrect`: `SameCommand`, for texts of characters and maps and commands of
  every size, as long as no name, value or text has a brace (`Clean`), which the
  property needs. `CommandInv` says that the text is always what the pieces spell with
  the keys done replaced. Underneath are lemmas on the scan: text without a closing
  brace passes unchanged, and a placeholder is recognised at its last brace and only if
  it is the one that is looked for.
* `PortsCorrect`, `MemoryCorrect`, `CpuCorrect`: `PortsBoundOnce`, `MemoryLimited`,
  `CpuLimited`, for lists of ports of every length and integers of every width.
* `SavedCorrect`, `StartsCorrect`: `SavedIsThere` and `StartsFromOneResponse`, for one
  run of `configure` at a time (`OneRun`); of two they are false. `SavedInv` says that
  the file is missing or a beginning of one response that names the node, and is the
  whole of it from "saved" on until it is opened again.

### What the proofs changed in the models

* `FailsForCause` was an invariant, true of the instances TLC checked and false on
  a larger tree: a rename fails as the directory of its target is missing, another
  request makes that directory, and only then is the first one answered. It says
  now what was meant: the cause is there in the step that fails.
* `Settled` of `FileStore` had a `CASE` with overlapping guards (a deletion of the
  server whose calls failed), so that what it stood for was not determined.
* `SameCommand` was stated of tokens, where a value cannot form a placeholder with its
  neighbours. Of characters the premise that no value holds a placeholder is too weak:
  TLC finds an example like the one of section 3.
* Assumptions that had been tacit are stated: paths and contents are sequences,
  and `Absent`, `Dir` and `Unknown` are no contents.

### Induction over data

The library's induction theorems take an operator as a parameter, which no
installed prover can instantiate. `FlattenTheorems` therefore states induction
over a *set* of numbers or sequences (`NatSetInduction`, `SeqSetInduction`), proved
from the least element that a non-empty set of numbers has; with the sets of
numbers or sequences of which a fact holds, that is induction for every fact. What
`FlattenSeq`, `FoldLeft`, `SelectSeq` and the recursive functions of the models
compute is proved with it. `FlattensExists` and its like first show that the
recursive function of the definition exists.

### What stays with TLC

Liveness and all else about ENABLED: `ExitNoticed`, `DeletedInstallEnds`,
`TakenLinesArrive`, `GoneUnsubscribedByOutput`, `OutageLogged`,
`BeatsGoOn`, `LinesArrive`, `StreamEnds`. And `InstallAlone`, which is false.

The invariants of the proofs were checked with TLC on small instances before:
those of `SoleOwner` on three (one request with every operation and faults, two
UUIDs without faults, two requests with power actions and faults), `Alive` on the
instances of `power` and `live`, `StoreInv` on those of `files` and
`files_shared` and on a tree of another shape.

## 5. What is not modelled

* `Attach`, `GetContainerID` of the Docker manager and `ReportServerStatus` of the
  panel client have no callers. The WebSocket's "send command" and "set state"
  messages are read and ignored. `sftp.New` is called by nobody, though the
  daemon command's help text (`cmd/daemon.go:26`) names the SFTP server.
* The router, the token check, the CLI and the system information endpoint keep
  no state.
* `config.Save` and `Root`, `EnsureRoot` of the
  file manager have no caller.
* The figures of a resource sample, sizes, times and modes of listed files, and
  the wording of answers.
* Of the SFTP server nothing: besides having no caller, it hands every session to
  `sftp.NewServer` read-only and leaves its own path handlers unused
  (`sftp/server.go:106`).

## 6. Plan

1. Larger bounds where the proofs leave nothing to check but liveness: `live` with
   two requests, `console` with a third client.
2. A model of several containers of one UUID at a restart
   (`docker/manager.go:376`), now a hazard without a property.
3. The safety part of the liveness arguments as theorems: that an installer of a
   cancelled object has a step that ends it, and that a watcher which was told
   can always report.
