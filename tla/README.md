# ParolaSSH in TLA+

ParolaSSH is an SSH remote console: a Tauri application whose Rust side
(`src/src-tauri/src`) holds the SSH sessions and runs commands and transfers
over them, and whose React side (`src/src`) calls it and listens to its events.
Its state is small, and the hard part is who changes it when: every Tauri
command is an async function, several run at once, and between two awaits of
one of them a host may disconnect, a session may be replaced, a transfer may be
cancelled, a stream may end. Around that core stand decisions that are taken
once and acted on later: which key is trusted, which password is sent, which
command is dangerous, which manager drives a service.

This directory models that part of the program, checks it with TLC on small
instances and proves the main invariants with TLAPS for all of them.

| module | what it is |
|---|---|
| `TransferQueue` | the transfer queue, the commands that feed and pump it, the task that runs a transfer, and sessions as far as the queue sees them |
| `QueueContract` | what the queue promises, with none of its machinery; `TransferQueue` implements it |
| `Sessions` | the session registry, connect, disconnect, power and the heartbeat |
| `Connecting` | one connect with its hops, host keys and credentials, and what is remembered of passwords |
| `JumpChain` | the order of the hops, against a definition by paths |
| `Tunnels` | local and remote forwards over a session and its successor |
| `TaskRuns` | tasks and followed journals: the window, the handlers, the streams and their slots |
| `Shells`, `ShellOutput` | the shells of a host and their cap; what a program writes, up to the window |
| `Sudo` | which password an elevated action sends, and which one a session keeps |
| `Power`, `Services` | a power request and a service command, from the question to the report |
| `Metrics` | samples, the readings kept between them, the Windows sampler |
| `TaskPlan`, `Danger` | what a host is offered to run and how; how dangerous a command is said to be |
| `Downloads` | how a download gets its path, its staging file, its bytes and its final name |
| `RemoteFiles`, `RemoteTree` | uploads and the file browser; the walk of a remote folder |
| `SettingsFiles` | the program's own files under several writers and crashes |
| `VpnCache`, `VpnClients` | the cached word of a VPN client; how it is come by and what is advised |
| `HostsView` | what the window shows of a host while answers come late |
| `Files`, `Channels` | those of the modules above that meet nobody else, side by side: what is kept, and what runs over a session |
| `*Proofs` | the inductive invariants, the lemmas and the theorems |
| `Recursion` | lemmas on recursive functions and folds, for the proofs |
| `MC*` | the values of the constants for TLC |
| `*.cfg` | one model-checking run each |

`tlc -config X.cfg MCY.tla` runs a check, `tlapm YProofs.tla` the proofs.


## 1. Inventory

Paths are below `src/`; Rust paths are below `src-tauri/src`, the others below
`src/features`.

### Components, their state and their operations

| component | state | operations | module |
|---|---|---|---|
| Session registry (`remote/registry.rs`) | host id -> session behind a std mutex; in a session: shells, streams, tunnels, missed beats, readings, two passwords | `insert` (evicts and tears down the old session in a spawned task), `get`, `remove`, `disconnect`, `add_*`/`remove_*`/`drain_*` | `Sessions`; the maps in the module of their component |
| Connect, disconnect, power, heartbeat (`remote/commands.rs`) | handlers suspended at an await, each holding what it read before | `connect_host`, `disconnect_host`, `power_host`, `heartbeat` | `Sessions`, `Connecting`, `Power` |
| SSH client (`remote/client.rs`, `ssh/known_hosts.rs`) | one transport, what the server's key was | handshake, host-key verdict, authentication, `is_alive`, `close` | `Connecting`, `Sessions`, `Tunnels` |
| Secrets (`remote/secrets.rs`) | host -> remembered password | `remember`, `recall`, `forget` | `Connecting` |
| Jump chain (`remote/jump.rs`) | none: a pure resolution over the saved hosts | `resolve` | `JumpChain` |
| Transfer queue (`remote/transfers.rs`) | rows, their cancel flags, the cap | `enqueue`, `take_ready`, `finish`, `cancel`, `fail_host`, `set_priority`, `set_max_concurrent`, `clear_finished` | `TransferQueue` |
| Transfer commands and pump (`remote/commands.rs`) | start orders taken and not dispatched, the pump lock | `enqueue_download`, `enqueue_upload`, `cancel_transfer`, `pump_transfers`, `release_host_transfers` | `TransferQueue`, `RemoteFiles` |
| Transfer task (`remote/transfer_task.rs`, `private_file.rs`) | an open staging file, an offset, a pipeline of reads | `run`, `download`, `upload`, `verify_length` | `TransferQueue`, `Downloads`, `RemoteFiles` |
| SFTP reader and browser (`remote/sftp.rs`) | the browser's channel of a session | `copy_to`, `list_dir`, `walk`, `refuse_unless_regular` | `Downloads`, `RemoteTree`, `RemoteFiles` |
| Streams (`remote/stream.rs`) | a channel, a reader task, an emitter task | `open`, `batch_and_emit`, `close` | `TaskRuns`, `ShellOutput` |
| Shells (`remote/shell.rs`) | the same, with a PTY; a decoder with up to three bytes pending | `open_shell`, `write_shell`, `close_shell` | `Shells`, `ShellOutput` |
| Tunnels (`remote/tunnel.rs`) | a listener and a map of remote forwards | `open_local`, `open_remote`, accept loop, relay, `close`, `stop` | `Tunnels` |
| Sudo password (`remote/commands.rs`, `remote/power.rs`) | the login and the kept password of a session | `resolve_sudo_password`, `pick_sudo_password`, `forget_sudo_password` | `Sudo` |
| Power (`remote/power.rs`, `remote/platform.rs`) | none | `detect_os`, `check_privileges`, `plan`, `interpret` | `Power` |
| Services (`remote/services.rs`) | none | `for_host`, `parse_list`, `plan_action`, `interpret_action`, `parse_log` | `Services` |
| Metrics (`remote/metrics.rs`) | the readings of the last sample, one sampler process | `sample`, `windows_sample`, rates | `Metrics` |
| Task commands and store (`tasks/`) | `tasks.json` | `list_host_tasks`, `plan`, `start_task`, save, delete, touch | `TaskPlan`, `SettingsFiles` |
| Danger rating (`tasks/danger.rs`) | none | `assess` | `Danger` |
| Host store, settings (`hosts/`, `private_file.rs`) | JSON files | read, change, write to a temporary name, rename | `SettingsFiles` |
| VPN clients (`vpn/`) | a cache with one load at a time, a remembered list | `get_or_load`, `resolve`, `bind`, `explain_unreachable` | `VpnCache`, `VpnClients` |
| Window: hosts (`hosts/HostsProvider.tsx`) | connections, statuses, health | connect, reconnect, disconnect, power, heartbeat timer, refresh | `HostsView` |
| Window: task runs and journals (`hosts/taskStore.ts`, `hosts/panes/ServicesPane.tsx`) | runs, the stream id once known, the close event heard before it | `start`, `stop`, `settle`, `closeHost`, the follow effect | `TaskRuns` |
| Window: terminals, transfers (`hosts/terminalStore.ts`, `transfers/transferStore.ts`) | tabs; a copy of the queue's rows | open, close, refresh | none |
| Readers of security, audit, defender; SSH configuration and keys; tray | none, or a counter | run a command, parse its output | none |

### How they interact

The window calls commands and gets one answer each; independently of that,
the Rust side emits events (`stream://output`, `stream://closed`,
`terminal://closed`, `tunnel://state`, `sftp://changed`). Nothing orders an
answer against an event, or the answers of two calls. Handlers share the
registry, the transfer manager and the pump lock; every shared map is locked
only for the length of one method. A session is looked up by host id: a handler
that looks twice may find two sessions. A spawned task (a transfer, a stream, a
relay, the teardown of a replaced session) outlives the handler that spawned it.

### What is hard here

- *Interleaving at awaits*: a handler's decision is as old as its last await.
  `pump_transfers` promotes a row and then asks whether the host is still
  connected; the heartbeat's verdict is up to eight seconds old when it reaps;
  the stream cap is looked at before a channel is opened and taken after it; a
  path that was free when a transfer was queued is taken when it runs.
- *Identity*: a reconnect puts another session under the same host id. A tunnel
  looks its session up by host, a sudo password checked over one session could
  be kept by another.
- *Late messages*: a cancel after the last look at the flag, a `finish` for a
  row that was failed meanwhile, a close event before the id it names is known,
  a heartbeat's answer from before a connect, a sampler's line from before the
  time limit.
- *Partial failure*: a download that fails half way, a restart that stops and
  does not start, a power command that takes the session and skips what a
  disconnect would do, a crash between a write and its rename.
- *Trust*: a credential may leave only after the key was known or consented to,
  for every hop; a refused password must not be tried again.
- *Nobody left to act*: a slot that becomes free and nobody pumps, a row that
  is Running with no task, a run that stays running, a tunnel nobody stops.

`PROJECT.json` lists the hazards one by one, at their lines, each with the
properties that watch it or the reason none does.

### What makes each component correct

| component | properties |
|---|---|
| Queue | rows that run have somebody working for them; nothing is handed out twice; the cap, priority and arrival order hold at every handout; the places shown follow the scheduler, and whatever starts, settles or re-ranks a waiting row gives all of them one; outcomes stay; what was stopped is not reported done; what was started settles; handlers return |
| Registry | an open transport has exactly one party that will close it; a dead session is found and reaped; a slow one is not |
| Connecting | no credential goes to a key nobody vouched for, nor to a second key of its algorithm unless two calls learnt keys of that host at once; a password the target refused is not kept |
| Jump chain | the chain found is the path there is, and its absence is said where there is none |
| Tunnels | what was closed, or lost its session, ends |
| Downloads | a file under its final name is all of one remote file, where no two downloads were pending for it; failures clean up; "keep both" spares whatever was there when it was queued |
| Remote files | an upload that is done sent the whole file; a walk takes what is there and says what it left out |
| Streams and runs | an open stream is counted against the cap and found by a disconnect; the cap is passed by a bounded number; a run shows the outcome of its own command, and keeps it; a journal does not outlive its pane |
| Shells | the cap holds; what a program writes is shown once and in order |
| Sudo, power, services | what is kept was accepted; what is reported done was done, as asked |
| Metrics | a sample is made of its own answers; no rate is more than what was moved |
| Tasks | what is offered can start, and runs as root exactly when it says so; joining two commands loses no reason but those of recursive deletes and, of a command with a `;` glued to its path, that of an ownership rewritten |
| Settings files | a crash leaves the old or the new file |
| VPN | what a forced read is shown was read after it was asked, unless a load was under way then; advice blames the client that owns the address |
| Window | the status of a host comes to agree with the registry |


## 2. The models and the code

Each module opens with what it abstracts. Common to all: names, timestamps,
output and wording are left out; a `std::sync::Mutex` method is one step; an
await is a place where a handler's local state is a variable and others may
act. Definitions keep the names of the code. The operators whose comment begins
"Mutant of" are plausible mistakes in the definition that follows; no
specification uses them, they are there to show that the properties can fail.

### TransferQueue

| state | in the code |
|---|---|
| `records`, `cancel`, `maxConcurrent`, `nextId` | `TransferManager`, `NEXT_TRANSFER_ID`; a row's flag outlives the row, as the task's `Arc` does |
| `orders` | the `Vec<StartOrder>` in the hands of the one handler that holds the pump lock |
| `task` | where `transfer_task::run` stands for a transfer |
| `connected` | the keys of the registry |
| `at`, `target` | a command in flight and the await it is suspended at |

A command is one of a fixed set of callers, which walk from station to station:
`Request` (the session is required), `Enqueue` (the row is inserted), `TakeReady`
(the pump lock is taken and rows are promoted), `Spawn` or `DropOrder` (one
order each, in order), and back to idle. `DisconnectHost` and `ReapHost` take
the host out, then `ReleaseHost` fails its rows, then the caller pumps.
`PowerHost` takes the host out and does neither, as `power_host` does. `Promote`,
`Finish`, `Renumber` and `PruneHistory` are the manager's methods, with the
renumbering each of them ends with.

A transfer task copies (`NoticeCancel` between chunks), lands (flush, length
check, rename), has its outcome, and calls `finish`. Between the outcome and
`finish` the user may still cancel.

`QueueContract` is the abstract queue: transfers wait in line, are granted
slots (best first, never past the cap, never withheld), settle and are
forgotten. `KeepsContract` maps rows to it.

### Sessions

`entry` is the registry; `link` is each session's transport; `at`, `target`,
`holds` are the handlers with the session in their hands; `evicted` are the
sessions replaced by `insert`, each with a spawned teardown; `asked`,
`verdict`, `taken` are a heartbeat: the sessions it fetched at the start, how
far each check has come, and the session it is tearing down. Sessions are
numbered so that a session can be told from its successor; the code cannot.
`Reap` tests what the code tests, whether the *host* is connected.

### Downloads

A path is a name with the number `available_path` gives it. A file is apart
from its path, as an inode is: renaming a staging file moves it while a task
that has it open goes on writing. `bytes` says for each position of each file
which byte of which remote file is there, so that a hole, a shift or a mixture
shows. `Reply` is one reply of the read pipeline: `offset` advances by a chunk
whatever came back, `wrote` by what came, and what was not filled in shifts
the rest; the length check at the end is what finds it out.

Assumed of what the code runs on: Unix files (create truncates the file that
has the name; rename replaces; an open file survives both); an SFTP server
never returns more than it was asked for; a remote file does not change size
during a copy; removing a file succeeds; nobody else creates files in the
folder. The buffer between the copy and the file and the depth of the pipeline
are abstracted, replies being taken in the order of their requests.

Downloads may share a path, as in the code: `available_path` looks at the folder
and not at the queue. Two histories say what the properties need: `there`, the
files that were in the folder when a pending download was queued, and `shared`,
the paths two downloads were pending for at once. `FinalIsWhole` is about the
paths that are not in `shared`; `NothingLeftBehind` and `KeepBothKeeps` are about
all of them.

### TaskRuns

`session`, `lives`, `alive`, `draining` are the host's sessions over time;
`slots` is `LiveSession.streams` of each; `call`, `over`, `chan`, `code` follow
one call of `start_task` or `follow_service_log` through its handler and its
stream; `view`, `heard` are the window's run and the one close event it
remembers; `posted` and `asked` are close events and `close_stream` calls on
their way, unordered. The window's actions are `Start`, `Stop`, `CloseHost`,
the two answers, the two refusals and `Deliver`; the handler's are `Require`,
`CheckCap`, `Refuse`, `OpenStream`, `Park`; `StreamEnds` sends the close event
and gives the slot back, between which the code awaits nothing.

Two behaviours of the code are in the model and break none of its properties,
because the repository does not say clearly what should happen:

- a command that ends before its handler has parked the stream gives back a
  slot it does not have yet, and the slot taken afterwards stays taken
  (`StreamEnds` between `OpenStream` and `Park`);
- a task stopped before its id has come back is shown as stopped and its
  stream stays open (`Stop` without an id). A journal in the same position is
  closed when the answer comes (`JournalAnswered`, `JournalsAreClosed`).

### Connecting, JumpChain

`saved` is the host store, `file` the known-hosts file (kept, or one that
cannot be written), `known` its lines, for each host a set of keys, each of an
`Algorithm`, `vault` the remembered passwords,
`accepts` what each server takes today. A call resolves its chain (`JumpChain!Resolve`),
dials hop by hop (`Dial`), compares the key that is presented with the lines of
its algorithm (`KeyRefused`, `KeyMatches`, `KeyConsented`), writes it down where
it was new (`KeyLearned`), and authenticates with what its record, the caller and
the vault offer. Looking and learning are two steps, as `check_server_key` has
nothing locked between them; `overlapped` is a history of the hosts two calls
were about to learn a key of at once. `sent` and `refused` are histories:
what left for whom under which key, and what came back refused. The consent a
user gives is for the target's unknown key (`Consent`).

`JumpChain!Resolve` is `resolve` as a fold over the hops; `IsChain` defines,
by paths alone, what it should find.

### Tunnels

`live` and `phase` are the host's sessions and how far the teardown of each
is; `own`, `bind`, `listed`, `stopped`, `loops`, `listening` a tunnel from the
command that opens it to its end; `routes` and `served` the remote forwards of
a session; `conn` the connections and the relay of each. A tunnel ends because
it was told (`Told`: its stop channel fired, or the last holder of its handle
is gone), because the host lookup of its loop found nothing, or because its
session's transport died. `GoneTunnelsEnd` is what all of these amount to.

### Shells, ShellOutput

`Shells`: `lock` is a session's `lock_shell_open`, `parked` its map, `open` the
channels, `closing` the shells taken out of a map whose close is awaited, which are
open still and no longer counted; a call holds the session it found and the lock while it opens.
`ShellOutput`: packets, the decoder's `pending` bytes, the queue between the
reader and the batching task, the batch, and what the window was shown. `Lossy`
defines the text of a byte sequence as a whole; `Decode` is the incremental
decoder. It is shared by `stream.rs`.

### Sudo, Power, Services, Metrics

`Sudo`: two calls resolve a password (the kept one, the login one, a typed one,
checked on the host) while sessions are replaced by ones of another account.

`Power` and `Services` are tables with a machine at their end: the machine or
host is what it is (initial states), the program reads it, plans a command,
the machine does what such a command is documented to do, and the program
interprets the exit. In `Services` others may change a service between two
commands of one action. The machines are external to the code and are modelled
from the commands that `src/` runs.

`Metrics`: `previous` are the readings a session keeps, `slot`, `holder` the
Windows sampler behind its lock; readings carry ghosts that say which request
they answer.

### TaskPlan, Danger

Read-only: their inputs are the initial states. `TaskPlan` is the list of a
host (built-ins, saved tasks by scope and family, as a set: their order on the
screen is left out), the plan of one press and the decision to start. `Danger`
has one operator per rule of `assess`, over commands as sequences of words, each
of which may have a `;` glued to it: the rules that compare whole words do not
see such a word, those that look for a text do.

### RemoteFiles, RemoteTree

`RemoteFiles`: `at` is the host's folder (a path and what it holds), `up` an
upload from its queueing (where its path is chosen) to its end, `source` the
local file, which may change under it, `call` and `channel` the browser's.
`RemoteTree`: `queue`, `files`, `skipped`, `truncated` are `walk`'s own
variables; one action per folder taken from the queue. A tree is a function from
nodes to a kind, a name and the node they are in; what is behind a link is in
it, so that a walk that followed links would be seen to.

### SettingsFiles

`inode`, `tmp`, `final` are the files, `act` the commands between read, open,
fill and rename. Synchronous commands are one actor (the main thread); the
stamps of a connect and of a task start are others. `saved` is what the last
write that reported success meant, `mixed` whether commands have overlapped.

### VpnCache, VpnClients

`VpnCache`: two `TtlCache`s, each with the lock held across a load, cached and
forced callers, and the remembered list with the rule that drops it; `Restart`
empties memory. An answer is stamped `at` when it comes in, which is what the
code compares, and carries `from`, when it was read; `shares` are the caches
that were being loaded when a forced call asked. Both are histories. `VpnClients`: the five readers and the advice, read-only.

### HostsView

`parked` and `up` are the registry's session of one host, `shown`, `rendered`
and `health` are `connections`, `connectionsRef` and `health` of the window,
`dial`, `exit`, `beat`, `fresh` the calls under way. Answers are applied in any
order, and a heartbeat's answer uses the connections as of the last render.


## 3. The runs

A run either is about one module that interacts with nothing else, or is a sum
of such modules. In a sum the variable `area` says which part a behaviour is;
it never changes, the variables of the other parts keep their initial values,
and a property is about its own part. Parts that are only read (tables) have
their inputs as initial states and take no step. In `Files` and `Channels`,
which `MCFiles` and `MCChannels` give values to, the parts take turns in the
variables `v1`, `v2`, ..., each in the order of its own declaration. A sum
explores exactly the states of its parts, one after the other, with one
instance each. `MCFiles` and `MCChannels` extend the proofs of their sum, so
that TLC evaluates what the proofs assume of the constants.

| run | module, specification | parts and instance | shows |
|---|---|---|---|
| `queue_safety` | `MCTransferQueue`, `Spec` | 2 hosts, 2 callers, 2 transfers, history 0, cap choices 0, 2, 9 | types, owners, no second handout, stopped is never done, outcomes are final |
| `queue_contract` | `MCTransferQueue`, `Spec` | 1 host, 1 caller, 3 transfers, history 1 | the places that are shown follow the scheduler, and every waiting row has one after a step that starts, settles or re-ranks one; `QueueContract` is implemented |
| `liveness` | `MCProgress`, `FairAnySpec` | queue: 1 host, 2 callers, 2 transfers; window: 1 host, 1 heartbeat, a user's connect and a silent one, a disconnect or power command, refreshes | started transfers settle, handlers return; the status of a host comes to agree with the registry in both directions |
| `sessions` | `MCSessions`, `FairAnySpec` | registry: 1 host, 2 commands, 1 heartbeat, 2 sessions; tunnels: 2, over 2 sessions, 1 command, 1 connection, with and without an address | one keeper per session, no leak, slow replies spared, dead sessions reaped, what is out is closed; gone tunnels end |
| `files` | `MCFiles`, `AnySpec` | `Downloads`: 3 downloads of 3 bytes in chunks of 2, at most 2 of them pending at once; `SettingsFiles`: 2 records, 3 commands of 2 actors; `RemoteFiles`: 2 uploads, 1 browser call; `RemoteTree`: 7 nodes, files behind links among them, listings of 3; `Connecting`: 2 hosts, 4 layouts, 3 keys of 2 algorithms, all learnt in the run, 2 passwords; `VpnCache`: 2 callers; `JumpChain`: every store of up to 4 hosts; `Danger`: 15 commands, in pairs, joined in 5 ways; `TaskPlan`; `VpnClients` | whole files, cleanup, keep both; the previous settings survive; an upload that is done is whole; a walk says what it left out; no credential before the key, no refused password kept; a forced read is fresh unless it shared a load; chains; joined commands keep the reasons the rules do not drop; what is offered starts as said; advice blames the owner |
| `channels` | `MCChannels`, `AnySpec` | `TaskRuns`: 1 task, 2 journals, 1 session, cap 1; `Shells`: 2 calls, cap 1, 2 sessions; `ShellOutput`: every text of 3 bytes; `Sudo`: 2 calls, 2 passwords, 2 sessions; `Power`: every machine, delays 0 to 3; `Services`: 2 services of each manager; `Metrics`: 2 samples at once | counted streams, bounded overshoot, own outcomes that stay, closed journals; the shell cap; text is kept; kept passwords were accepted; commands do what they report; samples are their own; rates are bounded |
| `queue_drains` | `MCTransferQueue`, `SteadySpec` | 1 host, 2 transfers, cap 1 | *violated*: nothing pumps when a transfer ends |
| `sessions_reap` | `MCSessions`, `AnySpec` | 1 command, 1 session | *violated*: a session nobody checked is reaped |
| `danger_script` | `MCFiles`, `AnySpec` | as `files` | *violated*: the second command of a script loses its reason |
| `walk_silent` | `MCFiles`, `AnySpec` | as `files` | *violated*: a walk loses entries and says nothing |
| `store_torn` | `MCFiles`, `AnySpec` | as `files` | *violated*: two writers share one temporary file |
| `upload_keepboth` | `MCFiles`, `AnySpec` | as `files` | *violated*: two uploads that keep both get one path |

The runs marked *violated* each check one sentence of the repository's comments
or documentation against the code; `PROJECT.json` quotes the sentence under
"findings". Their traces are behaviours of the code as it is:

- **queue_drains**: `transfers.rs:10` "a queue left alone drains". The last
  step of `run` is `finish` and an event; the next waiting row starts only when
  some command happens to pump.
- **sessions_reap**: `commands.rs:457` "Reap sessions that failed their
  liveness check". The check and the reap meet only in the host id.
- **danger_script**: `danger.rs:129` "a two-line script is two commands, and
  both are being assessed". A newline becomes a space, so the second command
  follows no separator, and the targets are those of the first forced recursive
  `rm` only. Joined by separators the rules lose two things, which
  `BothAreAssessed` excepts by name (`Lost`): the reasons of recursive deletes,
  and that of an ownership rewritten when the `;` is glued to the path (in
  `chown -R me /; ls` the word is `/;`, `danger.rs:672`).
- **walk_silent**: `sftp.rs:359` "named so the UI can say what was left out
  rather than silently transferring less". `walk` drops the `truncated` of
  `list_dir`. `MirrorsTheTree` is the same promise where every listing fits.
- **store_torn**: `private_file.rs:32` "replacing any existing file
  atomically". `IntactAlone` is what does hold, as long as commands do not
  overlap.
- **upload_keepboth**: `commands.rs:1400` "a caller that forgets to choose
  cannot destroy anything". The free path is looked for when the upload is
  queued.

### Stated, and known to be violated

These are definitions of the modules too, each with the sentence it comes from.
No run of its own goes with them: one line in a cfg shows the trace.

| property | module | what happens |
|---|---|---|
| `ReasonStays` | `TransferQueue` | the flag `fail_host` raised turns a failed row into Canceled without its reason (`transfers.rs:336`) |
| `NothingParked` | `TransferQueue` | `power_host` removes the session and releases no transfers (`transfers.rs:335`) |
| `EndedIsSettled` | `TaskRuns` | one close event is remembered, and another stream's takes its place (`taskStore.ts:220`) |
| `WaitingHavePlaces` | `TransferQueue` | a row that joins while no slot is free has no place, and one of high priority is ahead of the row shown as 1 (`transfers.rs:12`, `transfers.rs:99`) |
| `FinalIsWhole` of paths in `shared` too | `Downloads` | two downloads queued to one name write one staging file (`transfer_task.rs:10`) |
| `KeepBothKeepsAll` | `Downloads` | two downloads that keep both, queued for one free path: the second to land replaces what the first brought (`commands.rs:1400`, `commands.rs:1486`) |
| `OneKeyOfAKind` | `Connecting` | two calls each find no key of a host, and each learns the one it was shown (`ConnectDialog.tsx:194`, `client.rs:172`) |
| `RefusedByHopNotKept` | `Connecting` | a password refused by a hop stays in the vault (`secrets.rs:52`) |
| `NothingLostAtClose` | `ShellOutput` | bytes still pending in the decoder at the end are not shown (`shell.rs:324`) |
| `DeletedStaysDeleted` | `SettingsFiles` | a stamp read before a deletion writes the record back (`hosts/store.rs:45`) |
| `ForcedIsFresh` | `VpnCache` | a load under way at the press is stamped when its answer comes in, and the press, which waited for it, is given it (`cache.rs:33`) |
| `ForgetsOnlyOnline` | `VpnCache` | status and list are of two moments, and the list that is dropped may be of the offline one (`remembered.rs:9`) |

### Bounds, and why they are enough

Bounds are constants named as such (`MaxTransfers`, `MaxSessions`,
`MaxDownloads`, `MaxPending`, `MaxLength`, `MaxVariant`, `MaxOpening`, `MaxTunnels`,
`MaxIds`, `MaxOps`, `MaxTurns`, `MaxChanges`, `AtOnce`, `MaxTime`, `MaxWork`,
`MaxSamples`, `MaxLines`), used in guards and initial states.

- Two hosts are needed for one host's release to touch another's rows; two
  callers for a race on the pump lock and between a pump and a disconnect; two
  transfers for a choice; three, with cap 2, for a place number that moves by
  more than one and for overtaking. History 0 and 1 prune at once and while
  others still wait. Cap choices 0 and 9 lie on both sides of what is allowed.
- Two sessions of a host are a session and its successor; two commands and a
  heartbeat are the three teardowns that can meet. In `HostsView` sessions are
  not numbered at all: a heartbeat knows whether the one it got is still the
  registry's, so any number of them may follow one another.
- Two tunnels are one per session, or two of one; an address or none is a
  remote and a local forward.
- A file of a chunk and a half has a full request and a partial one, so that a
  short reply can come before, at or after a gap. Two pending downloads are two
  that share a path or are one behind the other; a third comes after either.
  Three downloads to one name reach number 2. They never run out of numbers: `KeepBothKeeps` is about a
  folder that still has a free one (see section 5).
- With cap 1 and two calls between their look at the cap and their slot, three
  calls can pass the cap and be refused; a task and two journals have a close
  event of another stream. One session: the proofs cover any number, and with
  two calls and two sessions TLC also finishes in under a minute.
- Two uploads are one and the one it disturbs; two chunks have a middle. Three
  commands on a settings file are two that overlap and one that was before. A
  tree of seven nodes with a listing of three, a total of four and a depth of
  one passes every limit alone and together.
- Two keys of one algorithm are a key and another that must not pass for it; a
  third of another algorithm may stand beside them. `known_hosts` is empty at
  first (`MaxLines = 0`), so every line is one the run has learnt; the proofs start
  from any lines.
- A gateway and what is behind it are a hop and a target; two calls run at once
  where the target is all there is, one where there are hops. `JumpChain` is
  checked on every store of four, loops and dangling hops included, with limits
  below and at the longest chain.
- A character of three bytes, cut anywhere, fits a text of three.
- One change of a client, a service or a password lies before, during or after
  every step of a call.

The code's own limits are larger (200 rows of history, cap 8, 999 numbers, 4
streams, 4 hops). The theorems are for every value of the constants they name.

Symmetry is used where only invariants and action properties are checked; no
definition tells the permuted values apart. The two liveness runs use none.
Deadlock is checked where the system can always go on (`MCTransferQueue`,
`MCProgress`). The other sums have parts that stop: every call of the bound is
used up, or a table takes no step.

### Fairness

- `TransferQueue!Fairness`: a handler that was called is polled until it
  returns (weak fairness of each of its steps); tokio's mutex is FIFO, hence
  strong fairness for taking the pump lock; SFTP requests time out, so a
  copying task ends (weak fairness of the task's steps). Nothing is assumed of
  the user, nor that a host stays connected. `SteadySpec` adds that hosts stay
  connected, to give the queue its best case.
- `Sessions!FairSpec`: dials, remote commands, checks (5 s) and probes (3 s)
  time out, teardowns are messages to the transport's own task, so handlers
  proceed; the window's timer beats while it is visible, so heartbeats go on.
  `DeadIsReaped` needs that timer.
- `Tunnels!Fairness`: a call of the window goes on, an accept loop that was
  told to end ends, a dial is answered within its time limit, a relay whose end
  was announced ends, a teardown is carried through. Nobody has to connect,
  close anything, or come to an end without being told.
- `HostsView!FairSpec`: React renders, calls are answered, the heart beats
  while the window is looked at. Nothing is asked of the user, and no connect
  has to succeed.
- The sums (`FairAnySpec` of `MCSessions`, `MCProgress`) take the fairness of
  their parts with the area as a further guard, where the part has something to
  do in its initial state; a part that is not the behaviour's own owes nothing.


## 4. The proofs

All are checked by TLAPS (SMT, Zenon, LS4), for every value of the constants
that the assumptions allow: any set of hosts, callers or files, any bounds.

The assumptions are `ASSUME`s of the modules that declare the constants
(`QueueAssumption`, `SessionAssumption`, `DownloadAssumption`,
`TaskRunAssumption`), or definitions which the theorems of a part take as
hypotheses (`StoreAssumption`, `ConnectAssumption`, `ShellAssumption`,
`OutputAssumption`, `SudoAssumption`, `ServiceAssumption`, `TreeAssumption`) and which the sums assume of their instances
(`PartsAssumption` of `Files` and of `Channels`). TLC evaluates them all. Most
say that a bound is a natural number, that a "nothing" is not one of the things,
or which values a constant set holds. The rest say something about the code:

- a saved task has an id of its own, which no built-in has
  (`PressAssumption`): the store replaces a task by its id (`tasks/store.rs`),
  and `tasks/commands.rs:306` tests that the two kinds of id cannot collide;
- a remote tree is a tree (`IsTree`): finite, every node below `Root`, no two of
  a name in one folder, nothing in a plain file, and no node called "", "." or
  "..". That is what a server's file system is; `russh_sftp`, from which
  `list_dir` takes its entries, drops "." and ".." itself, and `EntryKind` has
  the four kinds. What is behind a link may be anything, as long as it is
  listed once: `walk` never opens one;
- a host has finitely many services, each with a name of its own that is
  neither empty nor the mark of a line that is no unit row, and an event of a
  Windows log says something, on lines that are not blank (`ServiceAssumption`).
  A blank line is passed over by `parse_wevtutil`, so it is no part of a text
  here; a line of a description that reads like a field label would end it in
  the code (`is_wevtutil_field`), and is not among the lines modelled;
- no saved host has the id that stands for "no jump host";
- a command to be rated is at least one word. Words are strings or separators;
  a rule looks at nothing else.

Two theorems have a hypothesis more, named in the theorem. `KeepBothKeepsBoth`
is about folders whose numbers do not run out (`NamesSuffice`: no more downloads
than numbers; `available_path` gives up after 999, see section 5).
`SlowRepliesAreSpared` is about heartbeats that do not overlap (`OneBeat`). The
timer's are 30 s apart and a check with its probe is over in 8 s; a window that
becomes visible beats at once and may overlap one, and then an answer to the
second can clear the count on which the first is about to close the session.

| module | theorem | states |
|---|---|---|
| `TransferQueueProofs` | `TypeCorrect`, `Inductive` | `TypeOK`, `IInv` |
| | `RunningAlwaysOwned`, `NeverHandedOutTwice`, `StoppedIsNeverDone` | `RunningHasOwner`, `HandedOutOnce`, `StoppedNeverDone` |
| | `OutcomesAreFinal` | the action property `OutcomeIsFinal` |
| | `PlacesAlwaysInOrder` | `PlacesInOrder`, the state part and the step part |
| | `QueueKeepsContract` | `KeepsContract`: the queue implements `QueueContract` |
| `SessionsProofs` | `SessionsTyped`, `SessionsInductive` | `TypeOK`, `SInv` |
| | `SessionsNeverLeak`, `SessionsHaveOneKeeper` | `NoLeak`, `OneKeeper` |
| | `SlowRepliesAreSpared` | the action property `SlowReplySpared`, for one heartbeat at a time |
| `ConnectingProofs` | `ConnectTypes`, `ConnectInductive` | `TypeOK`, `CInv` |
| | `NothingSentToStrangers`, `RefusedIsForgotten` | `KeyBeforeCredential`, `RefusedNotKept` |
| `RemoteTreeProofs` | `WalkInductive`, `WalkMirrorsTree` | `WalkInv`, `MirrorsTheTree` |
| `ShellOutputProofs` | `DecodeKeeps`, `OutputInductive` | decoding may stop anywhere; `OInv` |
| `FilesProofs` | `DownloadsTyped`, `DownloadsInductive`, `FilesAreWhole`, `FailuresCleanUp` | `TypeOK`, `DInv`, `FinalIsWhole`, `NothingLeftBehind` |
| | `KeepBothKeepsBoth` | the action property `KeepBothKeeps`, where numbers suffice |
| | `SettingsIntact`, `KeysCheckedFirst`, `RefusedForgotten` | `IntactAlone`, `KeyBeforeCredential`, `RefusedNotKept`, of the sum |
| | `WalksMirrorTrees` | `MirrorsTheTree`, of the sum |
| | `ChainsAreFound` | `Resolves`: `resolve` finds the chain of jump hosts there is, and says why where there is none |
| | `UploadsAreWhole` | `DoneIsWhole` |
| | `ForcedIsFreshUnlessShared` | `FreshUnlessShared` |
| | `OwnersAreBlamed`, `CommandsKeepReasons`, `OffersStart` | `BlamesTheOwner`, `BothAreAssessed`, `StartsAsOffered` |
| `ChannelsProofs` | `TaskRunsTyped`, `TaskRunsInductive`, `OpenStreamsCounted`, `OvershootIsBounded`, `OutcomesOwn`, `JournalsGetClosed` | `TypeOK`, `TInv`, `OpenIsCounted`, `OvershootBounded`, `OwnOutcome`, `JournalsAreClosed` of `TaskRuns` |
| | `OutcomesStay` | the action property `OutcomeStays` |
| | `ShellsCapped`, `TextsAreKept`, `AcceptedIsKept` | `CapHolds`, `TextIsKept`, `KeptWasAccepted`, of the sum |
| | `SamplesAnswerThemselves`, `RatesNeverOvershoot` | `AnswersItsOwn`, `NeverMoreThanCarried` |
| | `DoneAsAsked` | `AsAsked`: `AsAsked` of `Power`, `ShowsAsDone` and `EachItsOwn` of `Services` |

### The inductive invariants

- **IInv**. That a Running row has an owner is not inductive by itself: an
  order could be dropped by a second pump, or `finish` could revive a row that
  was failed. `PumpHeldOnce` says the lock has one holder and orders exist only
  while it is held; `UnaskedBlank` that ids not given out have no trace;
  `OwnedOutcome` that while a task or an order is alive, its row is Running,
  cleared away, or failed by `fail_host` *with its flag up*, which is why
  `finish` can only make it Canceled. From this follow the rest and the action
  property.
- **Placed**. `PlacesAgree` compares two numbers; what is inductive is what
  `renumber` computes: a number is one more than the row's rank among the
  numbered rows, only waiting rows have one, and the waiting rows without one
  (`Bare`: they joined since) came after all that have one. `RankFollowsAhead`
  and `RanksFill` are the facts about ranks: a rank is smaller exactly when the
  row is ahead, and the ranks of n rows are the numbers below n, as an injection
  between sets of one size is onto. For the steps, a handler either ends with
  `renumber`, after which every waiting row has a place whatever was there before
  (`RenumberPlacesAll`), or leaves the waiting rows as they are (`PlacesStep`).
- **QueueContract**. The mapping takes a row's state for its place in the
  contract, and each step of the queue is one action of the contract or none
  (`SubmitStep`, `GrantStep`, `SettleStep`, `RerankStep`, `ResizeStep`,
  `ForgetStep`). The heart is `ChosenAreBest`: what `Promote` picks by rank are
  as many as the cap leaves room for, and nobody who is left waiting is ahead
  of one that is picked. The steps rest on `IInv`, without which `finish` of a
  forgotten or failed row would settle what the contract has settled already.
- **SInv**. A session in anybody's hands, taken by a heartbeat, or evicted, is
  outside the registry and in one place only (`HeldApart`, `TakenApart`,
  `EvictedApart`); a session about to be parked is of the host it goes to
  (`CheckedOwn`); and no open transport is lost (`Kept`). Taking a session out
  of the map before tearing it down is then enough to be its only keeper.
- **Grounded**. What a heartbeat knows: the sessions it asked were made
  (`AskedMade`), each for one host (`AskedApart`), and one it no longer takes
  for well was found closed or has missed its beats (`FoundOut`). A transport
  does not come back, and with `OneBeat` nobody resets the count of missed
  beats in between, so what was found out is still true when the session is
  closed.
- **DInv**. A file belongs to a path, that of the download that made it, and is
  there under one of its two names (`FilesInPlace`); what a download has open is
  a file of its own path (`OwnPath`), and a download that has not started has
  none (`FilesOld`). Two pending downloads of one path have made it shared
  (`Apart`), so nobody else writes into the open staging file of one whose path
  is not (`Alone`). `SoFar` is the heart, and claimed of those: nothing lies past
  what was written, and *if* what was written is as much as was asked for, all of
  it is in place. A short reply breaks the premise for good, because `offset`
  runs ahead; so at the end the length check passes only if the premise held all
  along. The cleanup (`NothingLeftBehind`) needs no such condition.
- **Spared**. The files that were there when a pending "keep both" download was
  queued are of other paths than its own, and stay so, because a file belongs to
  its path; and a download touches files of its own path only. That its path had
  no file when it was chosen (`EnqueueSpares`) is a pigeonhole argument
  (`NumberLeft`): every path that is not free is held by a download of its own,
  so with `NamesSuffice` there is a free number for one more. Who else is pending
  for the path does not matter (`StepSpares`, `OthersSpared`).
- **TInv**. `InStep` ties a call's stage to its channel; `HeardEnded` says
  that a close event, on its way or remembered, is of a stream that has ended,
  so an outcome taken from it cannot change; `Counted` adds the calls past
  their look at the cap to the slots taken: the sum is what no step raises
  except `CheckCap`, under both guards, and that is the bound on the overshoot.
- **CInv**. A call under way goes through saved hosts and ends at its own
  (`Sound`); a key it calls sure is known, or was consented to for the target;
  and what left before was allowed (`SentRight`). No line is ever removed, so a
  key that was known when it was accepted is known when the credential leaves.
  That it is the only one of its algorithm (`Sole`) is so when it is accepted,
  and stays so because a call that is about to learn a key has seen none
  (`Fresh`), and two of those for one host have made it overlapped (`LearnAlone`).
  `Outline` is what `CInv` leaves out of the types.
- **JumpChain**. That a call goes through saved hosts rests on what `resolve`
  returns, which is a fold. A fold cannot be unfolded by an induction theorem
  here, so the induction goes through sets: a set of numbers that holds 0 and
  with n also n + 1 holds every number (`SetInduction`, from `Least`, in `Recursion`), and the
  values of the fold from one turn to the next are a function (`Iterates`).
  `Right` is then kept by every turn (`TurnsRight`): the walk stands where its
  chain ends (`Followed`), and if it has stopped with an error there is no chain,
  because a walk goes back along the chain if there is one (`WalksBack`).
- **ShellInv**. A call that is past the cap holds its session's lock and its
  session has room (`OpensApart`) until its shell is parked; nobody else parks
  in between; every open shell is in the map of its session or is being closed
  (`OpenParked`).
- **OInv**. `DecodeKeeps` is about one push: the characters decoded, before the
  text of what is left pending with anything that may follow, are the text of
  the whole. It holds because more bytes do not change what a text begins
  with, unless that is a character cut off (`BeginsSame`, `RestSame`). Without
  "anything that may follow" (`Makes`) the invariant would not survive a
  `Write`. `Lossy`, `Valid` and `Carried` are recursive functions: that they
  are what their definitions say is proved first (`Recurses`, for functions
  that recur to something smaller), and what holds of every text is shown by
  induction over sets of texts (`BySize`). An exit status is known or in one of
  the two queues (`StatusGoesOn`), and the tasks end only when their queues are
  empty (`EndIsEmpty`).
- **SudoInv**. The session a password is checked over is one that was made, and
  is the one that keeps it; sessions never change accounts; a session yet to
  come keeps nothing.
- **StoreInv**. Until two commands overlap there is at most one writer
  (`OneWriter`), the temporary name is not a second name of the file (`TmpApart`),
  and what a writer writes to is the temporary file (`WritesToTmp`); the file's
  own inode is therefore never written to, and the rename is the step that
  reports success. Once two overlap, nothing is claimed.
- **WalkInv**. Every folder on the stack is reached through folders, and so is
  every file taken; and, where listings fit, a file below the folder is taken,
  or something above it is named as skipped, or a folder above it is still on
  the stack (`Waits`). When a folder is listed, the node of the file's path
  that is in it (`OneUp`, `UpTells`) is the file, a folder that goes on the
  stack, or something that is named; when the stack is empty, nothing waits.
  That two files taken are not put at one place is about the definitions:
  `Climb` and `Normalize` are recursive, and are shown to be what they say
  (`ClimbIs`, `AppendingIs`); a path without "." and ".." is its own normal form
  (`NormalizeKeeps`); and two nodes of one path are one, from the root down
  (`RelativeTells`, by `TreeInduction`), because no folder has two things of a
  name.
- **RemoteInv**. A file that is one upload's alone (`Unmixed`) holds as many
  chunks as that upload has read, wherever it has been renamed to; an upload
  that copies still has it open; one that is done has read all there was
  (`Brings`). A second upload that opens the same file makes it mixed, and
  `DoneIsWhole` claims nothing of that.
- **VpnInv**. What a cache holds, or a load under way has read, was read after a
  forced call asked, if it is something that call may be given and the call
  shares no load with it (`Due`): a load that was not under way when it asked
  began after. The lemma is `GivenInTime`: a forced read that looks at the slot
  again, after it has waited for the lock, takes only what came in since it asked.
- **MetricsInv**. Whoever waits for the sampler is alone, and the sampler holds
  nothing but its question or the answer to it (`AloneAtSampler`), because
  a sampler that was too slow is dropped and not kept. For the rates,
  readings and answers of any two moments are in the order of those moments
  (`InTime`), so counters between them grew by no more than was carried, and a
  counter that fell is not in the rate.
- **PowerInv**. A plan that runs is the command for what was asked and was not
  refused (`Planned`); on every family that command does what was asked
  (`DoesAsWanted`). Busybox knows neither a delay nor a cancel, and it is the
  refusal of these that the lemma needs.
- **ServicesInv**. Whoever else changes a service, the host stays what it was
  but for that (`SameHost`); what is left to run ends in what was asked
  (`StillAsked`, `PlansEnd`), so a command that is done has left its service
  down, or up, or with systemd exited (`LeftAsAsked`); and the log is what was
  read of the host's own events (`LogOfHost`). What a list or a log then shows
  is about the readers, which are folds. They are first shown to be runs along
  the lines (`ScRuns`, `LogRuns`), and the sequences of lines to be blocks one
  after another (`FlatIs`). From whatever was read before it, a block of `sc`
  or of `wevtutil` flushes that and leaves its own entry or event under way
  (`ScBlockRead`, `BlockRead`), so by induction over the blocks all of them are
  read, in order (`ScListRead`, `EventsRead`); the other managers say a line of
  each (`ListIsLines`). What the filter keeps has the k-th thing kept at its
  k-th place (`OnlyIs`).
- **Tables**. `Danger`, `TaskPlan` and `VpnClients` have no steps; their
  theorems are about their operators. A command stands in the text it was
  joined into, where a command may begin (`Within`, `JoinedWithin`), and every
  rule of `assess` that fires for the one fires for the other (`RulesKept`),
  but two: that of recursive deletes, which looks at the first only (the run
  `danger_script`), and that of ownership, to which a path with a `;` glued to
  it is not the root (`TouchesWithin`, where nothing is glued). A saved task is
  found by its id alone (`FoundOnce`), so
  what `for_host` lists, `resolve` finds (`OfferedResolves`). Advice and glyph
  are of the same clients (`BlameIsOwned`), and one owner is one
  (`OneOwner`).

### Only model-checked

- Liveness: `RunningSettles`, `CommandsReturn`, `StatusIsHonest`,
  `DeadIsReaped`, `OutIsClosed`, `GoneTunnelsEnd`. Fairness and `ENABLED` are
  beyond the prover.
- The properties listed above as known to be violated, and the modules
  `HostsView` and `Tunnels`, whose properties are liveness.

No module uses a `RECURSIVE` operator.

## 5. What is not modelled

Besides the abstractions named in each module:

- Readers of security, audit and defender findings, SSH configuration, local
  keys and their permissions: a command or a file in, a page out, no state
  between calls and no step that races another.
- The tray icon, application start and exit (`disconnect_all`), updates,
  logging.
- In the window: terminals and their tabs, the transfer list, dialogs,
  preferences, saving and removing hosts. The Rust side of terminals is in
  `Shells`, that of transfers in `TransferQueue`.
- Keepalives, loading of keys and passphrases, forwarding of the agent.
- The texts: quoting of commands, JSON and the formats of readers are reduced
  to what their reader looks for.
- After 999 copies of a name `available_path` falls back to the plain name, and
  the comment at `transfer_task.rs:342` says that the create then fails loudly;
  `create_owner_only` truncates. The model contains the fall back
  (`AvailableVariants`) with the code's effect, and the 1000th copy kept beside
  the others would replace the plain name; `KeepBothKeeps` is checked where a
  number is left.
- A disconnect whose teardown is slow releases transfers by host id, and may
  fail those of the host's next session. `TransferQueue` contains it; stating
  that it should not needs sessions with an identity, as in `Sessions`.


## 6. Plan

1. **SessionTransfers**: `TransferQueue` over the sessions of `Sessions`, so
   that a release by host id can be told from a release of the session it was
   meant for.
2. **TerminalsView**, **TransferView**: the window's terminals (a shell that
   exits before its id is known, a tab closed while it opens) and its copy of
   the queue, beside `HostsView`; saving and removing hosts.
3. `disconnect_all` at exit, with the handlers that are under way.

Theorems planned: of `GoneTunnelsEnd` the safety part, that a loop which was told holds nothing of
its successor's session; the core of `HostsView`, that a status is shown as
done only when its call is; the types of the remaining parts.
