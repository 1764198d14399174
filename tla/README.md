# Kaduox-SSH: TLA+ specifications and proofs

Kaduox-SSH is an SSH client suite in Rust: a core library that keeps authenticated
connections, a transfer library on top of SFTP, a library of hosts, a daemon, command-line
and terminal front ends, an MCP server, and a desktop application.  The specifications
here model the parts whose correctness depends on interleavings, cancellation, crashes, or
long sequences of calls.  TLC checks them on small instances.  TLAPS proves the central
invariants for every number of callers, names, tasks, files and connections.

`PROJECT.json` lists the components, the runs with their properties, the source lines
behind every definition, the hazards, and the theorems.  Source paths below are relative
to the repository.

## The parts of the system

| Part | Source | Module |
| --- | --- | --- |
| Connection manager | `crates/kaduox-ssh-core/src/manager.rs`, `manager/jump.rs` | `ConnectionManager`, and what it promises: `ConnectionPool` |
| Connecting: jumps, host keys, authentication | `client.rs`, `connect.rs`, `auth.rs`, `handler.rs`, `host_trust.rs` (same crate) | `Connect` |
| Commands, shells, SFTP sessions of one client | `client.rs` | `Channels` |
| Port forwarding | `forward.rs`, `handler.rs` | `RemoteForwards`, `LocalForwards` |
| Uploads through sudo | `privileged.rs` | `Privileged` |
| Transfer task registry and manager | `crates/kaduox-ssh-transfer/src/transfer_task.rs`, `transfer_task_manager.rs` | `TransferTasks` |
| Single-file transfers | `transfer_policy.rs`, `transfer_download_policy.rs`, `transfer.rs` (same crate) | `FileTransfer` |
| Directory transfers | the same, `symlink_policy.rs`, and the desktop's `commands/files.rs` | `TreeTransfer` |
| Remote file management | `remote_mutation.rs`, `remote_fs.rs`, `commands/files.rs` | `RemoteMutation` |
| Synchronization | `sync.rs`, `sync/preflight.rs`, `sync/source_preflight.rs` | `Sync` |
| Host library | `crates/kaduox-ssh-hosts/src/`, `commands/hosts.rs`, `hosts_cli.rs`, `chains_cli.rs` | `HostLibrary` |
| Daemon and its client | `crates/kaduox-ssh-daemon/src/`, `daemon_cli.rs` | `Daemon` |
| OpenSSH configuration | `crates/kaduox-ssh-openssh/src/openssh_include.rs`, `openssh_match.rs`, `host_catalog.rs` | `UserConfig` |
| Fleet execution | `fleet_main.rs`, `fleet_targets.rs`, `inventory.rs` | `Fleet` |
| MCP server | `crates/kaduox-ssh-mcp/src/main.rs` | `Mcp` |
| Desktop session healing | `apps/kaduox-desktop/src-tauri/src/state.rs`, `commands/` | `DesktopSession` |
| Desktop assistant | `commands/ai.rs`, `command_classify.rs`, `src/components/AiView.tsx` | `Assistant` |

How they meet: every front end asks the connection manager for a transport and gets a
lease; a transport is made as in `Connect` and used as in `Channels`.  Transfers and
synchronization run over a leased transport.  A transfer that a user can watch or cancel
is registered as a task, whose runner calls the single-file or the directory engine.  The
desktop keeps one leased session per host alias and heals it by asking the connection
manager again.  The daemon and the MCP server keep connections for other processes.

The modules meet at what one part promises another.  `ConnectionPool` states what the
manager promises; `DesktopSession`, `Daemon` and `Mcp` use it only through that, for one
name.  `Sync` treats one upload as one step and `TreeTransfer` one copy as three, whose
inside is `FileTransfer`.  `HostLibrary` keeps the routes that `Connect` goes along.

An action is one stretch of code between two points where something else can run: an
await, a lock, an atomic, a request to a server, a system call on a shared file.

## The modules

**ConnectionManager.**  `connections` is the `RwLock<HashMap>` from names to wrappers,
`connecting` the in-flight table, `available` the capacity semaphore, `managed` the
wrappers by pointer; a caller has a program counter, its request, and what it owns.  Arc
counts are derived from who holds what, which is what Rust's counts are.  A connect is
`BeginConnect`, `LookupMiss` / `LookupDead` / `LookupHit` / `LookupReject`, `EvictDead`,
`Claim`, `Prune`, `DropPruned`, `Acquire`, `ConnectOk` / `ConnectFail`, `Insert`,
`Handoff`, `Unlead`.  `get`, `get_lease`, `remove`, `close_all` and pruning have actions
of their own.  `Cancel` drops a call at any await.

**ConnectionPool.**  The same promises without locks, lookups and signals: a name is bound
to one connection at a time and to none while one is made for it, the limit holds, and a
connection exists exactly as long as it is bound or in use.  `ImplementsPool` maps the
manager to it (`bound` is `connections`, `maker` the leaders past their lookup, `uses`
what a caller holds or leases, `live` the wrappers).

**Connect.**  A route of hosts, one `known_hosts` file that other processes also write,
and servers that may come back with another key, also one of another algorithm: as
`check_known_hosts` does, `Lookup` calls a key changed only if one of its own algorithm is
recorded.  `Dial`, `CheckCertificate`, `CheckKey`,
`Learn` follow `check_server_key`; `Ask`, `Accept`, `Refused`, `RefuseSecret`,
`InfoRequest`, `AgentFails`, `KeyFails` follow `authenticate` with its retry over the
sibling method and its limits on rounds and prompts.  `Breaks` is any await that fails or
times out, which drops every handle made so far.

**Channels.**  The calls that share one client, each with one channel: `OpenConfirmed`,
`AskPlatform` and the probes, `Granted`, `ServerCloses`, `Closed`.  `Lapse` is a timeout or
a dropped call; `OpenLate` is the confirmation that comes after it.

**RemoteForwards, LocalForwards.**  Both directions of the transport are queues.  `Ask`,
`Register`, `Rejected`, `AskTimesOut`, `Drop`, `Unregister`, `CancelReturns` are the
client's task, `Arrives` its event loop, `ServerTakes` and `ServerOpens` the server.  The
listeners of `-L` and `-D` have `Accept`, `AcceptFails`, `Negotiated`, `Opened` and their
timeouts; the texts of SOCKS replies are left out.

**Privileged.**  `Create`, `StageFails`, `Install`, then the install script, one step per
command (`ScriptSteps`, which may leave a copy half way, `ScriptFails`, `ScriptKilled`),
`LinkLost`, `ExecReturns`, `Clean`.  The script goes on after the connection is lost.  A
directory may stand at the destination of a file, or at the path beside it.

**TransferTasks.**  The registry (`tasks`, `order`, `next_id`, `max_retained`, the
cancellation tokens), the runners, and per task the progress queue and the bridge.  Every
registry method holds the registry's mutex throughout and is part of one action.  `retry`
takes the lock twice and is two actions.  The bridge is a spawned task with one action
for each branch of its `select!`.  `DropFuture` drops the runner's future.

**FileTransfer.**  A file system of names and inodes, open handles, the source and its
version, and the calls.  Names and inodes are distinct because a download publishes with a
hard link and a handle outlives the name it was opened by.  A block records the version of
the source it was read from.  A call looks at the destination, chooses its staging name,
opens it, copies block by block, syncs, looks again, publishes, unlinks and stamps.  Any
request may fail, the process may crash between any two steps, the source may change and
the user may move the destination.  SFTP writes are applied in order (the pipelined window
lives in the SFTP library), and a rename does not replace its target, as SFTP version 3
requires.  The `atomic` branches of the engine in `transfer.rs` are not reachable: it is
only called with `atomic = false`.

**TreeTransfer.**  The link policy, the preflight, the walk with its stack, and the tasks
of the `JoinSet`: `Policy`, `Preflight`, `Root`, `ReadDir`, `Entry` (skip, descend, or
spawn and wait for a slot), `PopDir`, `Collect`, `Finish`, and `TaskOpen`, `TaskCopy`,
`TaskPublish` beside it.  A call that fails drops its tasks, but a publish already asked
for still happens.  A resuming call meets files, or staging files, that an earlier one
left (`Found`, `OpenResumed`), and goes by their length as the engine does.

**RemoteMutation.**  One step per SFTP request: `Check`, `ListEmpty`, `Mutate` for the
single calls; `ScanDir`, `Planned`, `Execute`, `Rescanned`, `StatEntry`, `EmptyEntry`,
`DeleteEntry` for the approved removal, which scans again and compares before it deletes.
`LostCall` and `LostAnswer` are a request that fails before or after it took effect.

**Sync.** Both trees, the options, the scanned snapshot, the plan and the position in it,
the upload set, and the phase of the call. Scan and preflight are one step each; every
mutation and every upload is one step; others may change either tree in between. A fresh
atomic upload stages under a unique name that is no path of the tree; a resumed one takes
up the entry at its stable name (`Staging`, `Leftover`), which is a path like any other,
and an upload that is interrupted leaves one there. Left out: files whose time lies before
1970, and the validation of path components.

**HostLibrary.**  The file, the guard of the desktop, and the edits under way.  An edit
opens the file, computes a new library (`UpsertHost`, `SaveChain`, `RemoveFolder`,
`Import`, ... with `Valid` as `HostDatabase::validate`), stages and publishes it.
Processes outside the desktop take no guard.  `DesktopCrashes` falls between any two steps.

**Daemon.**  Processes that ask for one command or one shell, first without and then with
credentials, and the handlers that serve them, joined by two queues of frames.  `GiveUp`
decides between failing and the direct fallback as `is_endpoint_unavailable` does.
`ReadStream` has the three ways a read can end: a frame, the end of the stream, which
aborts the shell, and an error, which leaves its task running with nobody to abort it
(`adrift`, `AdriftEnds`).
`Shutdown`, `Evict`, `EditHost`, `Interrupted` and `StdoutBreaks` come from outside.

**UserConfig, Fleet.**  The recursions of `expand_connection_file` and
`expand_group_inner` are written with their stacks, so that their limits, cycle checks and
scopes are states.  What they compute is compared with a definition that has no stack
(`Holding`, `Members`).  `Fleet` goes on with the tasks, their output and their results.

**Mcp.**  Lines in, responses out, one at a time; tools that read the library and tools
that run over a pooled connection, while the library is edited.

**DesktopSession.**  The session entry and the manager's binding of one alias, the
transports that are up, the controls (terminals and forwards) that hold leases, the
reconnect lock with its table slot, the disconnect generation, the cooldown, and the
commands.  Left out: the host-key and secret prompts of `connect_host`, and terminal byte
streams.

**Assistant.**  The view's refs and flags, the chains (activations of its asynchronous
functions), the cards of each reply and what has been written to the conversation's file.
A command is a sequence of segments with a risk on either platform; `Level` combines them
as `classify_command_for` does.  In the back end `Check` is the second check (`Allows`),
with the platform of the session of that moment, and `Runs` looks the session up again and
runs the command; the session may be replaced in between.

## The runs

TLC finds no error in the nine passing runs, and finds the violation in the other three.
Several small modules share a run: `which`, chosen in the initial state, says which of
them a behaviour is about, and the variables of the others rest.  A property of such a run
is the conjunction of the module properties it names.

| Run | Instance | Distinct states |
| --- | --- | --- |
| `pool` | two callers, two names, two wrappers, two configurations, one key and the non-reusable one, one permit, all operations | 1,207,212 |
| `tasks` | two runners (either may be dropped), three kinds in both directions, one or two retained tasks, two ids, queue of two | 1,945,898 |
| `files` | five settings: a resuming call beside a fresh one and two fresh ones, each up and down, and a call in place; two blocks, two versions | 1,952,134 |
| `session` | three commands, two transports, one terminal, one disconnect, two lock objects | 2,008,903 |
| `commands` | two commands, two transports, one forward, one disconnect, fair | 498,023 |
| `stored` | `Sync`, `Assistant`, `HostLibrary` | 1,712,112 |
| `remote` | `TreeTransfer`, `RemoteMutation`, `Privileged`, fair | 779,092 |
| `transport` | `ConnectionManager` with secrets only, `Connect`, `Channels`, `RemoteForwards` twice, `LocalForwards`, fair | 166,841 |
| `programs` | `Daemon`, `UserConfig`, `Fleet`, `Mcp`, `TransferTasks`, fair | 202,745 |
| `zombie` | two commands, three transports, two disconnects: violates `NoZombie` | |
| `sync_resume` | synchronizations that resume, in place or atomically, over another content: violates `Converged` | |
| `wrong_host` | one chain, two hosts, one switch: violates `HostAsShown` | |

Why the instances are large enough:

- `pool` is the smallest in which one caller can lead while another evicts, prunes,
  removes or closes, with a second name competing for the only permit.  In `transport`
  a leader has two followers, one of which can become the next leader while the other
  still waits; one wrapper is enough because pointers are recycled once nothing refers to
  them.
- `tasks`: two ids and a limit of one or two make eviction, refusal for lack of room, a
  retry of a task that was evicted in between, and the end of the id counter happen.
- `files`: two blocks of two versions are what it takes for a staging file that holds one
  of each.  The registry admits one transfer to a destination at a time, so two calls that
  resume the same staging file meet only across processes, which is left out.
- `stored`: a directory chain of three with a file beside it has a parent replaced two
  levels above an upload, for every combination of options of fresh uploads with nobody
  else at work; trees of two levels with two changes by others; and atomic resumes over a
  staging file with a part or all of the source, or one that must be refused.  Leftovers
  of another source are in `sync_resume`.  The assistant has two
  chains and commands whose level differs between platforms.  The library starts empty or
  with everything in use, under two desktop commands and one outside process.
- `remote`: a tree of three levels in which two names fold to one, with links, special
  files and names that cannot be stored, a concurrency of two, limits that are reached,
  and one foreign change, with direct uploads and atomic downloads also resumed; two
  callers on a tree of four paths with one foreign change; an upload through sudo of a
  file or a tree, with a directory in the way of the file.
- `transport`: a target behind one jump host with secrets and one reached directly with
  keys, agent and certificates; on the direct route three host keys of two algorithms,
  two connects and two changes by others, behind the jump host two keys and one of each; a
  command, a shell for another user and a file call on a Unix or Windows server, with two
  lapses; two registrations of one port, on one address or on one and all, with two
  channels and one slot; three local connections on two slots.
- `programs`: a command and a shell at a daemon with one slot; three configuration files
  that may include each other, and every pattern of up to three signs against seven names;
  two groups that may nest or contain themselves, three targets, two jobs; two lines to the
  MCP server and one edit of the library; two transfers of one destination.

The bounds named in the modules (`MaxDisconnects`, `MaxLapses`, `MaxChanges`, `MaxEdits`
and the like) cap what the environment does in one behaviour.  The others are the limits
of the code, made small enough to be reached.

Symmetry is used in `pool`, `tasks`, `session` and `zombie` only, for sets of callers,
names and pointers no definition tells apart, and in no run with a liveness property.
`wrong_host` does not check deadlock, since its user may stop; elsewhere a stuttering
disjunct marks the states in which a part may rest.

## What the properties say

`pool`.  Nothing dropped is referred to (`NoDanglingReference`).  Lease counters are exact
(`LeaseAccounting`).  A call gets the configuration it asked for (`GrantsWhatWasAsked`).
A name stays unbound while a transport is set up for it (`EmptyWhileSettingUp`).  Permits
are exactly the live wrappers and the dials (`CapacityAccounting`).  The manager
implements the abstract pool (`ImplementsPool`).

`tasks`.  One active task per destination (`ExclusiveWriter`); a runner's task is never
cleared or evicted (`OwnsItsTask`); `order` lists exactly the retained tasks, never
more than the limit (`RetentionExact`); a task never leaves a final state (`Lifecycle`).

`files`.  An atomic call never replaces the destination (`NeverReplaced`); what it
publishes is the whole source, for a resumed call if the source has never changed
(`PublishedWhole`); what a fresh call published is not
written again (`FreshIntact`); a copy in place leaves no old tail (`InPlaceExact`).

`session`, `commands`.  Every transport that is up is bound or about to be closed
(`NothingLeaks`, which says nothing of the controls registered on it); with one
disconnect, no heal revives what was closed (`NoZombie`); every command returns
(`CommandEnds`).

`stored`.  A synchronization that reports success with nobody else at work leaves a remote
tree that matches the local one, whatever it took up having come from the same source
(`Converged`).  In atomic mode one that cannot be completed is refused before anything
changed, unless the reason is a leftover staging file that the upload itself refuses
(`PreflightDecides`).  Without `--delete` nothing is removed but the staging file a resume
publishes (`KeepsRemote`), and what others put there stays unless the plan deletes the very
path or a resume takes it for its staging file (`ForeignSurvives`); an object that replaces
one the plan deletes is deleted.  `Consent`: no command runs that was dangerous, or without
the approval it needed, on the platform the back end checked; breaking a chain stops it
after at most one more command; no result of an approved batch is lost.  Every host in the
library can be routed to, and desktop commands do not undo one another (`StoresSound`).

`remote`.  `SuccessMeansDone`: a tree transfer that succeeds copied all it did not skip,
except that a resume takes a length for proof of the content; an undisturbed approved
removal removes everything; an install is whole, and is there when the call says so unless
a directory stood where the file should go.
`RefusalMeansUntouched`: the preflight and the link policy decide before anything is
written.  `NothingOverwritten`: no copy over another, no replaced entry, no removal by a
stale plan, no foreign staging path touched.  `CallsReturn`.

`transport`.  `Trusted`: secrets are not reused, hops are dialled in order, a pinned key is
never exchanged for another of its algorithm, a revoked one never accepted.
`ChannelsRight`: one platform per client, no channel taken to another registration's
target, no route removed by a late cancellation.
`FailClosed`: nothing is forwarded after the cancellation was sent.  `WaitsEnd`: followers,
flights, connects, channels, probes and set-ups end.

`programs`.  `Served`: a command runs at most once, its output is whole, frames come when
expected.  `Resolved`: the expansion is exactly
the options that hold for the host, and a refusal has a cause.  `FleetSound`: all targets
are known before the first prompt, success means all, output is bounded.  `AnswersTrue`:
one response per request, in order, and true routes.  `WorkEnds`: requests, handlers,
expansions, fleets, lines, tasks and cancellations come to their end, if the remote
commands do.  A handler and its slot are freed when its process is gone; the channel of a
shell is not, if the stream ended in a read error.

## Fairness

- Weak fairness of a call's own steps, in all fair runs: the runtime polls every ready
  future, and every wait on the network ends or times out.  New calls, cancellations, lost
  transports and changes by others are never assumed to happen.  In `remote` that covers
  the walk, each copy task, and the calls of `RemoteMutation`; no liveness is claimed for
  `Privileged`.
- `commands`: the mutex of tokio is a FIFO queue, so that whoever waits while it is
  released again and again gets it (strong fairness of `Acquire`).
- `transport`: a connect is only assumed to break (its timeouts), not to be answered; a
  channel's server answers or the transport ends; a SOCKS handshake and a channel opening
  time out.  That the platform is found assumes that the probe's command ends: the loop
  that reads it (`client.rs:500`) has no timeout.
- `programs`: the commands that the daemon and `kssh-fleet` run end, which is an
  assumption about the remote host: neither has a timeout for them. A remote shell takes
  its input, so that the pipe to it is never full for ever. A shell left behind by a read
  error is not assumed to end. The progress bridge is polled and its `select!` picks a
  ready branch at random, so each branch is weakly fair. `TaskEnds` assumes in addition
  that transfers return (`RunnerFairness`) and speaks of the tasks whose caller keeps
  waiting; `CancelReaches` assumes nothing about the transfer, which may copy for ever.

## What is proved

The proofs hold for arbitrary constants that satisfy the named assumptions of the modules
(finitely many callers, wrappers and commands, `None` distinct from real values, natural
bounds).  Each inductive invariant was checked by TLC first.

`ConnectionManagerWrappers`, `ConnectionManagerProofs`: `TypeCorrect` and
`NothingDangles`.  Neither invariant is inductive alone: a lookup reads the wrapper a
caller remembered, so the type of the result depends on that wrapper still being there,
and whether it is there depends on the shape of the request.  `Core` is their conjunction
with `RequestShape` (what a request holds at each program point) and `CandidateShape`
(whose wrapper the call holds).  The wrapper lemmas show that a step keeps the binding of
every wrapper somebody still owns; the rest follows action by action.

`ConnectionManagerFlightProofs`: `SingleFlightHolds` and `SetupsDoNotCollide`.  Only
`Claim` and `Unlead` change the leaders.  For the second, `EvictingLeader` is added: a
leader that evicts a dead wrapper is the only one who can bind the name again.  Then a step
only unbinds names (`OnlyUnbinds`), or is the leader's own insertion, and a caller enters
the set-up only when its name is unbound (`EntersClean`).

`ConnectionManagerPoolProofs`: `CapacityHolds` and `ManagerImplementsPool`, the
refinement.  `PoolInv` adds `Hands` (what a caller has in hand at each program point) and
`NoOrphans` (a wrapper exists only while somebody owns it).  For the permits every step is
of one of four kinds: it drops what nobody owns (`Reaps`), leaves wrappers and dials alone,
takes a permit, or gives one back; cardinalities then move by the same amounts.  For the
refinement every action is mapped to a pool action or a stutter; the initial states are
mapped to the pool's.

`ConnectionManagerUseProofs`: `LeaseCountsExact`, `ConnectsGetWhatTheyAsked` and
`NothingUsedIsPruned`.  The first shows for each step how the set of leases of each
wrapper moves, and that the counter moves with it.  The second rests on `Granting` (what a
connect is about to return suits its request); the binding of an owned wrapper does not
change, so it is enough that what a step hands over suited before.

`TransferTasksProofs`: `RunnersOwnTheirTasks`, `WritersExclude`, `TrackingHolds`,
`RecordsAgree`, `LifecycleHolds`.  Every step changes the registry in one of four ways,
`Effect`: not at all, by forgetting ended tasks, by admitting one, or by moving one along
its life.  The promises of the registry follow from that alone.  What ties a runner and
its bridge to a task (`OwnsItsTask`, `Distinct`, `Retrying`, `Bridged`) is argued per action.

`DesktopSessionProofs`: `TypeCorrect` and `NothingIsLeaked`.  The generation counter is
bounded by the disconnects begun (`Room`), which needs to know who may count one
(`Purpose`).  `NothingLeaks` is inductive given the types: only a dial brings a transport
up, it binds it, and only the command that unbinds it closes it.

`FileTransferProofs`: `TypeCorrect`, `StagingIsExclusive`, `AtomicNeverReplaces`,
`PublishedStaysIntact`, for any number of calls, settings and inodes.  `Owned` says who may
write what: a fresh call stages under a name of its own (`WorkRight`, `StagedApart`), its
file has that name only and is open nowhere else, a resuming call writes only files made
under the stable name (`HandleOwned`, `PartIsPart`).

Only model-checked: all liveness; `RetentionExact` and the full `TypeOK` of
`TransferTasks` (they need induction over `SelectSeq`); `PublishedWhole` and `InPlaceExact`
(they speak of the content a copy builds block by block); `NoZombie`, which fails with two
disconnects; and the properties of the other modules.

## Where the code and its documents disagree

Three disagreements have a run of their own.

- `zombie`: a first disconnect drops the alias lock while a heal waits for it.  A second
  disconnect then runs beside the heal.  When the heal's dial fails it puts the removed
  session entry back, so the disconnected host is listed again (`state.rs:256`).
- `sync_resume`: with resume and without atomic, an upload whose destination has the
  length of the source copies nothing, and a shorter destination of other content is
  continued (`transfer.rs:181`).  With atomic the same happens to a `.kaduox.part` file that
  an upload of an older source left behind, and it is published (`transfer_policy.rs:204`).
  The call reports success.
- `wrong_host`: `runToolCalls` is memoised and calls the first render's
  `continueConversation`, which sends the target of that render.  After a switch of the
  target, the second round of a conversation asks about, and runs commands on, the host
  the view was mounted with (`AiView.tsx:660`).

Others were met while modelling and have no run:

- `manager.rs:458` says followers lease a non-reusable transport of the same batch; a
  follower also leases one that a later leader bound after the awaited one failed.
- `manager/jump.rs:14` says jump connects behave identically to direct ones; a follower of
  a jump connect is refused a non-reusable transport, because the loop looks up without
  the follower's exception.  `FollowerNotRefused` is stated for direct connects.
- `state.rs:176` says healing makes exactly one attempt at a time per alias; a dropped lock
  lets two heals run.
- `state.rs:241` says no stale handle survives a reconnect; a command that leased the old
  transport may register its terminal or forward afterwards.
- `state.rs:126` says a dead entry is dropped when no stored credential can rebuild the
  session; it stays.
- `docs/LOCAL_ATOMIC_DOWNLOADS.md:35` says a published file stays valid when a crash leaves
  a staging link; the link is the stable resume name of the same inode, and a later resumed
  download appends to it once the final name was moved and the source has grown.
- `docs/ATOMIC_UPLOADS.md:42` says deletes of absent objects are rejected before mutation;
  when the root exists the preflight looks only at the paths of uploads.
- `docs/ATOMIC_UPLOADS.md:38` says synchronization "validates atomic upload feasibility
  before it performs any remote delete, directory creation, or upload mutation"; a leftover
  staging file longer than the source, or no regular file, is refused only by the upload.
- The repository's `README.md:56` says "Accept new" records the first fingerprint and
  rejects later changes; a key of an algorithm not yet recorded for the host is learned
  beside the first (`handler.rs:178`).
- An upload of a file through sudo to a path where a directory stands, or beside a
  `.kaduox.privileged.part` directory left by an interrupted tree upload, reports success:
  `install` and `mv` put the file into the directory (`privileged.rs:129`).
- A shell of the daemon is aborted when its client goes away, but not when reading from the
  client fails (`server.rs:391`): the task is detached and keeps its channel and client.
- The cards of a reply are pending, and their buttons work, while the loop over the
  commands still runs (`AiView.tsx:680`, `830`).  A card can so be run twice, or be shown as
  rejected and run; the check in the back end is then the only one.
- `docs/releases/v0.33.0-rc.21.md:29` says a recursive download counts entries whose names
  fold to one as skipped; the desktop's own recursive download (`commands/files.rs:355`)
  lets the later one replace the earlier.  That setting is left out of `remote`.
- `kssh` runs a command directly when the daemon cannot be reached; a write to its own
  stdout that fails is an error of the same kind (`endpoint.rs:415`), so that a command
  whose output pipe was closed is run a second time.  `ExecutedOnce` leaves processes with
  a piped stdout out.
- After the last allowed round the assistant asks the user to send another message, but
  leaves the view busy, so that none can be sent (`AiView.tsx:640`).

## Not modelled

- The terminal workspace (`tui_*.rs`): one thread of key events and screens over the
  modelled connections, transfers and tasks.  What it keeps is selection and layout.
- Argument parsing, prompts, printing and completion of the command-line programs.
- Conversions without state: the host library's codec, quoting of remote commands, frames
  of the daemon's protocol, tokens and environment variables in configuration paths, the
  word lists of the command classifier.
- Platform checks of one file or one service: permissions and owners of configuration
  files, the credential stores.
- History, metrics and conversation files of the desktop: append and read by one process.
- Byte streams: the contents of terminals, forwards and channels.
- Presentation in the desktop's user interface, and build and release scripts.
- The race of two daemons that start at once (`endpoint.rs:60`), two uploads through sudo to
  one destination, and two writers of one remote file: the code makes no promise there.
