# Verification of the Task AI Platform

TLA+ models, model checking runs and machine-checked proofs for the parts of
the Task AI Platform whose correctness depends on the order in which things
happen. The reference is always the source; paths below are relative to the
repository root, and `ai_rooms.rs` is `crates/server/src/routes/ai_rooms.rs`.

## The system

The platform is a desktop application (a fork of Vibe Kanban) for one owner.
Its own core is the **AI Room**: the `.ai-room` directory of a project, kept on
the owner's machine (the *store*) and, for SSH work, on a server (the
*worksite*). Coding agents write session records and documents on both sides;
the application keeps the two sides together. Around it stand the inherited
parts: execution of agents, approvals, logs, git worktrees, the cloud server.

### Inventory

| Component | State | Operations | What is hard | Correct means |
| --- | --- | --- | --- | --- |
| Session union (`plan_session_union`, `create_session_record_at`) | none; two file maps in, two plans out | plan, create with a hard link | both sides hold the same name with different content | nothing lost, nothing replaced, a second pass has nothing to do |
| SSH synchronization (`spawn_auto_sync`, `sync_room`, `import_remote_documents`, `prepare_remote_room`, document edits) | files on both sides, `local-history`, `SYNC_LOCK`, snapshots of running passes, scripts under way on the server | one pass in eight steps; provisioning; edit, delete | passes without the lock, snapshots older than the lock, detached writes, SSH timeouts, restarts, lost server directories | records immutable and convergent, owner documents reach the server |
| Local worksite (`sync_local_workplace_checkpoints`, `prepare_local_workplace`) | a second local directory | pass, prepare, rollback from a backup | the rollback races agents | a failed preparation undoes only its own writes |
| Room lifecycle (`create_room`, `initialize_room`, `update_room_profile`, `update_room_connection`, `delete_room`, version upgrade) | database row, room files, both worksites | each with hand-written compensation | one step of several fails; creation and deletion take no lock; the loop works on rows read earlier | row and files agree; a failed request leaves what was there; old rooms are upgraded |
| Activity caches and checkpoint health | `REMOTE_ACTIVITY`, `LOCAL_ACTIVITY` | refresh, read, clear | a late scan of the old server | no observation of a previous connection |
| Local summarizer | `tasks.md`, `decisions.md`, `task-summary-state.json`, `SUMMARY_BACKOFF` | rebuild, back off | two files, crash in between | a dashboard is current exactly when its state says so |
| Session overrides | `session-overrides.json` | set, clear | read-modify-write | no update lost |
| Tool approvals (`services/approvals.rs`) | pending and completed maps, watcher per request, patch stream | create, respond, cancel, time out | response, cancellation and timeout race | one outcome per request, everybody sees the same one |
| Message store (`utils/msg_store.rs`, `services/execution_process.rs`) | bounded history, broadcast channel, log file | push, subscribe, write to the file, finish | a push and a subscription are two steps each; eviction; lag; two closers | each message at most once and in order, losses only where they are accounted for, listeners end |
| Executions (`services/container.rs`, `local-deployment/container.rs`) | process rows, children, `child_store`, exit monitors | start, chain, exit, stop, reset, archive, recover | stop races exit, starts and kills fail, crashes | a row that runs is watched, a live child can be stopped, every exit is settled once |
| Queued messages (`queued_message.rs`) | one message per session | queue, cancel, take | several monitors take from it | a message runs at most once and is not forgotten |
| Workspaces and worktrees (`workspace-manager`, `worktree-manager`) | directory, worktrees, branches, lock per path, record | create, ensure, expire, delete, scan for orphans, roll back | restore against cleanup, one repository of several fails | restoring destroys nothing, no path stays locked, expired worktrees go, none before its time |
| Terminals, git, executors, events, relay, cloud server, MCP, frontend | external or derived | | | not modelled, see below |

Components interact through the files of the room (loop, handlers and agents
share them), through `SYNC_LOCK` (loop, `sync_room`, `import_remote_documents`
and the lifecycle requests except creation and deletion, but neither
`prepare_remote_room` nor the document edits), through database rows, through
detached tasks (the write of `context.md`, the activity scan, the writer of a
log) that nobody waits for, and through maps of handles (`child_store`,
`msg_stores`) that exit monitors and stops both empty.

`PROJECT.json` lists every component with its status and every hazard with the
line where it bites.

## Modules

**`SessionUnion`** - the files of a room and the pure part of synchronization.
A side is a function from paths to contents; a content is a version number
(every write of an author is a new version) or `None`. `Conflicts`, `Only`,
`UnionCopies`, `DesiredLocal` and `DesiredRemote` are the plan of
`plan_session_union`; `CreateOnly` is the hard-link creation that leaves an
existing path alone.

**`RoomSync`** - one room synchronized with its SSH worksite. The processes are
the loop and any number of request handlers.

| Model | Code |
| --- | --- |
| `store`, `server`, `prepared` | `.ai-room` on both sides; whether the server's exists |
| `history`, `torn` | `local-history`; archive files a crash cut short |
| `lock` | `SYNC_LOCK` |
| `loc`, `rem` | the `EndpointFiles` a pass works from |
| `scripts` | `sh -s` scripts that run on the server after the application stopped waiting, and detached writes |
| `AutoRead`, `Acquire`, `PrepareBegin`, `ReadRemote`, `ReadRefused`, `ReadFailed` | how each kind of pass gets its lock and its snapshots |
| `ArchiveConflict` ... `Upgrade` | the steps of `sync_remote_checkpoints` and `upgrade_remote_instructions`, one per file where the code awaits between files |
| `Provision`, `ProvisionClash` | `prepare_remote` for a server without records |
| `UserEdit`, `DeleteRemote`, `DeleteLocal` | the document requests, which take no lock |
| `AgentServer`, `AgentLocal`, `ServerWiped` | agents and the server itself (external) |
| `Interrupted`, `Failed`, `DeleteFailed`, `ScriptDrop`, `Crash` | timeouts, error returns, dead connections, restarts |

**`MCRoomSync`** gives the operator constants their values for TLC: a copy path
is the pair of name and content, and every later version of `decisions.md`
extends the template. **`SessionUnionProofs`** and **`RoomSyncProofs`** hold the
theorems.

**`Approvals`** - the requests of executors for the owner's consent. An approval
is an entry of `pending` that holds the sender of a oneshot channel. The maps
are concurrent and no lock spans two operations, so each operation on a map, the
channel or the broadcast is an action.

| Model | Code (`services/approvals.rs`) |
| --- | --- |
| `pending`, `completed`, `outcome` | the two maps (their keys); what the oneshot channel resolves to, `timedout` when the sender is dropped |
| `Create`, `AnnounceCreated`, `StartWatcher` | `create_with_waiter` |
| `Respond`, then `Reject` or `RecordResponse`, `SendResponse`, `AnnounceResponse` | `respond`, any number at once |
| `WatchOutcome` ... `SendTimeout` | the task of `spawn_timeout_watcher`; the select is biased towards the channel |
| `Cancel` ... `DropSender` | `wait_internal` and `cancel` |
| `Snapshot`, `Subscribe`, `Resnapshot`, `Receive` | `patch_stream` and `applyUpsertPatch` of one websocket; `Send` is Tokio's broadcast (external) |

`told` and `refused` are history: what responders were told, and which approvals
were put back. **`ApprovalsProofs`** holds the theorems. The runs use the module
directly: it has no operator constants.

**`Executions`** - the executions of one session. An execution is a row, a child
process and an exit monitor; every await on the database, `child_store` or a
start separates two actions.

| Model | Code |
| --- | --- |
| `status`, `act`, `dropped` | rows of `execution_processes`: status, run reason with action chain, soft deletion |
| `child`, `tracked` | the process (`orphan` after a crash, `gone` once reaped) and its handle in `child_store` |
| `mon`, `res`, `ctx`, `held` | the step of `spawn_exit_monitor`, the exit result, the status it loaded, the message it took |
| `caller`, `carried` | which monitor or request awaits a start; the queued message a row runs |
| `Insert`, `Prepare`, `Spawn`, `SpawnFails`, `Track`, `Watch` | `start_execution` and `start_execution_inner`: the INSERT, the statements after it, the spawn, the mark of a failed one, `add_child_to_store`, the start of the monitor |
| `stranded` | rows that a statement on them, failed, left running: after the INSERT, when a failed spawn or an exit is recorded |
| `ExitSignal`, `OsExit`, `CheckStopped`, `UpdateCompletion`, `LoadContext`, `Commit`, `Finalize`, `StartQueued`, `CheckRunningAgent`, `TakeStuck`, `Cleanup` | `spawn_exit_monitor`, top to bottom |
| `Admit`, `FindChild`, `MarkKilled`, `KillGroup`, `RemoveChild`, `DropRows`, `StartNext` | the routes that start and stop, `stop_execution`, `reset_session_to_process`, `archive_workspace`, `kill_all_running_processes` |
| `QueueMessage`, `CancelQueued`, `Take` | `QueuedMessageService` |
| `Crash`, `Restart`, `RecoverRow`, `Serve` | the end of the process, `cleanup_orphan_executions` at the next start |

`msg` (what became of a message) and `notified` are history.
**`ExecutionsProofs`** holds the theorems.

**`LogFeed`** is what a follower of a log is promised: only published messages,
each at most once, those of one producer in order; messages may be missing.
**`MsgStore`** is the code, and `Feed == INSTANCE LogFeed WITH published <-
Elements(sent), heard <- got` is the refinement: a send publishes, a receive
hears, every other step stutters.

| Model | Code |
| --- | --- |
| `sent`, `pos` | the broadcast channel and the place of each receiver; `Capacity` of them are retained |
| `history`, `total`, `pushing` | the history, its byte count, and a push between its two steps |
| `Send`, `Store`, `EndOfStream` | `push` and the end of a forwarded pipe |
| `Unregister`, `SendFinished`, `StoreFinished` | exit monitor and `stop_execution`, who both remove the store from the map |
| `Lookup`, `CopyHistory`, `Subscribe`, `FromHistory`, `FromChannel`, `HangUp` | `stream_raw_logs`, `history_plus_stream` and the writer of the log file |
| `file` | the log file; its writer (`Receive`) appends what the forwarder pushed, and a client that finds no store is given it, as far as it has been written, followed by `Finished` (`Lookup`) |

`gone` accounts for the four ways to lose a message: evicted or not yet in the
history that is copied, sent between copy and subscription, skipped by a receiver
that lags, absent from the log file that is replayed because the writer lost it or
has not written it yet. `settled` is what was completely pushed before
`Finished`. `Bytes` is a recursive function, so that **`MsgStoreProofs`** can reason
about it.

**`RoomLifecycle`** - rows of `ai_rooms` and the stores they describe.

| Model | Code (`ai_rooms.rs`) |
| --- | --- |
| `row`, `dir`, `json`, `md` | the table; a local root, and the `room.json` (id, name) and the `ROOM.md` (connection too) in it, each absent, whole or cut short |
| `making`, `PrepareRoot` ... `RemoveStore` | `create_room`, any number at once and without a lock, with its compensation |
| `WriteJson`, `JsonFails`, `WriteMd`, `MdFails`, `RestWorks`, `RestFails` | `initialize_local`, in its order: two writes and the rest |
| `job`, `JobWrite`, `JobFinish`, `JobRestore` | whoever holds `SYNC_LOCK`: initialize, rename, reconnect, upgrade, with their compensations |
| `cycle`, `LoopRead`, `Upgrade` | the loop and the rows it read at its start |
| `DeleteRoom` | `delete_room`, without the lock |

`owned` are the directories that existed before; `strayed` names the rooms left
different from their row, and only the steps that its definition lists add to it:
`Crossed` (a request of another room worked in the directory), `HalfWay` (an update
failed after it had written a file, or its way back did), `Start` (an update of a
room whose creation is not through, or from an old row).
**`RoomLifecycleProofs`** holds the theorems.

**`Worktrees`** - one workspace with several repositories. `row`, `dir`, `tree`
and `branch` are the record, the directory, each worktree (directory and git
metadata) and each branch; `lock` is `WORKTREE_CREATION_LOCKS`. `Touch` ...
`ClearFlag` are `create` and `ensure_container_exists`, `ListExpired` and
`FindRepos` the periodic cleanup, `ScanOrphans` the scan at startup,
`ArriveDelete` and `DeleteRow` the deletion; `RemoveTree`, `RemoveDirectory` and
`EndRemoval` are shared by these and by the rollback of a creation. Each actor
works with the row it read (`seen`); `unremoved` says that the cleanup task failed
to remove something. **`WorktreesProofs`** holds the theorems.

### Abstractions

- Contents are version tokens, compared for equality as the code compares
  strings. Contents are never partial: a redirection cut short in the middle of
  a server document is listed as a hazard and not modelled yet.
- Hash collisions of copy paths are excluded (`CopyAssumption`), and agents do
  not write under copy paths.
- The owner rules stand for all files `upgrade_remote_instructions` compares
  and writes (`room.json`, `ROOM.md`, the review protocol, the managed agent
  blocks); rooms whose instruction version is newer than the application are
  left out.
- `tasks.md` and `session-overrides.json` reach the server only with
  provisioning and are left out. Documents agents put into the root of the room
  are treated as library documents.
- The store is installed and readable. A read of a side is one atomic
  snapshot. Files over the 512 KiB limit do not occur.
- A clash during provisioning may happen after any of the other records was
  written: the code writes them in path order, the model in any order.
- Conflict reports, touched timestamps, response snapshots and connection
  changes are left out.
- The snapshot of pending approvals is atomic (`DashMap` iterates shard by
  shard); the values in `completed` are never read and left out; a websocket does
  not reconnect; the executor's map of waiters and notifications are left out.
- A deletion by the owner uses up a version, like an edit, so that authors are
  bounded.
- `Executions`: one session; when all rows are used a start is an error. The
  5-second wait for a cancelled monitor is any number of steps. Recorded commit
  hashes, normalization and analytics are left out;
  whether an agent left changes is a free choice. Errors of the database are
  modelled where they leave a row running (`stranded`, at most `MaxError`) or where
  a start fails, and left out elsewhere. Not among the requests are the starts made
  by the installation helpers (`codex_setup.rs`, `gh_cli_setup.rs`,
  `cursor_setup.rs`) and the follow-up for a pull request (`pr.rs`), which start an
  execution as `follow_up` and `setup` do.
- `MsgStore`: sizes and capacities are small numbers (the code has 100 MB and
  100000 messages); patches, session ids and output are messages alike. The log
  file is a sequence of messages, appended one by one; what `append_log_message`
  adds after a failed start, and executions whose logs are still in the database,
  are left out.
- `RoomLifecycle`: of the store only `room.json` and `ROOM.md`, of which they hold what
  the database can change (room, name, connection); the rest of
  `initialize_local` and the preparation of a worksite are one step that may
  fail. The synchronization of the old connection before a reconnect is
  `RoomSync`'s.
- `Worktrees`: one workspace; time in hours, and a request ends within the hour
  (so the minutes between two touches are below a tick). The migration of the
  single-worktree layout, copied files and repositories that are gone are left
  out. What git does to a worktree is `Usable`, `Gone` or half there. A request
  whose client goes away is not cut short in the model: its future is dropped at an
  await while what it has handed to `spawn_blocking` goes on, and the path lock is
  free meanwhile.

## Runs

Bounds: `MaxVersion` counts writes of owner and agents, `MaxFault` failures of
any kind, `Slot` the scripts that may be under way. A conflict needs two
writes of one name, a stale snapshot one write after it was read, a lost update
two; no property distinguishes more. Approvals do not share state except the
websocket's queue, so one approval with several responders, a capacity of one
patch (the code has 64) and one cancellation meet every race. Deadlock is checked
in every run of `RoomSync`; the approvals may stop once every request is
resolved.

| Run | Instance | Shows |
| --- | --- | --- |
| `records` | one name, two writes, loop and one `sync`, `prepare` or `import` request, one late script, one fault; 2.1 M states | `TypeOK`; `CopyIntegrity`; `SyncLockHeld`; `UnionPassSettles` in every reachable state; `RecordsImmutable` for every step |
| `converge` | one name, the owner rules, `context.md` and a library document, two writes or deletions, the passes of the loop, two scripts, one fault; 0.5 M states | `RecordsConverge`, `RulesConverge`, `ContextConverges` under fairness |
| `context` | two writes of `context.md` | `NoContextLost` is violated |
| `approvals` | one question, three responses at once, deadline, cancellation, one websocket | `TypeOK`; `SenderInOnePlace`; `ToldIsOutcome`; `ResolvedUnlessRefused` under fairness |
| `executions` | two rows, twelve routes, two requests one after the other, a queued message, one crash, one error of the database, four configurations of scripts; 5.6 M states | `TypeOK`; `RunningIsWatched`; `LiveIsReachable`; `MessageOnce`; `OneEnd` |
| `settle` | three rows: setup script, agent, queued message; one stop at any moment, one error of the database; 0.2 M states | `ExitSettles`, `QueuedHandled` under fairness |
| `logs` | one producer with two messages of two bytes, a history of three bytes, a channel of two messages, both closers, writer and client; 0.3 M states | `TypeOK`; `HistoryBounded`; `NothingElseLost`; `FeedImplemented`; `ListenersEnd` under fairness |
| `rooms` | two rooms in one directory, two names, one server, one change, one failure; 1.0 M states | `TypeOK`; `UserFilesKept`; `StoreAgrees`; `UpgradeCompletes` under fairness |
| `rename` | one room, one change, one failure | `RenameReverts` is violated |
| `worktrees` | two repositories, two requests, cleanup, deletion, orphan scan, one failure, one hour; 3.7 M states | `TypeOK`; `ReadyHasTrees`; `EnsureKeepsWork` |
| `reclaim` | two repositories, two requests one after the other, cleanup, deletion, rollback, one failure; 0.2 M states | `RequestEnds`, `ExpiredCleaned` under fairness |
| `expiry` | limits of 1 and 72 hours, nine hours east of UTC | `CleanedWhenOld` is violated |

Why these are enough: a stop against an exit needs one execution, a chain or a
queued follow-up a second, both in a row a third; two requests are the least
that overlap with a monitor's start. A history of three bytes evicts with the
second message, and a channel of two makes a receiver lag behind `Finished`. Two
creations in one directory meet every clash of two requests, since a directory
is all they share. Two repositories are the least for which a creation has
something to roll back; two requests and three removals meet at each lock. One
error of the database shows what a start leaves behind; one failure can fall
between the two writes of a rename. These
systems may really stop (no request, all messages read), so deadlock is not
checked in them.

**Fairness.** Every pass and every detached write goes on (Tokio polls them;
SSH calls have timeouts, which are faults here). `Acquire` is strongly fair
because Tokio's mutex serves in order. `SpawnContext` is strongly fair because
waiting for a free slot is the model's bound, not the code's. In `Approvals`
tasks that were started go on and deadlines pass. In `Executions` a start ends
within its 30 seconds, monitors and requests go on and a child that is not a dev
server exits; in `MsgStore` tasks go on, pipes come to their end and executions
end; in `RoomLifecycle` requests under way and the loop go on; in `Worktrees`
requests and removals go on, `Acquire` is strongly fair for the same reason as
above, and the cleanup interval comes round. Nothing is assumed of authors, new
requests, faults, crashes, answers, cancellations, stops or the clock. The properties
about documents have the premise `Quiet` (no request runs from some point on),
which their run meets because only the loop is in it: the loop prepares a lost
directory with the same pass as a `prepare` request does, and the requests race
with it in `records`.

**Findings.**

1. `context`: the comment above the archive of `context.md` says that no
   divergent version is ever lost without a trace. The loop reads the server
   before it takes the lock and writes in a detached task after it has released
   it; an edit an agent makes in between is overwritten, and the archive has the
   version from the snapshot.
2. `expiry`: the comment of `find_expired_for_cleanup` promises cleanup after 1
   hour (archived) and 72 hours. The query compares the local time with
   timestamps in UTC, so east of UTC worktrees go earlier by the offset and west
   of it later.
3. `rename`: the comment in `update_room_profile` (`ai_rooms.rs:513-515`) says that
   the row goes back "so the database and the on-disk instruction cannot diverge
   permanently". `room.json` and `ROOM.md` both repeat the name and are written one
   after the other; when the second write fails the row goes back and `room.json`
   does not, and nothing writes it again until the next rename, reconnection,
   initialization or upgrade.

Other disagreements met while modelling, without a run of their own; a property
of a passing run that meets one names it as an exception:

- Queue: "Queue a follow-up message to be executed when the current execution
  finishes" (`routes/sessions/queue.rs:22`). A turn that left no changes is
  finalized by hand and does not look at the queue (`QueuedHandled`).
- Approvals: `respond` takes the entry out, validates and puts it back; a
  deadline that passes in between finds nothing, and the executor waits for ever.
  `ResolvedUnlessRefused` exempts exactly the approvals that were put back
  (`refused`). A client whose snapshot was taken before an
  approval was announced and which subscribes afterwards does not show it.
- Library: the README (line 23) promises three-way merging. There is no base
  version: where the sides differ the server's document wins (`ai_rooms.rs:2129`).
  `update_library_file` writes the store only, so an edit by the owner of a document
  the server has is replaced by the server's older version in the next pass; the
  store's version of the snapshot is archived, one written after it is not.
- Preparation: "will retry" (`ai_rooms.rs:1306`); once the script has made the
  directory the next cycle synchronizes instead, and never creates `context.md`.
- Creation: it takes no lock, so a rename of the new room may be undone after the
  creation has written the new name (`Start` adds such a room to `strayed`).
- Logs: "Wait for DB persistence" (`local-deployment/src/container.rs:795`):
  nothing ever stores the handle that is awaited. A listener that subscribes
  after `Finished` was sent and copied its history before loses it, and the
  writer that does so never ends (`gone`).
- Replay: a client that asks for the log after the store is out of the map and
  before the writer is through is given the file so far and `Finished`
  (`services/container.rs:821`): it is told that it has everything and has not
  (`gone`). A file that is still empty gives no stream at all.
- Start: after the INSERT, which is committed on its own
  (`execution_process.rs:429`), the repository states, `find_by_id`, `set_archived`
  and the agent turn may fail, and the row stays running with nobody to watch it
  until the next restart; so does one whose failed spawn, or exit, could not be
  recorded (`services/container.rs:1216`). `RunningIsWatched` names them
  (`stranded`).
- Start and stop: between the spawn and `add_child_to_store`
  (`local-deployment/src/container.rs:1374`) a stop finds no handle and is an error
  although the child lives. `LiveIsReachable` allows this window and no other.
- Stop: `was_stopped` and `update_completion` are two statements; a stop in
  between is overwritten by the monitor.
- Scripts: the second of two cleanup scripts is started with the run reason
  `SetupScript`, because `try_start_next_action` decides by the types of the two
  actions.
- Worktrees: a cleanup that was overtaken by a request marks the worktrees
  deleted although they are there.
- The README's line 28 ("Completed server records are retained locally and
  removed from the server"): the code never removes a record.

**Mutants.** Each property of a passing run has a mutant in `PROJECT.json`: a
definition of the model changed as a plausible bug would, under which TLC finds
the property violated.

## Proofs

Every safety invariant and every action property that a passing run checks is a
theorem, for any values of the constants that satisfy the assumptions named in
the modules: sets of any size where the runs have one or two elements, and any
bound. The assumptions say that the kinds of identifiers are disjoint and the
numbers natural. Those of `SessionUnion` and `RoomSync` (`VersionAssumption`,
`PathAssumption`, `CopyAssumption`, `ProcAssumption`) also say that a copy path
determines its content; `StoreAssumption` that a message has at least one byte.
Each `...Inv` below was checked by TLC on the run's instance before it was
proved. Proofs have one lemma or step per action; a lemma says once which
variables of the other actors a step leaves alone.

**`SessionUnion`, `RoomSync`**

- `UnionSettles` (`SessionUnionProofs`): for any two sides with `CopiesIntact`,
  one pass leaves the contents of both on each and a second one has nothing to
  do. `ConflictsAreNames` is the heart: two intact sides cannot disagree about a
  copy, so copies are never copied again. `SettledSide` describes the result
  path by path; the other side follows by symmetry (`DesiredSymmetric`).
- `TypeCorrect`: `TypeOK` is inductive; one lemma per group of actions.
- `CopiesHoldTheirContent`: `CopyIntegrity` about the two sides alone is not
  inductive, because passes write from old snapshots and scripts run late. The
  invariant includes every snapshot and every script under way; with `TypeOK`
  it is inductive.
- `EveryPassSettles`: `UnionPassSettles` follows from the two invariants and
  `UnionSettles`, which is why the strengthening matters.
- `RecordsNeverReplaced`: `RecordsImmutable` for every step from a typed state;
  the cases that need an argument are provisioning (it stops at a clash) and
  late scripts (they create).
- `LockDiscipline`: `SyncLockHeld` with `TypeOK` is inductive: the lock is held
  exactly inside the passes that need it, on every way out.

**`Approvals`**

- `OneSender`, `OneOutcome`, `ApprovalTypes`: for any number of approvals and
  responders. Neither
  invariant is inductive alone: that nobody was told anything before the channel
  resolves follows from the sender being in one place, and this needs
  `Bookkeeping` (a response that has sent has set the outcome; an approval that
  was not created has none and no watcher). Together with `TypeOK` they are.

**`Executions`** (`ExecutionInv`)

- `Watched`, `Reachable`: a row that runs and a child that lives are not
  inductive alone, since the row, the child, its handle and its monitor change in
  different steps. `StartsAwaited` ties a start, in each of its steps, to
  its child, its handle and the monitor that waits for it (which has no other
  start), `HandlesOfChildren` and `StopsInOrder` say that a stop removes a handle
  only after the child was killed, `Unborn` and `DownIsEmpty` that nothing exists
  before the insertion or after a crash.
- `RunsOnce`: `MessageInOnePlace` follows a message through the queue, the hands
  of one monitor and one row, because a monitor may be holding it while another
  takes from the queue.
- `EndsOnce`: `NotNotified` says where a monitor may have notified already (a
  turn without changes notifies before the queue is looked at), `FollowedEnds`
  that one whose follow-up has a child goes no further.

**`Worktrees`** (`WorktreeInv`)

- `KeepsWork`, `Ready`: who inspects, clears or adds holds the lock of the path
  (`LockHeld`), and only an addition makes a worktree usable, so what a request
  found not usable still is not when it clears it away (`Condemned`). `Walked`
  keeps the worktrees a request has been through, until something is removed.

**`RoomLifecycle`** (`RoomInv`)

- `KeepsFiles`: a creation remembers truthfully that it made its directory
  (`Creations`), through its row and the rows others insert (`OneRoom`, `Roots`).
- `Agreed`: `Agreement` says for every step of a creation and of the holder of
  `SYNC_LOCK` which row each of the two files repeats: until the first write the
  row before the change, between the writes `room.json` the new one and `ROOM.md`
  not yet, after them both the new one. `JobRow` says that nobody else changes the
  row meanwhile. `strayed` is where this is given up, step by step (`Crossed`,
  `HalfWay`, `Start`), and the theorem is that nothing else makes row and files
  part: not a failed connection, whose way back writes both files again, not a
  failed creation, and not an upgrade or a rename that fails before its first write.

**`MsgStore`** (`StoreInv`)

- `Bounded`: `total_bytes` is the sum of what is stored. `BytesFacts` (the sum of
  an append, and of the two parts of a split history) is an induction, done with a
  set of numbers instead of a predicate (`SetInduction`, from well-foundedness).
  The type of the history needs `Pushed`: what is being pushed is a message of
  its producer, newer than all of them in the history.
- `LosesNothingElse`: `Following` accounts, at every step of a listener, for all
  that was sent before its position: received, still in the copy, or `gone`; for a
  replay, for all that was settled (`Replayed`), because what the writer has not
  written is `gone` from the moment the file is read.
  `Ending` says that what was settled precedes `Finished` in the channel, the
  history and the copies, so nothing is still to come when it is heard.
- `Implements`: `StoreInv` makes every step one of `LogFeed`, or a stutter: a
  send publishes the next number of its producer (`Counted`), `Finished` is sent
  once (`Closing`), and what a listener reads next is newer than what it has
  (`Following`), in which the order of send before append, and of copy before
  subscription, is what counts. `HeardInOrderOnce` follows: nobody is given a
  message twice.

Only model-checked: all liveness under fairness (the convergence properties,
`ResolvedUnlessRefused`, `ExitSettles`, `QueuedHandled`, `ListenersEnd`,
`UpgradeCompletes`, `RequestEnds`, `ExpiredCleaned`), which the prover does not
reach, and the two properties that are violated.

## Not modelled

- *Local worksite*: its pass is the union of `SessionUnion` between two local
  directories; its preparation with backup and rollback is a step of
  `RoomLifecycle`. The race of the rollback with agents is listed as a hazard.
- *Activity caches, checkpoint health, snapshots, session overrides*:
  observations that are shown and decide nothing, and one read-modify-write
  under a lock.
- *Summarizer*: text produced by a local model; its files are derived.
- *Executors* (the largest part of the source), *git*, *terminals*: adapters that
  parse protocols and drive external programs. What the modelled code relies on
  (a child exits, a signal says the turn is over, a worktree is added or not)
  appears as external steps.
- *Events, diffs, pull request monitor*: streams from database hooks and file
  watchers, and polling of services.
- *Relay, cloud server, MCP server, frontend*: transport, a hosted service and
  clients the desktop application runs without or that only call its interface.

## Plan

Done: all modules with their runs; every safety invariant, every action property
and the refinement of `LogFeed` proved. What is left are the hazards without a
property, and what the exceptions of the properties leave out (`PROJECT.json` says
why for each): documents that a script leaves half written, archives cut short,
records over the limit, scans of the previous connection, the rollback of the
local worksite, a deleted document that a pass brings back, requests that are
cut short while their git commands go on.
