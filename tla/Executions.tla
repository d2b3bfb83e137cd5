----------------------------- MODULE Executions -----------------------------
(***************************************************************************)
(* Execution processes of one session: crates/services/src/services/       *)
(* container.rs and queued_message.rs, crates/local-deployment/src/        *)
(* container.rs and the routes that start, stop, queue and reset.          *)
(*                                                                         *)
(* An execution is a row of the database, a child process and an exit      *)
(* monitor.  The monitor records how the child ended, commits, starts the  *)
(* next action of the chain or the queued message, and notifies; requests  *)
(* start and stop executions meanwhile, and the server may crash between   *)
(* any two steps.  Every await on the database, the child store or a start *)
(* separates two steps.  Errors of the database are modelled where a row   *)
(* that says running would be marked, or its child started.                *)
(***************************************************************************)
EXTENDS Integers, Sequences, FiniteSets

CONSTANTS
    MaxExecution,    \* rows that can be inserted; after that a start is an error
    Message,         \* follow-ups that users queue
    Request,         \* requests that may run at once
    Route,           \* what they may ask for
    Config,          \* how setup scripts run, and how many cleanup scripts there are
    MaxRequest, MaxCrash,
    MaxError,        \* rows that an error of the database may leave running
    None             \* no message, no reason

Execution == 1 .. MaxExecution
Running == "Running"
Reason == {"SetupScript", "CodingAgent", "CleanupScript", "DevServer", "ArchiveScript"}
Routes == {"workspace", "follow_up", "review", "setup", "cleanup", "dev_server", "archive",
           "archive_script", "stop", "stop_all", "kill_all", "reset"}

ASSUME ExecutionAssumption ==
    /\ {MaxExecution, MaxRequest, MaxCrash, MaxError} \subseteq Nat
    /\ Route \subseteq Routes
    /\ Config \subseteq {"none", "parallel", "sequential"} \X Nat
    /\ None \notin Message \cup Reason
    /\ Request \cap (Execution \cup {None}) = {}

VARIABLES
    setup, cleanups,     \* the scripts configured, fixed
    status, act,         \* rows: their status, run reason and action chain
    caller, carried,     \* who awaits the start of a row; the queued message it runs
    dropped,             \* soft-deleted rows
    archived,            \* the flag of the workspace
    stranded,            \* rows that an error of the database left as they were
    child, tracked,      \* child processes, and the ones in child_store
    mon, res, ctx, held, \* exit monitors: step, exit result, status loaded, message taken
    queue, msg,          \* the queue of the session, and what became of each message
    req, stage, served,  \* requests, their step within stop_execution, how many were served
    notified,            \* notifications sent by finalize_task, per execution
    server, crashes

scripts == <<setup, cleanups>>
rows == <<status, act, caller, carried, stranded>>
procs == <<child, tracked>>
queues == <<queue, msg>>
requests == <<req, stage, served>>
host == <<server, crashes>>
vars == <<scripts, rows, dropped, archived, procs, mon, res, ctx, held, queues,
          requests, notified, host>>

Blank == [reason |-> None, todo |-> <<>>]
Action == [reason : Reason, todo : Seq({"script", "agent"})]
Idle == [stops |-> {}, drop |-> 0, starts |-> <<>>]

Status == {"none", Running, "Completed", "Failed", "Killed"}
Starting == {"inserted", "spawning", "failing", "spawned", "tracked"}
Step == Starting \cup {"none", "wait", "check", "update", "load", "commit", "next",
         "finalize", "start", "follow_up", "running_agent", "take", "start_late",
         "follow_up_late", "cleanup", "done"}
Stops == [stops : SUBSET Execution, drop : Execution \cup {0}, starts : Seq(Action)]

RowTypes ==
    /\ <<setup, cleanups>> \in Config
    /\ status \in [Execution -> Status]
    /\ act \in [Execution -> Action \cup {Blank}]
    /\ caller \in [Execution -> Execution \cup Request \cup {None}]
    /\ carried \in [Execution -> Message \cup {None}]
    /\ dropped \subseteq Execution /\ archived \in BOOLEAN /\ stranded \subseteq Execution
MonitorTypes ==
    /\ child \in [Execution -> {"none", "alive", "ok", "bad", "gone", "orphan"}]
    /\ tracked \subseteq Execution
    /\ mon \in [Execution -> Step]
    /\ res \in [Execution -> {"ok", "fail", "error", "none"}]
    /\ ctx \in [Execution -> Status]
    /\ held \in [Execution -> Message \cup {None}]
    /\ notified \in [Execution -> Nat]
RequestTypes ==
    /\ queue \in Message \cup {None}
    /\ msg \in [Message -> {"new", "queued", "taken", "started", "cancelled",
                            "replaced", "discarded", "lost"}]
    /\ req \in [Request -> Stops]
    /\ stage \in [Request -> {"find", "mark", "kill", "remove"}]
    /\ served \in 0 .. MaxRequest
    /\ server \in {"up", "down", "recovering"} /\ crashes \in 0 .. MaxCrash

TypeOK == RowTypes /\ MonitorTypes /\ RequestTypes

Init ==
    /\ \E c \in Config : setup = c[1] /\ cleanups = c[2]
    /\ status = [p \in Execution |-> "none"]
    /\ act = [p \in Execution |-> Blank]
    /\ caller = [p \in Execution |-> None]
    /\ carried = [p \in Execution |-> None]
    /\ dropped = {} /\ archived = FALSE /\ stranded = {}
    /\ child = [p \in Execution |-> "none"] /\ tracked = {}
    /\ mon = [p \in Execution |-> "none"]
    /\ res = [p \in Execution |-> "none"]
    /\ ctx = [p \in Execution |-> "none"]
    /\ held = [p \in Execution |-> None]
    /\ queue = None /\ msg = [m \in Message |-> "new"]
    /\ req = [r \in Request |-> Idle]
    /\ stage = [r \in Request |-> "find"] /\ served = 0
    /\ notified = [p \in Execution |-> 0]
    /\ server = "up" /\ crashes = 0

-----------------------------------------------------------------------------
(* Actions and their chains.                                               *)

Scripts(n) == [i \in 1 .. n |-> "script"]

\* follow_up, start_queued_follow_up: an agent, then the cleanup scripts.
AgentAction == [reason |-> "CodingAgent", todo |-> <<"agent">> \o Scripts(cleanups)]
ScriptAction(reason, n) == [reason |-> reason, todo |-> Scripts(n)]

HasNext(p) == Len(act[p].todo) > 1

\* try_start_next_action: the run reason follows from the two action types.
NextAction(p) ==
    LET rest == Tail(act[p].todo) IN
    [reason |-> IF Head(rest) = "agent" THEN "CodingAgent"
                ELSE IF Head(act[p].todo) = "agent" THEN "CleanupScript"
                ELSE "SetupScript",
     todo |-> rest]

\* start_workspace
WorkspaceActions ==
    CASE setup = "none" -> <<AgentAction>>
      [] setup = "parallel" -> <<ScriptAction("SetupScript", 1), AgentAction>>
      [] setup = "sequential" -> <<[reason |-> "SetupScript",
                                    todo |-> <<"script">> \o AgentAction.todo]>>

Rows == {p \in Execution : status[p] # "none"}
RunningRows == {p \in Execution : status[p] = Running}
DevServers == {p \in RunningRows : act[p].reason = "DevServer"}
RunningAgent == \E p \in RunningRows : act[p].reason = "CodingAgent"
\* what try_stop finds: dropped rows are not listed
Stoppable == (RunningRows \ DevServers) \ dropped

-----------------------------------------------------------------------------
(* start_execution, from the row to the exit monitor; whoever called awaits *)
(* all of it, and a `?` returns to it from any step.                       *)

\* The next free row, committed on its own; pcs: the monitors after the caller's step
Insert(a, by, m, pcs) ==
    \E p \in Execution \ Rows :
        /\ \A q \in Execution \ Rows : p <= q
        /\ status' = [status EXCEPT ![p] = Running]
        /\ act' = [act EXCEPT ![p] = a]
        /\ caller' = [caller EXCEPT ![p] = by]
        /\ carried' = [carried EXCEPT ![p] = m]
        /\ mon' = [pcs EXCEPT ![p] = "inserted"]
        /\ UNCHANGED <<archived, stranded>>

Awaits(x) == \E p \in Execution : mon[p] \in Starting /\ caller[p] = x

\* The start of p has returned to the monitor that awaits it.
Returned(p, pc) ==
    [x \in Execution |->
        IF x = p THEN pc
        ELSE IF x # caller[p] THEN mon[x]
        ELSE IF mon[x] = "next" THEN "finalize" ELSE "cleanup"]

\* finalize_task
Notify(p) ==
    notified' = [notified EXCEPT ![p] =
                    IF ctx[p] \in {"Completed", "Failed"} THEN @ + 1 ELSE @]

\* A start that is an error: a monitor that followed up with it notifies instead.
StartError(p) ==
    LET q == caller[p] IN
    /\ mon' = Returned(p, "none")
    /\ IF q \in Execution /\ mon[q] = "follow_up" THEN Notify(q) ELSE UNCHANGED notified

\* A statement on row p is an error, and the row stays as it is.
DatabaseError(p) ==
    /\ Cardinality(stranded) < MaxError
    /\ stranded' = stranded \cup {p}
    /\ UNCHANGED <<status, act, caller, carried>>

\* The states of the repositories, the flag of the workspace and the turn of the
\* agent: an error of one leaves the row running.
Prepare(p) ==
    LET unarchived == archived /\ act[p].reason = "ArchiveScript" IN
    /\ mon[p] = "inserted"
    /\ \/ /\ archived' = unarchived
          /\ mon' = [mon EXCEPT ![p] = "spawning"]
          /\ UNCHANGED <<rows, notified>>
       \/ /\ archived' \in {archived, unarchived}
          /\ DatabaseError(p)
          /\ StartError(p)
    /\ UNCHANGED <<scripts, dropped, procs, res, ctx, held, queues, requests, host>>

\* The spawn, which may fail or take more than 30 seconds
Spawn(p) ==
    /\ mon[p] = "spawning"
    /\ \/ /\ child' = [child EXCEPT ![p] = "alive"]
          /\ mon' = [mon EXCEPT ![p] = "spawned"]
       \/ /\ mon' = [mon EXCEPT ![p] = "failing"]
          /\ UNCHANGED child
    /\ UNCHANGED <<scripts, rows, dropped, archived, tracked, res, ctx, held, queues,
                   requests, notified, host>>

\* Mutant: the row stays as it was inserted.
SpawnFailsUnrecorded(p) ==
    /\ mon[p] = "failing"
    /\ StartError(p)
    /\ UNCHANGED <<scripts, rows, dropped, archived, procs, res, ctx, held, queues,
                   requests, host>>

\* The row of a failed spawn is marked; an error of that is logged.
SpawnFails(p) ==
    /\ mon[p] = "failing"
    /\ \/ /\ status' = [status EXCEPT ![p] = "Failed"]
          /\ UNCHANGED <<act, caller, carried, stranded>>
       \/ DatabaseError(p)
    /\ StartError(p)
    /\ UNCHANGED <<scripts, dropped, archived, procs, res, ctx, held, queues, requests, host>>

\* add_child_to_store
Track(p) ==
    /\ mon[p] = "spawned"
    /\ tracked' = tracked \cup {p}
    /\ mon' = [mon EXCEPT ![p] = "tracked"]
    /\ UNCHANGED <<scripts, rows, dropped, archived, child, res, ctx, held, queues,
                   requests, notified, host>>

\* spawn_exit_monitor, after the cancellation token was stored
Watch(p) ==
    /\ mon[p] = "tracked"
    /\ mon' = Returned(p, "wait")
    /\ UNCHANGED <<scripts, rows, dropped, archived, procs, res, ctx, held, queues,
                   requests, notified, host>>

StartStep(p) == Prepare(p) \/ Spawn(p) \/ SpawnFails(p) \/ Track(p) \/ Watch(p)

ChildExits(p, how) ==
    /\ child[p] = "alive"
    /\ child' = [child EXCEPT ![p] = how]
    /\ UNCHANGED <<scripts, rows, dropped, archived, tracked, mon, res, ctx, held,
                   queues, requests, notified, host>>

-----------------------------------------------------------------------------
(* spawn_exit_monitor.                                                     *)

Killed(p) == [child EXCEPT ![p] = IF @ = "alive" THEN "bad" ELSE @]

\* The executor signals the end of the turn: the process group is killed, if
\* its handle is there; an error of the kill is logged.
ExitSignal(p, r, killed) ==
    /\ mon[p] = "wait" /\ act[p].reason = "CodingAgent"
    /\ child' = IF p \in tracked /\ killed THEN Killed(p) ELSE child
    /\ res' = [res EXCEPT ![p] = r]
    /\ mon' = [mon EXCEPT ![p] = "check"]
    /\ UNCHANGED <<scripts, rows, dropped, archived, tracked, ctx, held, queues,
                   requests, notified, host>>

\* Mutant: the watcher keeps polling when the handle is gone.
OsExitTrackedOnly(p) ==
    /\ mon[p] = "wait"
    /\ p \in tracked /\ child[p] \in {"ok", "bad"}
    /\ res' = [res EXCEPT ![p] = IF child[p] = "ok" THEN "ok" ELSE "fail"]
    /\ mon' = [mon EXCEPT ![p] = "check"]
    /\ UNCHANGED <<scripts, rows, dropped, archived, procs, ctx, held, queues, requests,
                   notified, host>>

\* spawn_os_exit_watcher: the exit status, or an error when the handle is gone.
OsExit(p) ==
    /\ mon[p] = "wait"
    /\ p \in tracked => child[p] \in {"ok", "bad"}
    /\ res' = [res EXCEPT ![p] = IF p \notin tracked THEN "error"
                                 ELSE IF child[p] = "ok" THEN "ok" ELSE "fail"]
    /\ mon' = [mon EXCEPT ![p] = "check"]
    /\ UNCHANGED <<scripts, rows, dropped, archived, procs, ctx, held, queues, requests,
                   notified, host>>

\* ExecutionProcess::was_stopped
CheckStopped(p) ==
    /\ mon[p] = "check"
    /\ mon' = [mon EXCEPT ![p] = IF status[p] \in {"Killed", "Completed"} THEN "load"
                                 ELSE "update"]
    /\ UNCHANGED <<scripts, rows, dropped, archived, procs, res, ctx, held, queues,
                   requests, notified, host>>

\* ExecutionProcess::update_completion, whatever the row holds by now; an error is
\* logged.
UpdateCompletion(p) ==
    /\ mon[p] = "update"
    /\ \/ /\ status' = [status EXCEPT ![p] = IF res[p] = "ok" THEN "Completed" ELSE "Failed"]
          /\ UNCHANGED <<act, caller, carried, stranded>>
       \/ DatabaseError(p)
    /\ mon' = [mon EXCEPT ![p] = "load"]
    /\ UNCHANGED <<scripts, dropped, archived, procs, res, ctx, held, queues, requests,
                   notified, host>>

\* load_context: the rest of the monitor goes by the status read here.
LoadContext(p) ==
    LET success == status[p] = "Completed" /\ res[p] = "ok"
        cleanupDone == act[p].reason = "CleanupScript" /\ status[p] # Running
    IN
    /\ mon[p] = "load"
    /\ ctx' = [ctx EXCEPT ![p] = status[p]]
    /\ mon' = [mon EXCEPT ![p] = IF success \/ cleanupDone THEN "commit" ELSE "finalize"]
    /\ UNCHANGED <<scripts, rows, dropped, archived, procs, res, held, queues, requests,
                   notified, host>>

\* should_finalize
ShouldFinalize(p) ==
    /\ act[p].reason # "DevServer"
    /\ ~(act[p].reason = "SetupScript" /\ ~HasNext(p))
    /\ ctx[p] \in {"Failed", "Killed"} \/ ~HasNext(p)

\* try_commit_changes, then try_start_next_action; changed: the agent left
\* changes or commits.  An agent that left none ends its turn here.
CommitTo(p, changed, unchangedPc) ==
    LET proceed == act[p].reason # "CodingAgent" \/ changed IN
    /\ mon[p] = "commit"
    /\ \/ /\ proceed /\ HasNext(p)
          /\ Insert(NextAction(p), p, None, [mon EXCEPT ![p] = "next"])
          /\ UNCHANGED notified
       \/ /\ proceed                          \* nothing to start, or it was an error
          /\ mon' = [mon EXCEPT ![p] = "finalize"]
          /\ UNCHANGED <<rows, archived, notified>>
       \/ /\ ~proceed
          /\ Notify(p)
          /\ mon' = [mon EXCEPT ![p] = unchangedPc]
          /\ UNCHANGED <<rows, archived>>
    /\ UNCHANGED <<scripts, dropped, procs, res, ctx, held, queues, requests, host>>

\* Mutant: already_finalized is forgotten.
CommitNotFinal(p, changed) == CommitTo(p, changed, "finalize")

Commit(p, changed) == CommitTo(p, changed, "running_agent")

\* Mutant: the message is read and left in the queue.
TakeCopy(p, pc) ==
    /\ held' = [held EXCEPT ![p] = queue]
    /\ mon' = [mon EXCEPT ![p] = pc]
    /\ UNCHANGED queues

\* take_queued, and the draft of the message is deleted
Take(p, pc) ==
    /\ held' = [held EXCEPT ![p] = queue]
    /\ queue' = None
    /\ msg' = [msg EXCEPT ![queue] = "taken"]
    /\ mon' = [mon EXCEPT ![p] = pc]

\* Mutant: after a failure the queue is not looked at.
FinalizeOnSuccess(p) ==
    /\ mon[p] = "finalize"
    /\ \/ /\ ~ShouldFinalize(p)
          /\ mon' = [mon EXCEPT ![p] = "running_agent"]
          /\ UNCHANGED <<queues, held, notified>>
       \/ /\ ShouldFinalize(p) /\ queue # None /\ ctx[p] \notin {"Failed", "Killed"}
          /\ Take(p, "start")
          /\ UNCHANGED notified
       \/ /\ ShouldFinalize(p) /\ (queue = None \/ ctx[p] \in {"Failed", "Killed"})
          /\ Notify(p)
          /\ mon' = [mon EXCEPT ![p] = "cleanup"]
          /\ UNCHANGED <<queues, held>>
    /\ UNCHANGED <<scripts, rows, dropped, archived, procs, res, ctx, requests, host>>

\* A queued message follows a turn that succeeded and is discarded after another.
Finalize(p) ==
    /\ mon[p] = "finalize"
    /\ \/ /\ ~ShouldFinalize(p)
          /\ mon' = [mon EXCEPT ![p] = "running_agent"]
          /\ UNCHANGED <<queues, held, notified>>
       \/ /\ ShouldFinalize(p) /\ queue # None /\ ctx[p] \notin {"Failed", "Killed"}
          /\ Take(p, "start")
          /\ UNCHANGED notified
       \/ /\ ShouldFinalize(p) /\ queue # None /\ ctx[p] \in {"Failed", "Killed"}
          /\ queue' = None
          /\ msg' = [msg EXCEPT ![queue] = "discarded"]
          /\ Notify(p)
          /\ mon' = [mon EXCEPT ![p] = "cleanup"]
          /\ UNCHANGED held
       \/ /\ ShouldFinalize(p) /\ queue = None
          /\ Notify(p)
          /\ mon' = [mon EXCEPT ![p] = "cleanup"]
          /\ UNCHANGED <<queues, held>>
    /\ UNCHANGED <<scripts, rows, dropped, archived, procs, res, ctx, requests, host>>

\* start_queued_follow_up at the end of a turn, or when a setup script ends
StartQueued(p) ==
    LET late == mon[p] = "start_late"
        m == held[p]
    IN
    /\ mon[p] \in {"start", "start_late"}
    /\ held' = [held EXCEPT ![p] = None]
    /\ \/ /\ Insert(AgentAction, p, m,
                    [mon EXCEPT ![p] = IF late THEN "follow_up_late" ELSE "follow_up"])
          /\ msg' = [msg EXCEPT ![m] = "started"]
          /\ UNCHANGED notified
       \/ /\ msg' = [msg EXCEPT ![m] = "lost"]     \* another executor, or an error
          /\ mon' = [mon EXCEPT ![p] = "cleanup"]
          /\ IF late THEN UNCHANGED notified ELSE Notify(p)
          /\ UNCHANGED <<rows, archived>>
    /\ UNCHANGED <<scripts, dropped, procs, res, ctx, queue, requests, host>>

\* A setup script that ends the chain looks for a message that was stuck.
CheckRunningAgent(p) ==
    LET looks == act[p].reason = "SetupScript" /\ ~ShouldFinalize(p) IN
    /\ mon[p] = "running_agent"
    /\ mon' = [mon EXCEPT ![p] = IF looks /\ ~RunningAgent THEN "take" ELSE "cleanup"]
    /\ UNCHANGED <<scripts, rows, dropped, archived, procs, res, ctx, held, queues,
                   requests, notified, host>>

TakeStuck(p) ==
    /\ mon[p] = "take"
    /\ \/ queue # None /\ Take(p, "start_late")
       \/ /\ queue = None
          /\ mon' = [mon EXCEPT ![p] = "cleanup"]
          /\ UNCHANGED <<queues, held>>
    /\ UNCHANGED <<scripts, rows, dropped, archived, procs, res, ctx, requests, notified,
                   host>>

\* The handle is removed; dropping it kills what is left of the child.
Cleanup(p) ==
    /\ mon[p] = "cleanup"
    /\ tracked' = tracked \ {p}
    /\ child' = [child EXCEPT ![p] = "gone"]
    /\ mon' = [mon EXCEPT ![p] = "done"]
    /\ res' = [res EXCEPT ![p] = "none"] /\ ctx' = [ctx EXCEPT ![p] = "none"]
    /\ UNCHANGED <<scripts, rows, dropped, archived, held, queues, requests, notified,
                   host>>

MonitorStep(p) ==
    \/ OsExit(p) \/ CheckStopped(p) \/ UpdateCompletion(p) \/ LoadContext(p)
    \/ \E changed \in BOOLEAN : Commit(p, changed)
    \/ Finalize(p) \/ StartQueued(p) \/ CheckRunningAgent(p) \/ TakeStuck(p)
    \/ Cleanup(p)

-----------------------------------------------------------------------------
(* The queue: one message per session, in memory.                          *)

QueueMessage(m) ==
    /\ server = "up" /\ msg[m] = "new"
    /\ queue' = m
    /\ msg' = [x \in Message |-> IF x = m THEN "queued"
                                 ELSE IF x = queue THEN "replaced" ELSE msg[x]]
    /\ UNCHANGED <<scripts, rows, dropped, archived, procs, mon, res, ctx, held,
                   requests, notified, host>>

CancelQueued ==
    /\ server = "up" /\ queue # None
    /\ queue' = None
    /\ msg' = [msg EXCEPT ![queue] = "cancelled"]
    /\ UNCHANGED <<scripts, rows, dropped, archived, procs, mon, res, ctx, held,
                   requests, notified, host>>

-----------------------------------------------------------------------------
(* Requests: executions to stop, rows to drop, executions to start, in     *)
(* this order, as found when the request was admitted.                     *)

Admitted(r, stops, drop, starts) ==
    /\ req' = [req EXCEPT ![r] = [stops |-> stops, drop |-> drop, starts |-> starts]]
    /\ served' = served + 1

Admit(r, route) ==
    /\ server = "up" /\ req[r] = Idle /\ served < MaxRequest
    /\ ~Awaits(r)
    /\ archived' = (archived \/ route = "archive")
    /\ CASE route = "workspace" -> Rows = {} /\ Admitted(r, {}, 0, WorkspaceActions)
         [] route = "follow_up" -> Rows # {} /\ Admitted(r, {}, 0, <<AgentAction>>)
         [] route = "review" ->       \* start_review
              /\ Rows # {} /\ RunningRows \subseteq DevServers
              /\ Admitted(r, {}, 0, <<[reason |-> "CodingAgent", todo |-> <<"agent">>]>>)
         [] route = "setup" ->        \* run_setup_script
              /\ Rows # {} /\ RunningRows \subseteq DevServers
              /\ Admitted(r, {}, 0, <<ScriptAction("SetupScript", 1)>>)
         [] route = "cleanup" ->      \* run_cleanup_script
              /\ Rows # {} /\ RunningRows \subseteq DevServers /\ cleanups > 0
              /\ Admitted(r, {}, 0, <<ScriptAction("CleanupScript", cleanups)>>)
         [] route = "dev_server" ->   \* start_dev_server
              Admitted(r, DevServers, 0, <<ScriptAction("DevServer", 1)>>)
         [] route = "archive" ->      \* archive_workspace
              Admitted(r, DevServers, 0, <<ScriptAction("ArchiveScript", 1)>>)
         [] route = "archive_script" ->   \* run_archive_script
              /\ RunningRows \subseteq DevServers
              /\ Admitted(r, {}, 0, <<ScriptAction("ArchiveScript", 1)>>)
         [] route = "stop" ->         \* stop_execution_process
              \E p \in Rows : Admitted(r, {p}, 0, <<>>)
         [] route = "stop_all" ->     \* stop_workspace_execution
              Stoppable # {} /\ Admitted(r, Stoppable, 0, <<>>)
         [] route = "kill_all" ->     \* kill_all_running_processes, at shutdown
              RunningRows # {} /\ Admitted(r, RunningRows, 0, <<>>)
         [] route = "reset" ->        \* reset_process, or a follow-up that retries
              \E p \in Rows, starts \in {<<>>, <<AgentAction>>} :
                  Admitted(r, Stoppable, p, starts)
    /\ UNCHANGED <<scripts, rows, dropped, procs, mon, res, ctx, held, queues, stage,
                   notified, host>>

Stopping(r, p) == p \in req[r].stops /\ \A q \in req[r].stops : p <= q
Stopped(r, p) == req' = [req EXCEPT ![r].stops = @ \ {p}]

\* stop_execution: no handle is an error, and the request goes on.
FindChild(r, p) ==
    /\ Stopping(r, p) /\ stage[r] = "find"
    /\ IF p \in tracked
       THEN stage' = [stage EXCEPT ![r] = "mark"] /\ UNCHANGED req
       ELSE Stopped(r, p) /\ UNCHANGED stage
    /\ UNCHANGED <<scripts, rows, dropped, archived, procs, mon, res, ctx, held, queues,
                   served, notified, host>>

\* The row is marked before the child is cancelled.
MarkKilled(r, p) ==
    /\ Stopping(r, p) /\ stage[r] = "mark"
    /\ status' = [status EXCEPT ![p] = "Killed"]
    /\ stage' = [stage EXCEPT ![r] = "kill"]
    /\ UNCHANGED <<scripts, act, caller, carried, stranded, dropped, archived, procs, mon, res,
                   ctx, held, queues, req, served, notified, host>>

\* Mutant: the error of the kill is logged and the stop goes on.
KillGroupLogged(r, p) ==
    /\ Stopping(r, p) /\ stage[r] = "kill"
    /\ child' \in {Killed(p), child}
    /\ stage' = [stage EXCEPT ![r] = "remove"]
    /\ UNCHANGED <<scripts, rows, dropped, archived, tracked, mon, res, ctx, held,
                   queues, req, served, notified, host>>

\* The monitor ended or 5 seconds passed; the kill may be an error.
KillGroup(r, p) ==
    /\ Stopping(r, p) /\ stage[r] = "kill"
    /\ \/ /\ child' = Killed(p)
          /\ stage' = [stage EXCEPT ![r] = "remove"]
          /\ UNCHANGED req
       \/ /\ Stopped(r, p)
          /\ stage' = [stage EXCEPT ![r] = "find"]
          /\ UNCHANGED child
    /\ UNCHANGED <<scripts, rows, dropped, archived, tracked, mon, res, ctx, held,
                   queues, served, notified, host>>

RemoveChild(r, p) ==
    /\ Stopping(r, p) /\ stage[r] = "remove"
    /\ tracked' = tracked \ {p}
    /\ Stopped(r, p)
    /\ stage' = [stage EXCEPT ![r] = "find"]
    /\ UNCHANGED <<scripts, rows, dropped, archived, child, mon, res, ctx, held, queues,
                   served, notified, host>>

\* drop_at_and_after
DropRows(r) ==
    /\ req[r].stops = {} /\ req[r].drop # 0
    /\ dropped' = dropped \cup {p \in Rows : p >= req[r].drop}
    /\ req' = [req EXCEPT ![r].drop = 0]
    /\ UNCHANGED <<scripts, rows, archived, procs, mon, res, ctx, held, queues, stage,
                   served, notified, host>>

\* The archive script is skipped while something runs; an error ends the
\* request, except that of a parallel setup script.
StartNext(r) ==
    LET a == Head(req[r].starts) IN
    /\ req[r].stops = {} /\ req[r].drop = 0 /\ req[r].starts # <<>>
    /\ ~Awaits(r)
    /\ req' = [req EXCEPT ![r].starts = Tail(@)]
    /\ \/ /\ a.reason = "ArchiveScript" => RunningRows \subseteq DevServers
          /\ Insert(a, r, None, mon)
       \/ UNCHANGED <<rows, mon, archived>>
    /\ UNCHANGED <<scripts, dropped, procs, res, ctx, held, queues, stage, served,
                   notified, host>>

RequestStep(r) ==
    \/ \E p \in Execution : \/ FindChild(r, p) \/ MarkKilled(r, p) \/ KillGroup(r, p)
                            \/ RemoveChild(r, p)
    \/ DropRows(r) \/ StartNext(r)

-----------------------------------------------------------------------------
(* The server crashes; the children live on.  cleanup_orphan_executions    *)
(* runs before requests are served.                                        *)

Crash ==
    /\ server = "up" /\ crashes < MaxCrash
    /\ server' = "down" /\ crashes' = crashes + 1
    /\ child' = [p \in Execution |-> CASE child[p] = "alive" -> "orphan"
                                       [] child[p] \in {"ok", "bad"} -> "gone"
                                       [] OTHER -> child[p]]
    /\ tracked' = {}
    /\ mon' = [p \in Execution |-> "none"]
    /\ res' = [p \in Execution |-> "none"] /\ ctx' = [p \in Execution |-> "none"]
    /\ held' = [p \in Execution |-> None]
    /\ queue' = None
    /\ msg' = [m \in Message |-> IF msg[m] \in {"queued", "taken"} THEN "lost" ELSE msg[m]]
    /\ req' = [r \in Request |-> Idle]
    /\ stage' = [r \in Request |-> "find"]
    /\ UNCHANGED <<scripts, rows, dropped, archived, served, notified>>

Restart ==
    /\ server = "down"
    /\ server' = "recovering"
    /\ UNCHANGED <<scripts, rows, dropped, archived, procs, mon, res, ctx, held, queues,
                   requests, notified, crashes>>

\* Mutant: a status the database does not know.
RecoverRowCrashed(p) ==
    /\ server = "recovering" /\ p \in RunningRows
    /\ status' = [status EXCEPT ![p] = "Crashed"]
    /\ UNCHANGED <<scripts, act, caller, carried, stranded, dropped, archived, procs, mon, res,
                   ctx, held, queues, requests, notified, host>>

RecoverRow(p) ==
    /\ server = "recovering" /\ p \in RunningRows
    /\ status' = [status EXCEPT ![p] = "Failed"]
    /\ UNCHANGED <<scripts, act, caller, carried, stranded, dropped, archived, procs, mon, res,
                   ctx, held, queues, requests, notified, host>>

Serve ==
    /\ server = "recovering" /\ RunningRows = {}
    /\ server' = "up"
    /\ UNCHANGED <<scripts, rows, dropped, archived, procs, mon, res, ctx, held, queues,
                   requests, notified, crashes>>

Next ==
    \/ \E p \in Execution :
        \/ StartStep(p) \/ MonitorStep(p) \/ RecoverRow(p)
        \/ \E how \in {"ok", "bad"} : ChildExits(p, how)
        \/ \E r \in {"ok", "fail"}, killed \in BOOLEAN : ExitSignal(p, r, killed)
    \/ \E m \in Message : QueueMessage(m)
    \/ CancelQueued
    \/ \E r \in Request : RequestStep(r) \/ \E route \in Route : Admit(r, route)
    \/ Crash \/ Restart \/ Serve

Spec == Init /\ [][Next]_vars

\* Tasks of the runtime are not starved, every start ends within 30 seconds, a
\* stop within its timeouts, and a child other than a dev server exits.
Fairness ==
    /\ \A p \in Execution :
        /\ WF_vars(StartStep(p))
        /\ WF_vars(MonitorStep(p))
        /\ WF_vars(act[p].reason # "DevServer" /\ \E how \in {"ok", "bad"} : ChildExits(p, how))
    /\ \A r \in Request : WF_vars(RequestStep(r))

FairSpec == Spec /\ Fairness
-----------------------------------------------------------------------------
(* Properties.                                                             *)

\* While requests are served, a row that says running has a start under way or a
\* monitor that has not recorded the exit yet, unless an error of the database
\* stranded it: rows left behind by a failed start, a stop, a crash or a lost exit
\* would block scripts and deletion until the next restart.
RunningIsWatched ==
    server = "up" =>
        \A p \in RunningRows \ stranded : mon[p] \in Starting \cup {"wait", "check", "update"}

\* A live child of this server is in the hands of a start that is about to register
\* it, or can be stopped and is waited for: its handle is in child_store and its
\* monitor is about to start or has not ended, whatever errors of the database or of
\* kills and concurrent stops happened.
LiveIsReachable ==
    \A p \in Execution : child[p] = "alive" =>
        \/ p \in tracked /\ mon[p] \notin {"none", "done"}
        \/ p \notin tracked /\ mon[p] = "spawned"

\* A queued message runs at most once, although the monitors of several
\* executions take from the queue, and never after it was cancelled, replaced or
\* discarded.
MessageOnce ==
    \A p \in Execution : carried[p] # None =>
        /\ msg[carried[p]] = "started"
        /\ \A q \in Execution \ {p} : carried[q] # carried[p]

\* An execution ends in one way: one notification, or a queued follow-up that
\* started in its place, never both and never twice.
OneEnd ==
    \A p \in Execution :
        LET followed == \E q \in Execution : /\ caller[q] = p /\ carried[q] # None
                                             /\ child[q] # "none"
        IN  notified[p] <= IF followed THEN 0 ELSE 1

\* Once its child has exited, or its handle was removed by a stop, an execution
\* gets its final status, its monitor ends and its handle is released, unless the
\* server crashes; an error of the database costs the status and nothing else.
ExitSettles ==
    \A p \in Execution :
        (mon[p] = "wait" /\ (child[p] # "alive" \/ p \notin tracked))
            ~> \/ /\ mon[p] = "done" /\ p \notin tracked
                  /\ status[p] = Running => p \in stranded
               \/ server # "up"

\* A message queued while an agent runs is started, discarded or cancelled when
\* the turn ends, unless the turn left no changes, the start of what follows it
\* fails, or an error of the database strands a row: then the monitors pass it by.
QueuedHandled ==
    \A m \in Message :
        (queue = m /\ \E p \in RunningRows : act[p].reason = "CodingAgent" /\ mon[p] = "wait")
            ~> \/ queue # m
               \/ \E p \in Execution : /\ act[p].reason = "CodingAgent"
                                       /\ mon[p] = "running_agent" /\ notified[p] > 0
               \/ \E p \in Execution : status[p] = "Failed" /\ mon[p] = "none"
               \/ stranded # {}
=============================================================================
