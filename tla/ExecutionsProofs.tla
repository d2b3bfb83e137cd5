-------------------------- MODULE ExecutionsProofs --------------------------
(***************************************************************************)
(* Executions: no row, child or message is left behind, for any number of  *)
(* executions, requests, messages and crashes.                             *)
(***************************************************************************)
EXTENDS Executions, SequenceTheorems, TLAPS

-----------------------------------------------------------------------------
(* The invariant.                                                          *)

\* A row that was not inserted has nothing.
Unborn ==
    \A p \in Execution : status[p] = "none" =>
        mon[p] = "none" /\ child[p] = "none" /\ p \notin tracked /\ notified[p] = 0

\* While the server is down nothing of its memory is left.
DownIsEmpty ==
    server # "up" => /\ \A p \in Execution : mon[p] = "none"
                     /\ \A r \in Request : req[r] = Idle

\* A start under way has a child once it was spawned and a handle once it is tracked;
\* the monitor that called it waits for it and for nothing else, in a follow-up if it
\* carries a queued message.
Awaited(p) ==
    /\ mon[p] \in {"spawned", "tracked"} <=> child[p] # "none"
    /\ p \in tracked => mon[p] = "tracked"
    /\ caller[p] \in Execution =>
        /\ mon[caller[p]] \in {"next", "follow_up", "follow_up_late"}
        /\ carried[p] # None => mon[caller[p]] # "next"
        /\ \A q \in Execution : mon[q] \in Starting /\ caller[q] = caller[p] => q = p
StartsAwaited == \A p \in Execution : mon[p] \in Starting => Awaited(p)

\* A monitor is that of a child.
MonitorsOfChildren ==
    \A p \in Execution : mon[p] \notin Starting \cup {"none"} => child[p] # "none"
\* A handle is that of a child; a stop that found it cancels that child, and
\* removes the handle after the child was killed.
HandlesOfChildren == \A p \in tracked : child[p] # "none"
StopsInOrder ==
    \A r \in Request :
        /\ req[r].stops = {} => stage[r] = "find"
        /\ \A p \in Execution : Stopping(r, p) =>
            /\ stage[r] # "find" => child[p] # "none"
            /\ stage[r] = "remove" => child[p] # "alive"

\* A message is in one place: the queue, the hands of one monitor, or one row.
MessageInOnePlace ==
    /\ queue # None => msg[queue] = "queued"
    /\ \A p \in Execution : held[p] # None =>
        /\ msg[held[p]] = "taken"
        /\ \A q \in Execution \ {p} : held[q] # held[p]

\* Where a monitor has not notified yet, and where it may have: after a turn that
\* left no changes, or at its end.
NotNotified ==
    \A p \in Execution :
        /\ mon[p] \notin {"running_agent", "cleanup", "done", "none"} => notified[p] = 0
        /\ mon[p] = "running_agent" => notified[p] = 0 \/ act[p].reason = "CodingAgent"
        /\ notified[p] <= 1
\* A monitor whose follow-up has a child waits for that start, or is at its end.
FollowedBy(p, q) == caller[q] = p /\ carried[q] # None /\ child[q] # "none"
FollowedEnds ==
    \A p, q \in Execution : FollowedBy(p, q) =>
        /\ notified[p] = 0 /\ status[p] # "none"
        /\ \/ mon[p] \in {"cleanup", "done", "none"}
           \/ mon[p] \in {"follow_up", "follow_up_late"} /\ mon[q] \in Starting

ControlInv ==
    /\ Unborn /\ DownIsEmpty /\ StartsAwaited /\ RunningIsWatched
    /\ MonitorsOfChildren /\ HandlesOfChildren /\ StopsInOrder /\ LiveIsReachable
    /\ NotNotified /\ FollowedEnds
MessageInv == MessageInOnePlace /\ MessageOnce
ExecutionInv == TypeOK /\ ControlInv /\ MessageInv

-----------------------------------------------------------------------------
(* Types.                                                                  *)

\* The action chains that requests and monitors start.
LEMMA ActionTypes ==
    ASSUME RowTypes
    PROVE  /\ cleanups \in Nat
           /\ AgentAction \in Action
           /\ \A reason \in Reason, n \in Nat : ScriptAction(reason, n) \in Action
           /\ WorkspaceActions \in Seq(Action)
<1>1. cleanups \in Nat /\ setup \in {"none", "parallel", "sequential"}
  BY ExecutionAssumption DEF RowTypes
<1>2. \A n \in Nat : Scripts(n) \in Seq({"script", "agent"})
  BY DEF Scripts
<1>3. AgentAction \in Action
  <2>1. <<"agent">> \o Scripts(cleanups) \in Seq({"script", "agent"})
    BY <1>1, <1>2
  <2> QED BY <2>1 DEF AgentAction, Action, Reason
<1>4. \A reason \in Reason, n \in Nat : ScriptAction(reason, n) \in Action
  BY <1>2 DEF ScriptAction, Action
<1>5. WorkspaceActions \in Seq(Action)
  <2>1. ScriptAction("SetupScript", 1) \in Action
    BY <1>4 DEF Reason
  <2>2. [reason |-> "SetupScript", todo |-> <<"script">> \o AgentAction.todo] \in Action
    BY <1>3 DEF Action, Reason
  <2>3. CASE setup = "none"
    BY <1>3, <2>3 DEF WorkspaceActions
  <2>4. CASE setup = "parallel"
    BY <1>3, <2>1, <2>4 DEF WorkspaceActions
  <2>5. CASE setup = "sequential"
    BY <2>2, <2>5 DEF WorkspaceActions
  <2> QED BY <1>1, <2>3, <2>4, <2>5
<1> QED BY <1>1, <1>3, <1>4, <1>5

\* The next action of a chain.
LEMMA NextActionType ==
    ASSUME RowTypes, NEW p \in Execution, HasNext(p)
    PROVE  NextAction(p) \in Action
<1>1. act[p].todo \in Seq({"script", "agent"})
  <2>1. act[p] # Blank
    BY DEF HasNext, Blank
  <2>2. act[p] \in Action
    BY <2>1 DEF RowTypes
  <2> QED BY <2>2 DEF Action
<1>2. Tail(act[p].todo) \in Seq({"script", "agent"})
  BY <1>1 DEF HasNext
<1> QED BY <1>2 DEF NextAction, Action, Reason

\* Inserting a row keeps the types of the rows.
LEMMA InsertType ==
    ASSUME RowTypes, UNCHANGED <<scripts, dropped>>,
           NEW a \in Action, NEW by \in Execution \cup Request \cup {None},
           NEW m \in Message \cup {None}, NEW pcs \in [Execution -> Step],
           Insert(a, by, m, pcs)
    PROVE  RowTypes' /\ mon' \in [Execution -> Step]
<1>1. PICK p \in Execution \ Rows :
        /\ status' = [status EXCEPT ![p] = Running]
        /\ act' = [act EXCEPT ![p] = a]
        /\ caller' = [caller EXCEPT ![p] = by]
        /\ carried' = [carried EXCEPT ![p] = m]
        /\ mon' = [pcs EXCEPT ![p] = "inserted"]
        /\ UNCHANGED <<archived, stranded>>
  BY DEF Insert
<1>2. mon' \in [Execution -> Step]
  BY <1>1 DEF Step, Starting
<1>3. archived' \in BOOLEAN /\ stranded' \subseteq Execution
  BY <1>1 DEF RowTypes
<1>4. status' \in [Execution -> Status] /\ act' \in [Execution -> Action \cup {Blank}]
  BY <1>1 DEF RowTypes, Status
<1>5. caller' \in [Execution -> Execution \cup Request \cup {None}]
      /\ carried' \in [Execution -> Message \cup {None}]
  BY <1>1 DEF RowTypes
<1> QED BY <1>2, <1>3, <1>4, <1>5 DEF RowTypes, scripts

\* The return of a start to the one who awaits it.
LEMMA ReturnedType ==
    ASSUME MonitorTypes, NEW p \in Execution, NEW l \in Step
    PROVE  Returned(p, l) \in [Execution -> Step]
BY DEF Returned, MonitorTypes, Step, Starting

\* An error of the database, and a start that is one.
LEMMA ErrorType ==
    ASSUME RowTypes, NEW p \in Execution, DatabaseError(p)
    PROVE  /\ UNCHANGED <<status, act, caller, carried>>
           /\ stranded' \subseteq Execution /\ stranded' = stranded \cup {p}
BY DEF RowTypes, DatabaseError

\* A notification counts.
LEMMA NotifyType ==
    ASSUME MonitorTypes, NEW p \in Execution, Notify(p)
    PROVE  notified' \in [Execution -> Nat]
BY DEF MonitorTypes, Notify

\* A start that is an error returns and may notify.
LEMMA StartErrorType ==
    ASSUME MonitorTypes, NEW p \in Execution, StartError(p)
    PROVE  mon' \in [Execution -> Step] /\ notified' \in [Execution -> Nat]
<1>1. "none" \in Step
  BY DEF Step
<1>2. notified' \in [Execution -> Nat]
  BY NotifyType DEF StartError, MonitorTypes
<1> QED BY <1>1, <1>2, ReturnedType DEF StartError

\* A start and what a child does.
LEMMA StartType ==
    ASSUME TypeOK, NEW p \in Execution,
           \/ StartStep(p) \/ RecoverRow(p)
           \/ \E how \in {"ok", "bad"} : ChildExits(p, how)
           \/ \E r \in {"ok", "fail"}, killed \in BOOLEAN : ExitSignal(p, r, killed)
    PROVE  TypeOK'
<1> USE DEF TypeOK
<1>0. /\ "wait" \in Step /\ "check" \in Step /\ "Failed" \in Status
      /\ "spawning" \in Step /\ "spawned" \in Step /\ "failing" \in Step /\ "tracked" \in Step
  BY DEF Step, Status, Starting
<1>1. CASE Prepare(p)
  <2>1. archived' \in BOOLEAN
    BY <1>1 DEF Prepare, RowTypes
  <2>2. CASE DatabaseError(p) /\ StartError(p)
    BY <1>1, <2>1, <2>2, ErrorType, StartErrorType
       DEF Prepare, RowTypes, MonitorTypes, RequestTypes, scripts, procs, queues, requests, host
  <2>3. CASE mon' = [mon EXCEPT ![p] = "spawning"] /\ UNCHANGED <<rows, notified>>
    BY <1>0, <1>1, <2>1, <2>3
       DEF Prepare, RowTypes, MonitorTypes, RequestTypes, scripts, rows, procs, queues, requests,
           host
  <2> QED BY <1>1, <2>2, <2>3 DEF Prepare
<1>2. CASE SpawnFails(p)
  <2>1. mon' \in [Execution -> Step] /\ notified' \in [Execution -> Nat]
    BY <1>2, StartErrorType DEF SpawnFails
  <2>2. RowTypes'
    BY <1>0, <1>2, ErrorType DEF SpawnFails, RowTypes, scripts
  <2> QED BY <1>2, <2>1, <2>2 DEF SpawnFails, MonitorTypes, RequestTypes, procs, queues, requests,
                                  host
<1>6. CASE Spawn(p) \/ Track(p)
  BY <1>0, <1>6 DEF Spawn, Track, RowTypes, MonitorTypes, RequestTypes, scripts, rows, queues,
                    requests, host
<1>7. CASE Watch(p)
  <2>1. mon' \in [Execution -> Step]
    BY <1>0, <1>7, ReturnedType DEF Watch
  <2> QED BY <1>7, <2>1 DEF Watch, RowTypes, MonitorTypes, RequestTypes, scripts, rows, procs,
                            queues, requests, host
<1>3. CASE RecoverRow(p)
  BY <1>0, <1>3 DEF RecoverRow, RowTypes, MonitorTypes, RequestTypes, scripts, procs, queues,
                    requests, host
<1>4. CASE \E how \in {"ok", "bad"} : ChildExits(p, how)
  BY <1>4 DEF ChildExits, RowTypes, MonitorTypes, RequestTypes, scripts, rows, queues,
              requests, host
<1>5. ASSUME NEW r \in {"ok", "fail"}, NEW killed \in BOOLEAN, ExitSignal(p, r, killed)
      PROVE  TypeOK'
  BY <1>0, <1>5 DEF ExitSignal, Killed, RowTypes, MonitorTypes, RequestTypes, scripts, rows,
                    queues, requests, host
<1> QED BY <1>1, <1>2, <1>3, <1>4, <1>5, <1>6, <1>7 DEF StartStep

\* Taking the queued message.
LEMMA TakeType ==
    ASSUME TypeOK, NEW p \in Execution, NEW l \in Step, queue # None, Take(p, l)
    PROVE  /\ mon' \in [Execution -> Step] /\ held' \in [Execution -> Message \cup {None}]
           /\ queue' \in Message \cup {None}
           /\ msg' \in [Message -> {"new", "queued", "taken", "started", "cancelled",
                            "replaced", "discarded", "lost"}]
BY DEF Take, TypeOK, MonitorTypes, RequestTypes

\* The exit monitor.
LEMMA MonitorType ==
    ASSUME TypeOK, NEW p \in Execution, MonitorStep(p)
    PROVE  TypeOK'
<1> USE DEF TypeOK
<1>0. \A l \in {"load", "update", "check", "commit", "finalize", "running_agent", "start",
                "cleanup", "start_late", "done", "next", "follow_up", "follow_up_late", "take"} :
        l \in Step /\ [mon EXCEPT ![p] = l] \in [Execution -> Step]
  BY DEF Step, MonitorTypes
<1>1. CASE OsExit(p)
  BY <1>0, <1>1 DEF OsExit, RowTypes, MonitorTypes, RequestTypes, scripts, rows, procs, queues,
                    requests, host
<1>2. CASE CheckStopped(p) \/ CheckRunningAgent(p)
  BY <1>0, <1>2 DEF CheckStopped, CheckRunningAgent, RowTypes, MonitorTypes, RequestTypes,
                    scripts, rows, procs, queues, requests, host
<1>3. CASE UpdateCompletion(p)
  <2>1. RowTypes'
    BY <1>3, ErrorType DEF UpdateCompletion, RowTypes, Status, scripts
  <2> QED BY <1>0, <1>3, <2>1 DEF UpdateCompletion, MonitorTypes, RequestTypes, procs, queues,
                                  requests, host
<1>4. CASE LoadContext(p)
  <2>1. status[p] \in Status
    BY DEF RowTypes
  <2> QED BY <1>0, <1>4, <2>1 DEF LoadContext, RowTypes, MonitorTypes, RequestTypes, scripts,
                                  rows, procs, queues, requests, host
<1>5. ASSUME NEW changed \in BOOLEAN, Commit(p, changed) PROVE TypeOK'
  <2>1. CASE HasNext(p) /\ Insert(NextAction(p), p, None, [mon EXCEPT ![p] = "next"])
             /\ UNCHANGED notified
    <3>1. RowTypes' /\ mon' \in [Execution -> Step]
      BY <1>0, <1>5, <2>1, NextActionType, InsertType DEF Commit, CommitTo
    <3> QED BY <1>5, <2>1, <3>1 DEF Commit, CommitTo, MonitorTypes, RequestTypes,
                                    procs, queues, requests, host
  <2>2. CASE mon' = [mon EXCEPT ![p] = "finalize"] /\ UNCHANGED <<rows, archived, notified>>
    BY <1>0, <1>5, <2>2 DEF Commit, CommitTo, RowTypes, MonitorTypes, RequestTypes, scripts,
                            rows, procs, queues, requests, host
  <2>3. CASE mon' = [mon EXCEPT ![p] = "running_agent"] /\ Notify(p) /\ UNCHANGED <<rows, archived>>
    <3>1. notified' \in [Execution -> Nat]
      BY <2>3, NotifyType
    <3> QED BY <1>0, <1>5, <2>3, <3>1 DEF Commit, CommitTo, RowTypes, MonitorTypes, RequestTypes,
                                 scripts, rows, procs, queues, requests, host
  <2> QED BY <1>5, <2>1, <2>2, <2>3 DEF Commit, CommitTo
<1>6. CASE Finalize(p)
  <2>1. mon' \in [Execution -> Step]
    BY <1>0, <1>6, TakeType DEF Finalize
  <2>2. held' \in [Execution -> Message \cup {None}] /\ queue' \in Message \cup {None}
    BY <1>0, <1>6, TakeType DEF Finalize, queues, MonitorTypes, RequestTypes
  <2>3. msg' \in [Message -> {"new", "queued", "taken", "started", "cancelled",
                            "replaced", "discarded", "lost"}]
    BY <1>0, <1>6, TakeType DEF Finalize, queues, RequestTypes
  <2>4. notified' \in [Execution -> Nat]
    BY <1>6, NotifyType DEF Finalize, MonitorTypes
  <2> QED BY <1>6, <2>1, <2>2, <2>3, <2>4 DEF Finalize, RowTypes, MonitorTypes, RequestTypes,
                              scripts, rows, procs, requests, host
<1>7. CASE StartQueued(p)
  <2>0. AgentAction \in Action /\ held[p] \in Message \cup {None}
    BY ActionTypes DEF MonitorTypes
  <2>1. RowTypes' /\ mon' \in [Execution -> Step]
    <3>1. ASSUME NEW l \in {"follow_up", "follow_up_late"},
                 Insert(AgentAction, p, held[p], [mon EXCEPT ![p] = l])
          PROVE  RowTypes' /\ mon' \in [Execution -> Step]
      BY <1>0, <1>7, <2>0, <3>1, InsertType DEF StartQueued
    <3>2. CASE mon' = [mon EXCEPT ![p] = "cleanup"] /\ UNCHANGED <<rows, archived>>
      BY <1>0, <1>7, <3>2 DEF StartQueued, RowTypes, scripts, rows
    <3> QED BY <1>7, <3>1, <3>2 DEF StartQueued
  <2>2. notified' \in [Execution -> Nat]
    BY <1>7, NotifyType DEF StartQueued, MonitorTypes
  <2>3. held' \in [Execution -> Message \cup {None}]
    BY <1>7 DEF StartQueued, MonitorTypes
  <2>4. msg' \in [Message -> {"new", "queued", "taken", "started", "cancelled",
                            "replaced", "discarded", "lost"}]
    BY <1>7, <2>0 DEF StartQueued, RequestTypes
  <2> QED BY <1>7, <2>1, <2>2, <2>3, <2>4 DEF StartQueued, MonitorTypes, RequestTypes,
                              procs, requests, host
<1>8. CASE TakeStuck(p)
  <2>1. /\ mon' \in [Execution -> Step] /\ held' \in [Execution -> Message \cup {None}]
        /\ queue' \in Message \cup {None}
        /\ msg' \in [Message -> {"new", "queued", "taken", "started", "cancelled",
                            "replaced", "discarded", "lost"}]
    BY <1>0, <1>8, TakeType DEF TakeStuck, queues, MonitorTypes, RequestTypes
  <2> QED BY <1>8, <2>1 DEF TakeStuck, RowTypes, MonitorTypes, RequestTypes,
                              scripts, rows, procs, requests, host
<1>9. CASE Cleanup(p)
  BY <1>0, <1>9 DEF Cleanup, RowTypes, MonitorTypes, RequestTypes, scripts, rows, queues,
                    requests, host, Status
<1> QED BY <1>1, <1>2, <1>3, <1>4, <1>5, <1>6, <1>7, <1>8, <1>9 DEF MonitorStep

\* A request that is admitted.
LEMMA AdmittedType ==
    ASSUME TypeOK, NEW r \in Request, served < MaxRequest,
           NEW stops \in SUBSET Execution, NEW drop \in Execution \cup {0},
           NEW starts \in Seq(Action), Admitted(r, stops, drop, starts)
    PROVE  req' \in [Request -> Stops] /\ served' \in 0 .. MaxRequest
<1>1. [stops |-> stops, drop |-> drop, starts |-> starts] \in Stops
  BY DEF Stops
<1>2. served' \in 0 .. MaxRequest
  BY ExecutionAssumption DEF TypeOK, RequestTypes, Admitted
<1> QED BY <1>1, <1>2 DEF TypeOK, RequestTypes, Admitted

\* Whatever the route, the request is admitted with executions to stop and to start.
LEMMA AdmitsOne ==
    ASSUME TypeOK, NEW r \in Request, NEW route \in Route, Admit(r, route)
    PROVE  \E stops \in SUBSET Execution, drop \in Execution \cup {0}, starts \in Seq(Action) :
               Admitted(r, stops, drop, starts)
<1>0. /\ DevServers \subseteq Execution /\ Stoppable \subseteq Execution
      /\ Rows \subseteq Execution /\ route \in Routes
  BY ExecutionAssumption DEF DevServers, Stoppable, RunningRows, Rows
<1>1. /\ WorkspaceActions \in Seq(Action) /\ <<AgentAction>> \in Seq(Action)
      /\ <<>> \in Seq(Action)
      /\ \A reason \in Reason, n \in Nat : <<ScriptAction(reason, n)>> \in Seq(Action)
  BY ActionTypes DEF TypeOK
<1>2. /\ <<ScriptAction("SetupScript", 1)>> \in Seq(Action)
      /\ <<ScriptAction("CleanupScript", cleanups)>> \in Seq(Action)
      /\ <<ScriptAction("DevServer", 1)>> \in Seq(Action)
      /\ <<ScriptAction("ArchiveScript", 1)>> \in Seq(Action)
  BY <1>1, ActionTypes DEF TypeOK, Reason
<1>3. CASE route = "workspace"
  BY <1>1, <1>3 DEF Admit
<1>4. CASE route = "follow_up"
  BY <1>1, <1>4 DEF Admit
<1>5. CASE route = "setup"
  BY <1>2, <1>5 DEF Admit
<1>6. CASE route = "cleanup"
  BY <1>2, <1>6 DEF Admit
<1>7. CASE route = "dev_server"
  BY <1>0, <1>2, <1>7 DEF Admit
<1>8. CASE route = "archive"
  BY <1>0, <1>2, <1>8 DEF Admit
<1>9. CASE route = "stop"
  BY <1>0, <1>1, <1>9 DEF Admit
<1>10. CASE route = "stop_all"
  BY <1>0, <1>1, <1>10 DEF Admit
<1>11. CASE route = "reset"
  BY <1>0, <1>1, <1>11 DEF Admit
<1>12. CASE route = "review"
  <2>1. <<[reason |-> "CodingAgent", todo |-> <<"agent">>]>> \in Seq(Action)
    BY DEF Action, Reason
  <2> QED BY <1>12, <2>1 DEF Admit
<1>13. CASE route = "archive_script"
  BY <1>2, <1>13 DEF Admit
<1>14. CASE route = "kill_all"
  <2>1. RunningRows \subseteq Execution
    BY DEF RunningRows
  <2> QED BY <1>1, <1>14, <2>1 DEF Admit
<1> QED BY <1>0, <1>3, <1>4, <1>5, <1>6, <1>7, <1>8, <1>9, <1>10, <1>11, <1>12, <1>13, <1>14
        DEF Routes

\* So admitting a request keeps the types.
LEMMA AdmitType ==
    ASSUME TypeOK, NEW r \in Request, NEW route \in Route, Admit(r, route)
    PROVE  TypeOK'
<1>1. req' \in [Request -> Stops] /\ served' \in 0 .. MaxRequest
  BY AdmitsOne, AdmittedType DEF Admit
<1>2. archived' \in BOOLEAN
  BY DEF Admit, TypeOK, RowTypes
<1> QED BY <1>1, <1>2 DEF Admit, TypeOK, RowTypes, MonitorTypes, RequestTypes, scripts, rows,
                          procs, queues, host

\* What a request does.
LEMMA RequestType ==
    ASSUME TypeOK, NEW r \in Request, RequestStep(r)
    PROVE  TypeOK'
<1> USE DEF TypeOK
<1>0. /\ req[r] \in Stops
      /\ \A p \in Execution : Stopped(r, p) => req' \in [Request -> Stops]
      /\ \A l \in {"find", "mark", "kill", "remove"} :
            [stage EXCEPT ![r] = l] \in [Request -> {"find", "mark", "kill", "remove"}]
  <2>1. req[r] \in Stops
    BY DEF RequestTypes
  <2>2. ASSUME NEW p \in Execution, Stopped(r, p) PROVE req' \in [Request -> Stops]
    <3>1. [req[r] EXCEPT !.stops = req[r].stops \ {p}] \in Stops
      BY <2>1 DEF Stops
    <3> QED BY <2>2, <3>1 DEF Stopped, RequestTypes
  <2> QED BY <2>1, <2>2 DEF RequestTypes
<1>1. ASSUME NEW p \in Execution, FindChild(r, p) PROVE TypeOK'
  BY <1>0, <1>1 DEF FindChild, RowTypes, MonitorTypes, RequestTypes, scripts, rows, procs, queues,
                    host
<1>2. ASSUME NEW p \in Execution, MarkKilled(r, p) PROVE TypeOK'
  BY <1>0, <1>2 DEF MarkKilled, RowTypes, MonitorTypes, RequestTypes, scripts, procs, queues,
                    host, Status
<1>3. ASSUME NEW p \in Execution, KillGroup(r, p) PROVE TypeOK'
  BY <1>0, <1>3 DEF KillGroup, Killed, RowTypes, MonitorTypes, RequestTypes, scripts, rows, queues,
                    host
<1>4. ASSUME NEW p \in Execution, RemoveChild(r, p) PROVE TypeOK'
  BY <1>0, <1>4 DEF RemoveChild, RowTypes, MonitorTypes, RequestTypes, scripts, rows, queues,
                    host
<1>5. CASE DropRows(r)
  <2>1. req' \in [Request -> Stops]
    BY <1>0, <1>5 DEF DropRows, RequestTypes, Stops
  <2> QED BY <1>5, <2>1 DEF DropRows, Rows, RowTypes, MonitorTypes, RequestTypes, scripts, rows,
                            procs, queues, host
<1>6. CASE StartNext(r)
  <2>1. req[r].starts \in Seq(Action) /\ req[r].starts # <<>>
    BY <1>0, <1>6 DEF StartNext, Stops
  <2>2. Head(req[r].starts) \in Action /\ Tail(req[r].starts) \in Seq(Action)
    BY <2>1
  <2>3. req' \in [Request -> Stops]
    BY <1>0, <1>6, <2>2 DEF StartNext, RequestTypes, Stops
  <2>4. RowTypes' /\ mon' \in [Execution -> Step]
    <3>1. CASE UNCHANGED <<rows, mon, archived>>
      BY <1>6, <3>1 DEF StartNext, RowTypes, MonitorTypes, rows, scripts
    <3>2. CASE Insert(Head(req[r].starts), r, None, mon)
      BY <1>6, <2>2, <3>2, InsertType DEF StartNext, MonitorTypes
    <3> QED BY <1>6, <3>1, <3>2 DEF StartNext
  <2> QED BY <1>6, <2>3, <2>4 DEF StartNext, MonitorTypes, RequestTypes, procs, queues, host
<1> QED BY <1>1, <1>2, <1>3, <1>4, <1>5, <1>6 DEF RequestStep

\* The queue, crashes and recovery.
LEMMA ServerType ==
    ASSUME TypeOK,
           (\E m \in Message : QueueMessage(m)) \/ CancelQueued \/ Crash \/ Restart \/ Serve
    PROVE  TypeOK'
<1> USE DEF TypeOK
<1>1. ASSUME NEW m \in Message, QueueMessage(m) PROVE TypeOK'
  BY <1>1 DEF QueueMessage, RowTypes, MonitorTypes, RequestTypes, scripts, rows, procs, requests,
              host
<1>2. CASE CancelQueued
  BY <1>2 DEF CancelQueued, RowTypes, MonitorTypes, RequestTypes, scripts, rows, procs, requests,
              host
<1>3. CASE Restart \/ Serve
  BY <1>3 DEF Restart, Serve, RowTypes, MonitorTypes, RequestTypes, scripts, rows, procs, queues,
              requests
<1>4. CASE Crash
  <2>1. Idle \in Stops
    BY DEF Idle, Stops
  <2>2. req' \in [Request -> Stops] /\ stage' \in [Request -> {"find", "mark", "kill", "remove"}]
    BY <1>4, <2>1 DEF Crash
  <2>3. crashes' \in 0 .. MaxCrash
    BY <1>4, ExecutionAssumption DEF Crash, RequestTypes
  <2>4. RequestTypes'
    BY <1>4, <2>2, <2>3 DEF Crash, RequestTypes
  <2>5. child' \in [Execution -> {"none", "alive", "ok", "bad", "gone", "orphan"}]
    BY <1>4 DEF Crash, MonitorTypes
  <2>6. MonitorTypes'
    BY <1>4, <2>5 DEF Crash, MonitorTypes, Step, Status
  <2> QED BY <1>4, <2>4, <2>6 DEF Crash, RowTypes, scripts, rows
<1> QED BY <1>1, <1>2, <1>3, <1>4

\* The types hold at the start ...
LEMMA InitType == Init => TypeOK
<1> SUFFICES ASSUME Init PROVE TypeOK
  OBVIOUS
<1>1. <<setup, cleanups>> \in Config
  <2>1. PICK c \in Config : setup = c[1] /\ cleanups = c[2]
    BY DEF Init
  <2>2. c = <<c[1], c[2]>>
    BY ExecutionAssumption
  <2> QED BY <2>1, <2>2
<1>2. RowTypes
  BY <1>1 DEF Init, RowTypes, Status
<1>3. MonitorTypes
  BY DEF Init, MonitorTypes, Status, Step
<1>4. Idle \in Stops
  BY DEF Idle, Stops
<1>5. served \in 0 .. MaxRequest /\ crashes \in 0 .. MaxCrash
  BY ExecutionAssumption DEF Init
<1>6. RequestTypes
  BY <1>4, <1>5 DEF Init, RequestTypes
<1> QED BY <1>2, <1>3, <1>6 DEF TypeOK

\* ... and after every step.
LEMMA NextType == TypeOK /\ [Next]_vars => TypeOK'
<1> SUFFICES ASSUME TypeOK, [Next]_vars PROVE TypeOK'
  OBVIOUS
<1>1. CASE UNCHANGED vars
  BY <1>1 DEF vars, TypeOK, RowTypes, MonitorTypes, RequestTypes, scripts, rows, procs, queues,
              requests, host
<1>2. CASE Next
  BY <1>2, StartType, MonitorType, RequestType, AdmitType, ServerType DEF Next
<1> QED BY <1>1, <1>2

\* The types hold in every state: no status but those the database knows is ever
\* written, and every chain of actions is one that can be started.
THEOREM Types == Spec => []TypeOK
BY InitType, NextType, PTL DEF Spec

-----------------------------------------------------------------------------
(* Steps that keep the control invariant.                                  *)

\* Steps in which a monitor does not wait for a start.
Busy == Step \ (Starting \cup {"none", "next", "follow_up", "follow_up_late", "done"})

\* What the control invariant speaks of.
control == <<status, act, caller, carried, stranded, child, tracked, mon, req, stage, notified,
             server>>

\* A step that changes none of it keeps the invariant.
LEMMA QuietControl ==
    ASSUME ControlInv, UNCHANGED control
    PROVE  ControlInv'
<1> USE DEF ControlInv, control
<1>1. Unborn' /\ DownIsEmpty' /\ RunningIsWatched'
  BY DEF Unborn, DownIsEmpty, RunningIsWatched, RunningRows
<1>2. StartsAwaited' /\ MonitorsOfChildren' /\ HandlesOfChildren'
  BY DEF StartsAwaited, Awaited, MonitorsOfChildren, HandlesOfChildren
<1>3. StopsInOrder' /\ LiveIsReachable'
  BY DEF StopsInOrder, Stopping, LiveIsReachable
<1>4. NotNotified' /\ FollowedEnds'
  BY DEF NotNotified, FollowedEnds, FollowedBy
<1> QED BY <1>1, <1>2, <1>3, <1>4

\* A child exits or is killed.
Dies(p) ==
    /\ \A q \in Execution \ {p} : child'[q] = child[q]
    /\ child'[p] # child[p] => child[p] = "alive" /\ child'[p] \in {"ok", "bad"}

\* One monitor goes on.  It leaves the first steps only with a final status, and
\* notifies on its way to the end or after a turn without changes.
Advances(p) ==
    /\ mon[p] \in Busy /\ mon'[p] \in Busy
    /\ Dies(p)
    /\ \A q \in Execution \ {p} :
        mon'[q] = mon[q] /\ status'[q] = status[q] /\ notified'[q] = notified[q]
    /\ status'[p] # "none"
    /\ status'[p] = Running => mon'[p] \in {"check", "update"} \/ p \in stranded'
    /\ stranded \subseteq stranded'
    /\ notified'[p] \in {0, 1}
    /\ mon'[p] \notin {"running_agent", "cleanup"} => notified'[p] = 0
    /\ mon'[p] = "running_agent" => notified'[p] = 0 \/ act[p].reason = "CodingAgent"
    /\ mon[p] # "cleanup"
    /\ UNCHANGED <<act, caller, carried, tracked, req, stage, server>>

\* A monitor that goes on keeps the invariant.
LEMMA AdvanceControl ==
    ASSUME TypeOK, TypeOK', ControlInv, NEW p \in Execution, Advances(p)
    PROVE  ControlInv'
<1> USE DEF ControlInv, Advances, Dies
<1>0. /\ mon[p] \in Busy /\ mon'[p] \in Busy
      /\ \A q \in Execution \ {p} : mon'[q] = mon[q]
      /\ \A q \in Execution : /\ child'[q] = "none" <=> child[q] = "none"
                              /\ child'[q] = "alive" => child[q] = "alive"
  BY DEF TypeOK, MonitorTypes
<1>1. Unborn'
  BY <1>0 DEF Unborn, Busy
<1>2. DownIsEmpty'
  BY <1>0 DEF DownIsEmpty, Busy
<1>3. StartsAwaited'
  BY <1>0 DEF StartsAwaited, Awaited, Busy
<1>4. RunningIsWatched'
  BY <1>0 DEF RunningIsWatched, RunningRows, Busy
<1>5. MonitorsOfChildren' /\ HandlesOfChildren'
  BY <1>0 DEF MonitorsOfChildren, HandlesOfChildren, Busy, TypeOK, MonitorTypes
<1>6. StopsInOrder'
  BY <1>0 DEF StopsInOrder, Stopping
<1>7. LiveIsReachable'
  BY <1>0 DEF LiveIsReachable, Busy, Starting
<1>8. NotNotified'
  BY <1>0 DEF NotNotified, Busy
<1>9. FollowedEnds'
  <2>1. \A q, o \in Execution : FollowedBy(q, o)' => FollowedBy(q, o) /\ q # p
    BY <1>0 DEF FollowedBy, FollowedEnds, Busy
  <2>2. \A o \in Execution : mon[o] \in Starting => mon'[o] = mon[o]
    BY <1>0 DEF Busy
  <2> QED BY <1>0, <2>1, <2>2 DEF FollowedEnds
<1> QED BY <1>1, <1>2, <1>3, <1>4, <1>5, <1>6, <1>7, <1>8, <1>9

\* The monitor's steps that start nothing.
LEMMA MonitorAdvances ==
    ASSUME TypeOK, TypeOK', ControlInv, NEW p \in Execution,
           \/ OsExit(p) \/ CheckStopped(p) \/ UpdateCompletion(p) \/ LoadContext(p)
           \/ Finalize(p) \/ CheckRunningAgent(p) \/ TakeStuck(p)
           \/ \E r \in {"ok", "fail"}, killed \in BOOLEAN : ExitSignal(p, r, killed)
    PROVE  Advances(p)
<1> USE DEF Advances, Dies, Busy, Step, Starting, TypeOK, MonitorTypes
<1>0. /\ mon[p] # "none" => status[p] # "none" /\ server = "up"
      /\ server = "up" /\ mon[p] \notin Starting \cup {"wait", "check", "update"} =>
            status[p] # Running \/ p \in stranded
      /\ mon[p] \notin {"running_agent", "cleanup", "done", "none"} => notified[p] = 0
      /\ mon[p] = "running_agent" => notified[p] = 0 \/ act[p].reason = "CodingAgent"
      /\ notified[p] \in {0, 1}
  BY DEF ControlInv, Unborn, DownIsEmpty, RunningIsWatched, RunningRows, NotNotified
<1>1. CASE OsExit(p)
  BY <1>0, <1>1 DEF OsExit, rows, procs, requests, host
<1>2. CASE CheckStopped(p)
  <2>1. /\ mon'[p] = IF status[p] \in {"Killed", "Completed"} THEN "load" ELSE "update"
        /\ \A q \in Execution \ {p} : mon'[q] = mon[q]
    BY <1>2 DEF CheckStopped
  <2>2. Running \notin {"Killed", "Completed"}
    BY DEF Running
  <2> QED BY <1>0, <1>2, <2>1, <2>2 DEF CheckStopped, rows, procs, requests, host
<1>3. CASE UpdateCompletion(p)
  <2>1. /\ \/ status'[p] \in {"Completed", "Failed"} /\ stranded' = stranded
           \/ status' = status /\ stranded' = stranded \cup {p}
        /\ \A q \in Execution \ {p} : status'[q] = status[q]
        /\ UNCHANGED <<act, caller, carried>>
    BY <1>3, ErrorType DEF UpdateCompletion, RowTypes
  <2>2. Running \notin {"Completed", "Failed"}
    BY DEF Running
  <2> QED BY <1>0, <1>3, <2>1, <2>2 DEF UpdateCompletion, procs, requests, host
<1>4. CASE LoadContext(p)
  BY <1>0, <1>4 DEF LoadContext, rows, procs, requests, host
<1>5. CASE Finalize(p)
  BY <1>0, <1>5 DEF Finalize, Take, Notify, rows, procs, requests, host
<1>6. CASE CheckRunningAgent(p)
  BY <1>0, <1>6 DEF CheckRunningAgent, rows, procs, requests, host
<1>7. CASE TakeStuck(p)
  BY <1>0, <1>7 DEF TakeStuck, Take, rows, procs, requests, host
<1>8. CASE \E r \in {"ok", "fail"}, killed \in BOOLEAN : ExitSignal(p, r, killed)
  BY <1>0, <1>8 DEF ExitSignal, Killed, rows, procs, requests, host
<1> QED BY <1>1, <1>2, <1>3, <1>4, <1>5, <1>6, <1>7, <1>8

\* A row n is inserted, for a monitor p that waits from now on, or for a request.
Inserts(n) ==
    /\ status[n] = "none" /\ status'[n] = Running /\ mon'[n] = "inserted"
    /\ server = "up"
    /\ \A q \in Execution \ {n} :
        /\ status'[q] = status[q] /\ caller'[q] = caller[q] /\ carried'[q] = carried[q]
        /\ act'[q] = act[q]
        /\ mon'[q] = mon[q] \/ (q = caller'[n] /\ mon[q] \in Busy \ {"wait", "check", "update"})
    /\ caller'[n] \in Execution =>
        /\ mon[caller'[n]] \in {"commit", "start", "start_late"}
        /\ mon'[caller'[n]] \in {"next", "follow_up", "follow_up_late"}
        /\ carried'[n] # None => mon'[caller'[n]] # "next"
    /\ \A r \in Request : req'[r].stops = req[r].stops
    /\ UNCHANGED <<child, tracked, stranded, stage, notified, server>>

\* An insertion keeps the invariant.
LEMMA InsertControl ==
    ASSUME TypeOK, TypeOK', ControlInv, NEW n \in Execution, Inserts(n)
    PROVE  ControlInv'
<1> USE DEF ControlInv, Inserts
<1>0. /\ mon[n] = "none" /\ child[n] = "none" /\ n \notin tracked /\ notified[n] = 0
      /\ caller'[n] # n
  BY DEF Unborn
<1>1. \A q \in Execution : mon[q] \in Starting => mon'[q] = mon[q]
  BY <1>0 DEF Busy, Starting
<1>2. \A q \in Execution : mon'[q] \in Starting => q = n \/ mon'[q] = mon[q]
  BY DEF Starting
<1>3. Unborn'
  BY <1>0 DEF Unborn, Running, Busy
<1>4. DownIsEmpty'
  BY DEF DownIsEmpty
<1>5. StartsAwaited'
  <2> SUFFICES ASSUME NEW q \in Execution, mon'[q] \in Starting PROVE Awaited(q)'
    BY DEF StartsAwaited
  <2>1. CASE q = n
    <3>1. ASSUME NEW o \in Execution, o # n, mon[o] \in Starting, caller[o] = caller'[n],
                 caller'[n] \in Execution
          PROVE  FALSE
      BY <3>1 DEF StartsAwaited, Awaited
    <3> QED BY <1>0, <1>2, <2>1, <3>1 DEF Awaited
  <2>2. CASE q # n
    <3>1. mon[q] \in Starting /\ mon'[q] = mon[q] /\ Awaited(q) /\ caller'[q] = caller[q] /\ carried'[q] = carried[q]
      BY <1>2, <2>2 DEF StartsAwaited
    <3>2. ASSUME caller[q] \in Execution
          PROVE  caller[q] # n /\ caller[q] # caller'[n] /\ mon'[caller[q]] = mon[caller[q]]
      BY <1>0, <3>1, <3>2 DEF Awaited
    <3>3. \A o \in Execution : mon'[o] \in Starting /\ caller[q] \in Execution
                               /\ caller'[o] = caller'[q] => o = q
      BY <1>2, <3>1, <3>2 DEF Awaited
    <3> QED BY <3>1, <3>2, <3>3 DEF Awaited
  <2> QED BY <2>1, <2>2
<1>6. RunningIsWatched'
  BY <1>0, <1>1 DEF RunningIsWatched, RunningRows, Starting, Busy
<1>7. MonitorsOfChildren' /\ HandlesOfChildren'
  BY <1>0 DEF MonitorsOfChildren, HandlesOfChildren, Busy, Starting
<1>8. StopsInOrder'
  BY DEF StopsInOrder, Stopping
<1>9. LiveIsReachable'
  <2>1. \A q \in Execution \ {n} : mon'[q] # mon[q] =>
            mon'[q] \in {"next", "follow_up", "follow_up_late"}
    OBVIOUS
  <2> QED BY <1>0, <2>1 DEF LiveIsReachable
<1>10. NotNotified'
  <2>1. \A q \in Execution \ {n} : mon'[q] # mon[q] =>
            /\ mon[q] \in {"commit", "start", "start_late"}
            /\ mon'[q] \in {"next", "follow_up", "follow_up_late"}
    OBVIOUS
  <2> QED BY <1>0, <2>1 DEF NotNotified
<1>11. FollowedEnds'
  <2>1. \A q, o \in Execution : FollowedBy(q, o)' => FollowedBy(q, o)
    BY <1>0 DEF FollowedBy
  <2>2. \A q \in Execution : mon[q] \in {"cleanup", "done", "none", "follow_up", "follow_up_late"}
                              /\ status[q] # "none" => mon'[q] = mon[q]
    OBVIOUS
  <2> QED BY <1>0, <1>1, <2>1, <2>2 DEF FollowedEnds
<1> QED BY <1>3, <1>4, <1>5, <1>6, <1>7, <1>8, <1>9, <1>10, <1>11

\* Committing: the monitor goes on, or waits for the start of a row that it has
\* inserted.
LEMMA CommitControl ==
    ASSUME TypeOK, TypeOK', ControlInv, NEW p \in Execution, NEW changed \in BOOLEAN,
           Commit(p, changed)
    PROVE  ControlInv'
<1>0. /\ mon[p] = "commit" /\ status[p] # "none" /\ server = "up"
      /\ (status[p] # Running \/ p \in stranded) /\ notified[p] = 0
  BY DEF Commit, CommitTo, ControlInv, Unborn, DownIsEmpty, RunningIsWatched, RunningRows,
         NotNotified, Starting
<1>1. CASE Insert(NextAction(p), p, None, [mon EXCEPT ![p] = "next"]) /\ UNCHANGED notified
  <2>1. PICK n \in Execution \ Rows :
        /\ status' = [status EXCEPT ![n] = Running]
        /\ act' = [act EXCEPT ![n] = NextAction(p)]
        /\ caller' = [caller EXCEPT ![n] = p]
        /\ carried' = [carried EXCEPT ![n] = None]
        /\ mon' = [[mon EXCEPT ![p] = "next"] EXCEPT ![n] = "inserted"]
        /\ UNCHANGED stranded
    BY <1>1 DEF Insert
  <2>2. n # p /\ status[n] = "none"
    BY <1>0 DEF Rows
  <2>3. Inserts(n)
    BY <1>0, <1>1, <2>1, <2>2 DEF Inserts, Busy, Step, Starting, TypeOK, RowTypes, MonitorTypes, Commit,
                                  CommitTo, procs, requests, host
  <2> QED BY <2>3, InsertControl
<1>2. CASE mon' = [mon EXCEPT ![p] = "finalize"] /\ UNCHANGED <<rows, archived, notified>>
  <2>1. Advances(p)
    BY <1>0, <1>2 DEF Advances, Dies, Busy, Step, Starting, TypeOK, MonitorTypes, Commit, CommitTo,
                      rows, procs, requests, host
  <2> QED BY <2>1, AdvanceControl
<1>3. CASE /\ act[p].reason = "CodingAgent" /\ mon' = [mon EXCEPT ![p] = "running_agent"]
           /\ Notify(p) /\ UNCHANGED <<rows, archived>>
  <2>1. Advances(p)
    BY <1>0, <1>3 DEF Advances, Dies, Busy, Step, Starting, TypeOK, MonitorTypes, Commit, CommitTo, Notify,
                      rows, procs, requests, host
  <2> QED BY <2>1, AdvanceControl
<1> QED BY <1>1, <1>2, <1>3 DEF Commit, CommitTo

\* The same for the queued message.
LEMMA StartQueuedControl ==
    ASSUME TypeOK, TypeOK', ControlInv, NEW p \in Execution, StartQueued(p)
    PROVE  ControlInv'
<1>0. /\ mon[p] \in {"start", "start_late"} /\ status[p] # "none" /\ server = "up"
      /\ (status[p] # Running \/ p \in stranded) /\ notified[p] = 0
  BY DEF StartQueued, ControlInv, Unborn, DownIsEmpty, RunningIsWatched, RunningRows, NotNotified,
         Starting
<1>1. ASSUME NEW l \in {"follow_up", "follow_up_late"}, UNCHANGED notified,
             Insert(AgentAction, p, held[p], [mon EXCEPT ![p] = l])
      PROVE  ControlInv'
  <2>1. PICK n \in Execution \ Rows :
        /\ status' = [status EXCEPT ![n] = Running]
        /\ act' = [act EXCEPT ![n] = AgentAction]
        /\ caller' = [caller EXCEPT ![n] = p]
        /\ carried' = [carried EXCEPT ![n] = held[p]]
        /\ mon' = [[mon EXCEPT ![p] = l] EXCEPT ![n] = "inserted"]
        /\ UNCHANGED stranded
    BY <1>1 DEF Insert
  <2>2. n # p /\ status[n] = "none"
    BY <1>0 DEF Rows
  <2>3. Inserts(n)
    BY <1>0, <1>1, <2>1, <2>2 DEF Inserts, Busy, Step, Starting, TypeOK, RowTypes, MonitorTypes, StartQueued,
                                  procs, requests, host
  <2> QED BY <2>3, InsertControl
<1>2. CASE /\ mon' = [mon EXCEPT ![p] = "cleanup"] /\ UNCHANGED <<rows, archived>>
           /\ Notify(p) \/ UNCHANGED notified
  <2>1. Advances(p)
    BY <1>0, <1>2 DEF Advances, Dies, Busy, Step, Starting, TypeOK, MonitorTypes, StartQueued, Notify,
                      rows, procs, requests, host
  <2> QED BY <2>1, AdvanceControl
<1> QED BY <1>1, <1>2 DEF StartQueued

\* A start goes on: its child is spawned, then its handle stored, or it is failing.
LEMMA ProgressControl ==
    ASSUME TypeOK, TypeOK', ControlInv, NEW p \in Execution,
           \/ Spawn(p) \/ Track(p)
           \/ Prepare(p) /\ mon' = [mon EXCEPT ![p] = "spawning"] /\ UNCHANGED <<rows, notified>>
    PROVE  ControlInv'
<1> USE DEF ControlInv
<1>0. /\ mon[p] \in Starting /\ Awaited(p) /\ status[p] # "none" /\ server = "up"
      /\ UNCHANGED <<status, caller, carried, act, stranded, req, stage, notified, server>>
  BY DEF Spawn, Track, Prepare, Starting, StartsAwaited, Unborn, DownIsEmpty, rows, requests, host
<1>1. /\ \A q \in Execution \ {p} : /\ mon'[q] = mon[q] /\ child'[q] = child[q]
                                    /\ q \in tracked' <=> q \in tracked
      /\ mon'[p] \in Starting
      /\ mon'[p] \in {"spawned", "tracked"} <=> child'[p] # "none"
      /\ p \in tracked' <=> mon'[p] = "tracked"
      /\ child[p] # "none" => child'[p] = child[p]
      /\ child'[p] = "alive" => mon'[p] \in {"spawned", "tracked"}
  BY <1>0 DEF Spawn, Track, Prepare, Awaited, Starting, TypeOK, MonitorTypes, procs
<1>2. Unborn' /\ DownIsEmpty' /\ RunningIsWatched'
  BY <1>0, <1>1 DEF Unborn, DownIsEmpty, RunningIsWatched, RunningRows
<1>3. StartsAwaited'
  <2> SUFFICES ASSUME NEW q \in Execution, mon'[q] \in Starting PROVE Awaited(q)'
    BY DEF StartsAwaited
  <2>1. mon[q] \in Starting /\ Awaited(q)
    BY <1>0, <1>1 DEF StartsAwaited
  <2>2. ASSUME caller[q] \in Execution PROVE caller[q] # p /\ mon'[caller[q]] = mon[caller[q]]
    BY <1>0, <1>1, <2>1, <2>2 DEF Awaited, Starting
  <2>3. \A o \in Execution : mon'[o] \in Starting => mon[o] \in Starting
    BY <1>0, <1>1
  <2> QED BY <1>0, <1>1, <2>1, <2>2, <2>3 DEF Awaited
<1>4. MonitorsOfChildren'
  BY <1>0, <1>1 DEF MonitorsOfChildren
<1>5. HandlesOfChildren'
  <2>1. ASSUME NEW q \in tracked' PROVE child'[q] # "none"
    BY <1>1, <2>1 DEF HandlesOfChildren, TypeOK, MonitorTypes
  <2> QED BY <2>1 DEF HandlesOfChildren
<1>6. StopsInOrder'
  <2> SUFFICES ASSUME NEW r \in Request
               PROVE  (/\ req[r].stops = {} => stage[r] = "find"
                       /\ \A q \in Execution : Stopping(r, q) =>
                           /\ stage[r] # "find" => child[q] # "none"
                           /\ stage[r] = "remove" => child[q] # "alive")'
    BY DEF StopsInOrder
  <2>1. req'[r] = req[r] /\ stage'[r] = stage[r]
    BY <1>0
  <2>2. \A q \in Execution : child[q] # "none" => child'[q] = child[q]
    BY <1>1
  <2> QED BY <2>1, <2>2 DEF StopsInOrder, Stopping
<1>7. LiveIsReachable'
  <2> SUFFICES ASSUME NEW q \in Execution, child'[q] = "alive"
               PROVE  (\/ q \in tracked /\ mon[q] \notin {"none", "done"}
                       \/ q \notin tracked /\ mon[q] = "spawned")'
    BY DEF LiveIsReachable
  <2>1. CASE q = p
    BY <1>1, <2>1
  <2>2. CASE q # p
    BY <1>1, <2>2 DEF LiveIsReachable
  <2> QED BY <2>1, <2>2
<1>8. NotNotified'
  BY <1>0, <1>1 DEF NotNotified, Starting
<1>9. FollowedEnds'
  <2> SUFFICES ASSUME NEW q \in Execution, NEW o \in Execution, FollowedBy(q, o)'
               PROVE  (/\ notified[q] = 0 /\ status[q] # "none"
                       /\ \/ mon[q] \in {"cleanup", "done", "none"}
                          \/ mon[q] \in {"follow_up", "follow_up_late"} /\ mon[o] \in Starting)'
    BY DEF FollowedEnds
  <2>1. CASE FollowedBy(q, o)
    <3>1. q # p
      BY <1>0, <2>1 DEF FollowedEnds, Starting
    <3> QED BY <1>0, <1>1, <2>1, <3>1 DEF FollowedEnds
  <2>2. CASE ~FollowedBy(q, o)
    <3>1. o = p /\ caller[p] = q /\ carried[p] # None
      BY <1>0, <1>1, <2>2 DEF FollowedBy
    <3>2. mon[q] \in {"follow_up", "follow_up_late"} /\ q # p
      BY <1>0, <3>1 DEF Awaited, Starting
    <3>3. notified[q] = 0 /\ status[q] # "none"
      BY <3>2 DEF NotNotified, Unborn
    <3> QED BY <1>0, <1>1, <3>1, <3>2, <3>3
  <2> QED BY <2>1, <2>2
<1> QED BY <1>2, <1>3, <1>4, <1>5, <1>6, <1>7, <1>8, <1>9

\* A start returns to the one who awaits it: the monitor is there, or it was an error
\* and the row failed or is stranded.
LEMMA ReturnControl ==
    ASSUME TypeOK, TypeOK', ControlInv, NEW p \in Execution,
           \/ Watch(p) \/ SpawnFails(p)
           \/ Prepare(p) /\ DatabaseError(p) /\ StartError(p)
    PROVE  ControlInv'
<1> USE DEF ControlInv
<1>0. /\ mon[p] \in {"inserted", "failing", "tracked"} /\ Awaited(p)
      /\ status[p] # "none" /\ server = "up" /\ caller[p] # p
      /\ UNCHANGED <<caller, carried, act, child, tracked, req, stage, server>>
  BY DEF Watch, SpawnFails, Prepare, DatabaseError, Starting, StartsAwaited, Awaited, Unborn,
         DownIsEmpty, rows, procs, requests, host
<1>1. /\ \A q \in Execution : q # p /\ q # caller[p] => mon'[q] = mon[q]
      /\ caller[p] \in Execution =>
            mon'[caller[p]] = IF mon[caller[p]] = "next" THEN "finalize" ELSE "cleanup"
      /\ \/ mon[p] = "tracked" /\ mon'[p] = "wait" /\ UNCHANGED <<status, notified, stranded>>
         \/ /\ mon[p] # "tracked" /\ mon'[p] = "none"
            /\ \/ status' = [status EXCEPT ![p] = "Failed"] /\ stranded' = stranded
               \/ status' = status /\ stranded' = stranded \cup {p}
  BY <1>0 DEF Watch, SpawnFails, Prepare, DatabaseError, StartError, Returned, rows
<1>2. /\ \A q \in Execution : notified'[q] # notified[q] =>
            /\ q = caller[p] /\ mon[q] = "follow_up" /\ notified'[q] = notified[q] + 1
            /\ mon'[p] = "none"
      /\ \A q \in Execution : notified[q] \in Nat
  BY <1>0, <1>1 DEF Watch, SpawnFails, Prepare, StartError, Notify, TypeOK, MonitorTypes
<1>3. /\ \A q \in Execution : q # p => status'[q] = status[q]
      /\ status'[p] # "none"
      /\ status'[p] = Running => mon'[p] = "wait" \/ p \in stranded'
      /\ stranded \subseteq stranded'
  BY <1>0, <1>1 DEF TypeOK, RowTypes, Running
<1>4. /\ caller[p] \in Execution => mon[caller[p]] \in {"next", "follow_up", "follow_up_late"}
      /\ mon'[p] \in {"wait", "none"} /\ (mon'[p] = "wait" <=> child[p] # "none")
      /\ p \in tracked => mon'[p] = "wait"
  BY <1>0, <1>1 DEF Awaited
<1>5. \A q \in Execution : mon'[q] \in Starting => q # p /\ q # caller[p] /\ mon[q] = mon'[q]
  BY <1>1, <1>4 DEF Starting
<1>6. Unborn'
  BY <1>0, <1>1, <1>2, <1>3, <1>4 DEF Unborn
<1>7. DownIsEmpty'
  BY <1>0 DEF DownIsEmpty
<1>8. StartsAwaited'
  <2> SUFFICES ASSUME NEW q \in Execution, mon'[q] \in Starting PROVE Awaited(q)'
    BY DEF StartsAwaited
  <2>1. q # p /\ q # caller[p] /\ mon[q] = mon'[q] /\ Awaited(q) /\ mon[p] \in Starting
    BY <1>0, <1>5 DEF StartsAwaited, Starting
  <2>2. ASSUME caller[q] \in Execution
        PROVE  caller[q] # p /\ caller[q] # caller[p] /\ mon'[caller[q]] = mon[caller[q]]
    BY <1>0, <1>1, <2>1, <2>2 DEF Awaited
  <2> QED BY <1>0, <1>5, <2>1, <2>2 DEF Awaited
<1>9. RunningIsWatched'
  BY <1>0, <1>1, <1>3, <1>4 DEF RunningIsWatched, RunningRows, Starting
<1>10. MonitorsOfChildren' /\ HandlesOfChildren'
  BY <1>0, <1>1, <1>4, <1>5 DEF MonitorsOfChildren, HandlesOfChildren, Starting
<1>11. StopsInOrder'
  BY <1>0 DEF StopsInOrder, Stopping
<1>12. LiveIsReachable'
  <2> SUFFICES ASSUME NEW q \in Execution, child[q] = "alive"
               PROVE  (\/ q \in tracked /\ mon[q] \notin {"none", "done"}
                       \/ q \notin tracked /\ mon[q] = "spawned")'
    BY <1>0 DEF LiveIsReachable
  <2>1. CASE q = p
    BY <1>0, <1>1, <2>1 DEF LiveIsReachable, Awaited
  <2>2. CASE q = caller[p]
    BY <1>0, <1>1, <1>4, <2>2 DEF LiveIsReachable
  <2>3. CASE q # p /\ q # caller[p]
    BY <1>0, <1>1, <2>3 DEF LiveIsReachable
  <2> QED BY <2>1, <2>2, <2>3
<1>13. NotNotified'
  BY <1>0, <1>1, <1>2, <1>4 DEF NotNotified
<1>14. FollowedEnds'
  <2> SUFFICES ASSUME NEW q \in Execution, NEW o \in Execution, FollowedBy(q, o)
               PROVE  (/\ notified[q] = 0 /\ status[q] # "none"
                       /\ \/ mon[q] \in {"cleanup", "done", "none"}
                          \/ mon[q] \in {"follow_up", "follow_up_late"} /\ mon[o] \in Starting)'
    BY <1>0 DEF FollowedEnds, FollowedBy
  <2>1. /\ notified[q] = 0 /\ status[q] # "none"
        /\ \/ mon[q] \in {"cleanup", "done", "none"}
           \/ mon[q] \in {"follow_up", "follow_up_late"} /\ mon[o] \in Starting
    BY DEF FollowedEnds
  <2>2. q # p
    BY <1>0, <2>1
  <2>3. CASE q = caller[p]
    <3>1. mon[o] \in Starting
      BY <1>4, <2>1, <2>3
    <3>2. o = p
      BY <1>0, <2>3, <3>1 DEF Awaited, FollowedBy, Starting
    <3>3. mon[p] = "tracked" /\ notified' = notified
      BY <1>0, <1>1, <3>2 DEF Awaited, FollowedBy
    <3> QED BY <1>1, <1>3, <1>4, <2>1, <2>2, <2>3, <3>3
  <2>4. CASE q # caller[p]
    <3>1. o = p => q = caller[p]
      BY DEF FollowedBy
    <3>2. o = caller[p] => mon[o] \notin Starting
      BY <1>4 DEF Starting
    <3> QED BY <1>1, <1>2, <1>3, <2>1, <2>2, <2>4, <3>1, <3>2
  <2> QED BY <2>3, <2>4
<1> QED BY <1>6, <1>7, <1>8, <1>9, <1>10, <1>11, <1>12, <1>13, <1>14

\* So a start keeps the invariant.
LEMMA StartControl ==
    ASSUME TypeOK, TypeOK', ControlInv, NEW p \in Execution, StartStep(p)
    PROVE  ControlInv'
<1>1. CASE Prepare(p)
  BY <1>1, ProgressControl, ReturnControl DEF Prepare
<1>2. CASE SpawnFails(p) \/ Watch(p)
  BY <1>2, ReturnControl
<1>3. CASE Spawn(p) \/ Track(p)
  BY <1>3, ProgressControl
<1> QED BY <1>1, <1>2, <1>3 DEF StartStep

\* The end of a monitor, and the children.
LEMMA CleanupControl ==
    ASSUME TypeOK, TypeOK', ControlInv, NEW p \in Execution, Cleanup(p)
    PROVE  ControlInv'
<1> USE DEF ControlInv
<1>0. /\ mon[p] = "cleanup" /\ mon'[p] = "done" /\ child'[p] = "gone" /\ child[p] # "none"
      /\ tracked' = tracked \ {p} /\ status[p] # "none" /\ server = "up"
      /\ status[p] # Running \/ p \in stranded
      /\ \A q \in Execution \ {p} : mon'[q] = mon[q] /\ child'[q] = child[q]
      /\ UNCHANGED <<status, act, caller, carried, stranded, req, stage, notified, server>>
  <2>1. /\ mon[p] = "cleanup" /\ status[p] # "none" /\ server = "up" /\ child[p] # "none"
        /\ status[p] # Running \/ p \in stranded
    BY DEF Cleanup, MonitorsOfChildren, Unborn, DownIsEmpty, RunningIsWatched, RunningRows, Starting
  <2> QED BY <2>1 DEF Cleanup, TypeOK, MonitorTypes, rows, requests, host
<1>1. Unborn' /\ DownIsEmpty' /\ RunningIsWatched'
  BY <1>0 DEF Unborn, DownIsEmpty, RunningIsWatched, RunningRows
<1>2. StartsAwaited'
  BY <1>0 DEF StartsAwaited, Awaited, Starting
<1>3. MonitorsOfChildren' /\ HandlesOfChildren' /\ LiveIsReachable'
  BY <1>0 DEF MonitorsOfChildren, HandlesOfChildren, LiveIsReachable, Starting, TypeOK, MonitorTypes
<1>4. StopsInOrder'
  BY <1>0 DEF StopsInOrder, Stopping
<1>5. NotNotified' /\ FollowedEnds'
  BY <1>0 DEF NotNotified, FollowedEnds, FollowedBy, Starting
<1> QED BY <1>1, <1>2, <1>3, <1>4, <1>5

\* Children die, and do nothing else.
OnlyDeaths ==
    \A q \in Execution : /\ child'[q] = "none" <=> child[q] = "none"
                         /\ child'[q] = "alive" => child[q] = "alive"
\* When nothing else changes, none of them gets lost.
LEMMA DiesControl ==
    ASSUME TypeOK, TypeOK', ControlInv, OnlyDeaths,
           UNCHANGED <<status, act, caller, carried, stranded, tracked, mon, notified, server>>,
           StopsInOrder', DownIsEmpty'
    PROVE  ControlInv'
<1> USE DEF ControlInv, OnlyDeaths
<1>1. Unborn' /\ RunningIsWatched'
  BY DEF Unborn, RunningIsWatched, RunningRows
<1>2. StartsAwaited'
  BY DEF StartsAwaited, Awaited
<1>3. MonitorsOfChildren' /\ HandlesOfChildren' /\ LiveIsReachable'
  BY DEF MonitorsOfChildren, HandlesOfChildren, LiveIsReachable, TypeOK, MonitorTypes
<1>4. NotNotified' /\ FollowedEnds'
  BY DEF NotNotified, FollowedEnds, FollowedBy
<1> QED BY <1>1, <1>2, <1>3, <1>4

\* A child exits by itself.
LEMMA ExitControl ==
    ASSUME TypeOK, TypeOK', ControlInv, NEW p \in Execution, NEW how \in {"ok", "bad"},
           ChildExits(p, how)
    PROVE  ControlInv'
<1>1. Dies(p) /\ child'[p] = how /\ child[p] = "alive"
      /\ \A q \in Execution \ {p} : child'[q] = child[q]
  BY DEF ChildExits, Dies, TypeOK, MonitorTypes
<1>2. StopsInOrder' /\ DownIsEmpty'
  BY <1>1 DEF ChildExits, ControlInv, StopsInOrder, Stopping, DownIsEmpty, requests, host
<1>3. OnlyDeaths
  BY <1>1 DEF OnlyDeaths
<1> QED BY <1>2, <1>3, DiesControl DEF ChildExits, rows, host

\* Requests change rows, children and handles only step by step, in the order of
\* stop_execution: mark, kill, remove.
LEMMA StopControl ==
    ASSUME TypeOK, TypeOK', ControlInv, NEW r \in Request, NEW p \in Execution,
           FindChild(r, p) \/ MarkKilled(r, p) \/ KillGroup(r, p) \/ RemoveChild(r, p)
    PROVE  ControlInv'
<1> USE DEF ControlInv
<1>0. /\ Stopping(r, p) /\ req[r] # Idle /\ server = "up"
      /\ \A q \in Execution : Stopping(r, q) => q = p
  <2>1. Stopping(r, p)
    BY DEF FindChild, MarkKilled, KillGroup, RemoveChild
  <2>2. req[r] # Idle
    BY <2>1 DEF Stopping, Idle
  <2>3. \A q \in Execution : Stopping(r, q) => q = p
    BY <2>1, ExecutionAssumption DEF Stopping, Execution
  <2> QED BY <2>1, <2>2, <2>3 DEF DownIsEmpty
<1>1. DownIsEmpty'
  BY <1>0 DEF FindChild, MarkKilled, KillGroup, RemoveChild, DownIsEmpty, host
<1>2. Stopped(r, p) => \A o \in Request : o # r => req'[o] = req[o]
  BY DEF Stopped, TypeOK, RequestTypes
<1>3. \A o \in Request : o # r => stage'[o] = stage[o] /\ req'[o] = req[o]
  BY <1>2 DEF FindChild, MarkKilled, KillGroup, RemoveChild, TypeOK, RequestTypes
<1>4. CASE FindChild(r, p)
  <2>1. UNCHANGED <<status, act, caller, carried, stranded, child, tracked, mon, notified, server>>
    BY <1>4 DEF FindChild, rows, procs, host
  <2>2. StopsInOrder'
    <3>1. CASE p \in tracked
      <4>1. child[p] # "none" /\ stage'[r] = "mark" /\ UNCHANGED req
        BY <1>4, <3>1 DEF FindChild, HandlesOfChildren, TypeOK, RequestTypes
      <4>2. req[r].stops # {}
        BY <1>0 DEF Stopping
      <4> QED BY <1>0, <1>3, <2>1, <4>1, <4>2 DEF StopsInOrder, Stopping
    <3>2. CASE p \notin tracked
      <4>1. stage'[r] = "find"
        BY <1>4, <3>2 DEF FindChild
      <4> QED BY <1>3, <2>1, <4>1 DEF StopsInOrder, Stopping
    <3> QED BY <3>1, <3>2
  <2> QED BY <1>1, <2>1, <2>2, DiesControl DEF OnlyDeaths
<1>5. CASE MarkKilled(r, p)
  <2>1. UNCHANGED <<act, caller, carried, stranded, child, tracked, mon, req, notified, server>>
    BY <1>5 DEF MarkKilled, procs, host
  <2>2. /\ status'[p] = "Killed" /\ \A q \in Execution \ {p} : status'[q] = status[q]
        /\ stage[r] = "mark" /\ stage'[r] = "kill"
    BY <1>5 DEF MarkKilled, TypeOK, RowTypes, RequestTypes
  <2>3. StopsInOrder'
    BY <1>0, <1>3, <2>1, <2>2 DEF StopsInOrder, Stopping
  <2>4. Unborn' /\ RunningIsWatched'
    BY <2>1, <2>2 DEF Unborn, RunningIsWatched, RunningRows, Running
  <2>5. StartsAwaited' /\ MonitorsOfChildren' /\ HandlesOfChildren' /\ LiveIsReachable'
    BY <2>1 DEF StartsAwaited, Awaited, MonitorsOfChildren, HandlesOfChildren, LiveIsReachable
  <2>6. NotNotified' /\ FollowedEnds'
    BY <2>1, <2>2 DEF NotNotified, FollowedEnds, FollowedBy
  <2> QED BY <1>1, <2>3, <2>4, <2>5, <2>6
<1>6. CASE KillGroup(r, p)
  <2>1. UNCHANGED <<status, act, caller, carried, stranded, tracked, mon, notified, server>>
    BY <1>6 DEF KillGroup, rows, host
  <2>2. /\ Dies(p) /\ stage[r] = "kill"
        /\ \/ child'[p] # "alive" /\ stage'[r] = "remove" /\ UNCHANGED req
           \/ stage'[r] = "find" /\ UNCHANGED child
    BY <1>6 DEF KillGroup, Killed, Dies, TypeOK, MonitorTypes, RequestTypes
  <2>3. StopsInOrder'
    <3>1. CASE child'[p] # "alive" /\ stage'[r] = "remove" /\ UNCHANGED req
      <4>1. child'[p] # "none"
        BY <1>0, <2>2 DEF StopsInOrder, Dies
      <4>2. req[r].stops # {}
        BY <1>0 DEF Stopping
      <4> QED BY <1>0, <1>3, <2>2, <3>1, <4>1, <4>2 DEF StopsInOrder, Stopping, Dies
    <3>2. CASE stage'[r] = "find" /\ UNCHANGED child
      BY <1>3, <3>2 DEF StopsInOrder, Stopping
    <3> QED BY <2>2, <3>1, <3>2
  <2>4. OnlyDeaths
    BY <2>2 DEF OnlyDeaths, Dies
  <2> QED BY <1>1, <2>1, <2>3, <2>4, DiesControl
<1>7. CASE RemoveChild(r, p)
  <2>1. /\ UNCHANGED <<status, act, caller, carried, stranded, child, mon, notified, server>>
        /\ tracked' = tracked \ {p} /\ stage[r] = "remove" /\ stage'[r] = "find"
    BY <1>7 DEF RemoveChild, rows, host, TypeOK, RequestTypes
  <2>2. child[p] # "alive"
    BY <1>0, <2>1 DEF StopsInOrder
  <2>3. StopsInOrder'
    BY <1>3, <2>1 DEF StopsInOrder, Stopping
  <2>4. Unborn' /\ RunningIsWatched'
    BY <2>1 DEF Unborn, RunningIsWatched, RunningRows
  <2>5. StartsAwaited' /\ MonitorsOfChildren' /\ HandlesOfChildren' /\ LiveIsReachable'
    BY <2>1, <2>2 DEF StartsAwaited, Awaited, MonitorsOfChildren, HandlesOfChildren,
                      LiveIsReachable
  <2>6. NotNotified' /\ FollowedEnds'
    BY <2>1 DEF NotNotified, FollowedEnds, FollowedBy
  <2> QED BY <1>1, <2>3, <2>4, <2>5, <2>6
<1> QED BY <1>4, <1>5, <1>6, <1>7

\* What remains of a request: admission, the rows it drops, the starts.
LEMMA RequestControl ==
    ASSUME TypeOK, TypeOK', ControlInv, NEW r \in Request,
           \/ DropRows(r) \/ StartNext(r)
           \/ \E route \in Route : Admit(r, route)
    PROVE  ControlInv'
<1> USE DEF ControlInv
<1>1. CASE \E route \in Route : Admit(r, route)
  <2>1. PICK route \in Route : Admit(r, route)
    BY <1>1
  <2>2. /\ UNCHANGED <<status, act, caller, carried, stranded, child, tracked, mon, notified, server, stage>>
        /\ server = "up" /\ req[r] = Idle
    BY <2>1 DEF Admit, rows, procs, host
  <2>3. \E stops, drop, starts : Admitted(r, stops, drop, starts)
    BY <2>1, AdmitsOne
  <2>4. \A o \in Request : o # r => req'[o] = req[o]
    BY <2>3 DEF Admitted, TypeOK, RequestTypes
  <2>5. stage[r] = "find"
    BY <2>2 DEF StopsInOrder, Idle
  <2>6. StopsInOrder' /\ DownIsEmpty'
    BY <2>2, <2>4, <2>5 DEF StopsInOrder, Stopping, DownIsEmpty
  <2> QED BY <2>2, <2>6, DiesControl DEF OnlyDeaths
<1>2. CASE DropRows(r)
  <2>1. UNCHANGED <<status, act, caller, carried, stranded, child, tracked, mon, notified, server, stage>>
    BY <1>2 DEF DropRows, rows, procs, host
  <2>2. \A o \in Request : req'[o].stops = req[o].stops
    BY <1>2 DEF DropRows, TypeOK, RequestTypes, Stops
  <2>3. server = "up"
    BY <1>2 DEF DropRows, DownIsEmpty, Idle
  <2>4. StopsInOrder' /\ DownIsEmpty'
    BY <2>1, <2>2, <2>3 DEF StopsInOrder, Stopping, DownIsEmpty
  <2> QED BY <2>1, <2>4, DiesControl DEF OnlyDeaths
<1>3. CASE StartNext(r)
  <2>1. UNCHANGED <<child, tracked, notified, server, stage>>
    BY <1>3 DEF StartNext, procs, host
  <2>2. \A o \in Request : req'[o].stops = req[o].stops
    BY <1>3 DEF StartNext, TypeOK, RequestTypes, Stops
  <2>3. server = "up"
    BY <1>3 DEF StartNext, DownIsEmpty, Idle
  <2>4. StopsInOrder' /\ DownIsEmpty'
    BY <2>1, <2>2, <2>3 DEF StopsInOrder, Stopping, DownIsEmpty
  <2>5. CASE UNCHANGED <<rows, mon, archived>>
    <3>1. UNCHANGED <<status, act, caller, carried, stranded, child, tracked, mon, notified, server>>
      BY <2>1, <2>5 DEF rows
    <3> QED BY <2>4, <3>1, DiesControl DEF OnlyDeaths
  <2>6. CASE Insert(Head(req[r].starts), r, None, mon)
    <3>1. PICK n \in Execution \ Rows :
          /\ status' = [status EXCEPT ![n] = Running]
          /\ act' = [act EXCEPT ![n] = Head(req[r].starts)]
          /\ caller' = [caller EXCEPT ![n] = r]
          /\ carried' = [carried EXCEPT ![n] = None]
          /\ mon' = [mon EXCEPT ![n] = "inserted"]
          /\ UNCHANGED stranded
      BY <2>6 DEF Insert
    <3>2. status[n] = "none" /\ r \notin Execution
      BY ExecutionAssumption DEF Rows
    <3>3. Inserts(n)
      BY <2>1, <2>2, <2>3, <3>1, <3>2 DEF Inserts, TypeOK, RowTypes, MonitorTypes
    <3> QED BY <3>3, InsertControl
  <2> QED BY <1>3, <2>5, <2>6 DEF StartNext
<1> QED BY <1>1, <1>2, <1>3

\* Crash and recovery: nothing of the memory is left, and every row that still says
\* running is settled before requests are served.
LEMMA ServerControl ==
    ASSUME TypeOK, TypeOK', ControlInv,
           Crash \/ Restart \/ Serve \/ \E p \in Execution : RecoverRow(p)
    PROVE  ControlInv'
<1> USE DEF ControlInv
<1>1. CASE Crash
  <2>1. /\ \A p \in Execution : /\ mon'[p] = "none" /\ child'[p] # "alive"
                                /\ child'[p] = "none" <=> child[p] = "none"
        /\ \A r \in Request : req'[r] = Idle /\ stage'[r] = "find"
        /\ tracked' = {} /\ server' = "down"
        /\ UNCHANGED <<status, act, caller, carried, stranded, notified>>
    BY <1>1 DEF Crash, rows, TypeOK, MonitorTypes
  <2>2. Unborn' /\ DownIsEmpty' /\ StartsAwaited' /\ RunningIsWatched'
    BY <2>1 DEF Unborn, DownIsEmpty, StartsAwaited, RunningIsWatched, RunningRows,
           Starting
  <2>3. MonitorsOfChildren' /\ HandlesOfChildren' /\ LiveIsReachable'
    BY <2>1 DEF MonitorsOfChildren, HandlesOfChildren, LiveIsReachable
  <2>4. StopsInOrder'
    BY <2>1 DEF StopsInOrder, Stopping, Idle
  <2>5. NotNotified' /\ FollowedEnds'
    BY <2>1 DEF NotNotified, FollowedEnds, FollowedBy
  <2> QED BY <2>2, <2>3, <2>4, <2>5
<1>2. CASE Restart \/ Serve
  <2>1. UNCHANGED <<status, act, caller, carried, stranded, child, tracked, mon, req, stage, notified>>
    BY <1>2 DEF Restart, Serve, rows, procs, requests
  <2>2. DownIsEmpty' /\ RunningIsWatched'
    BY <1>2, <2>1 DEF Restart, Serve, DownIsEmpty, RunningIsWatched, RunningRows
  <2>3. Unborn' /\ StartsAwaited' /\ StopsInOrder'
    BY <2>1 DEF Unborn, StartsAwaited, Awaited, StopsInOrder, Stopping
  <2>4. MonitorsOfChildren' /\ HandlesOfChildren' /\ LiveIsReachable'
    BY <2>1 DEF MonitorsOfChildren, HandlesOfChildren, LiveIsReachable
  <2>5. NotNotified' /\ FollowedEnds'
    BY <2>1 DEF NotNotified, FollowedEnds, FollowedBy
  <2> QED BY <2>2, <2>3, <2>4, <2>5
<1>3. ASSUME NEW p \in Execution, RecoverRow(p) PROVE ControlInv'
  <2>1. /\ UNCHANGED <<act, caller, carried, stranded, child, tracked, mon, req, stage, notified, server>>
        /\ status'[p] = "Failed" /\ \A q \in Execution \ {p} : status'[q] = status[q]
        /\ server = "recovering"
    BY <1>3 DEF RecoverRow, procs, requests, host, TypeOK, RowTypes
  <2>2. Unborn' /\ DownIsEmpty' /\ RunningIsWatched'
    BY <2>1 DEF Unborn, DownIsEmpty, RunningIsWatched
  <2>3. StartsAwaited' /\ StopsInOrder'
    BY <2>1 DEF StartsAwaited, Awaited, StopsInOrder, Stopping
  <2>4. MonitorsOfChildren' /\ HandlesOfChildren' /\ LiveIsReachable'
    BY <2>1 DEF MonitorsOfChildren, HandlesOfChildren, LiveIsReachable
  <2>5. NotNotified' /\ FollowedEnds'
    BY <2>1 DEF NotNotified, FollowedEnds, FollowedBy
  <2> QED BY <2>2, <2>3, <2>4, <2>5
<1> QED BY <1>1, <1>2, <1>3

\* The control invariant holds at the start ...
LEMMA InitControl == Init => ControlInv
<1> SUFFICES ASSUME Init PROVE ControlInv
  OBVIOUS
<1>1. /\ \A p \in Execution : mon[p] = "none" /\ child[p] = "none" /\ notified[p] = 0
      /\ tracked = {} /\ server = "up" /\ \A p \in Execution : status[p] = "none"
      /\ \A r \in Request : stage[r] = "find" /\ req[r].stops = {}
  BY DEF Init, Idle
<1>2. Unborn /\ DownIsEmpty /\ StartsAwaited /\ RunningIsWatched
  BY <1>1 DEF Unborn, DownIsEmpty, StartsAwaited, RunningIsWatched, RunningRows, Running,
         Starting
<1>3. MonitorsOfChildren /\ HandlesOfChildren /\ StopsInOrder /\ LiveIsReachable
  BY <1>1 DEF MonitorsOfChildren, HandlesOfChildren, StopsInOrder, Stopping, LiveIsReachable
<1>4. NotNotified /\ FollowedEnds
  BY <1>1 DEF NotNotified, FollowedEnds, FollowedBy
<1> QED BY <1>2, <1>3, <1>4 DEF ControlInv

\* ... and after every step.
LEMMA NextControl == TypeOK /\ ControlInv /\ [Next]_vars => ControlInv'
<1> SUFFICES ASSUME TypeOK, ControlInv, [Next]_vars PROVE ControlInv'
  OBVIOUS
<1>0. TypeOK'
  BY NextType
<1>1. CASE UNCHANGED vars
  BY <1>1, QuietControl DEF vars, control, rows, procs, requests, host
<1>2. ASSUME NEW p \in Execution,
             \/ StartStep(p) \/ MonitorStep(p) \/ RecoverRow(p)
             \/ \E how \in {"ok", "bad"} : ChildExits(p, how)
             \/ \E r \in {"ok", "fail"}, killed \in BOOLEAN : ExitSignal(p, r, killed)
      PROVE  ControlInv'
  <2>1. CASE StartStep(p)
    BY <1>0, <2>1, StartControl
  <2>2. CASE RecoverRow(p)
    BY <1>0, <2>2, ServerControl
  <2>3. CASE \E how \in {"ok", "bad"} : ChildExits(p, how)
    BY <1>0, <2>3, ExitControl
  <2>4. CASE \/ OsExit(p) \/ CheckStopped(p) \/ UpdateCompletion(p) \/ LoadContext(p)
             \/ Finalize(p) \/ CheckRunningAgent(p) \/ TakeStuck(p)
             \/ \E r \in {"ok", "fail"}, killed \in BOOLEAN : ExitSignal(p, r, killed)
    BY <1>0, <2>4, MonitorAdvances, AdvanceControl
  <2>5. CASE \E changed \in BOOLEAN : Commit(p, changed)
    BY <1>0, <2>5, CommitControl
  <2>6. CASE StartQueued(p)
    BY <1>0, <2>6, StartQueuedControl
  <2>7. CASE Cleanup(p)
    BY <1>0, <2>7, CleanupControl
  <2> QED BY <1>2, <2>1, <2>2, <2>3, <2>4, <2>5, <2>6, <2>7 DEF MonitorStep
<1>3. CASE (\E m \in Message : QueueMessage(m)) \/ CancelQueued
  <2>1. UNCHANGED control
    BY <1>3 DEF QueueMessage, CancelQueued, control, rows, procs, requests, host
  <2> QED BY <2>1, QuietControl
<1>4. ASSUME NEW r \in Request, RequestStep(r) \/ \E route \in Route : Admit(r, route)
      PROVE  ControlInv'
  BY <1>0, <1>4, StopControl, RequestControl DEF RequestStep
<1>5. CASE Crash \/ Restart \/ Serve
  BY <1>0, <1>5, ServerControl
<1> QED BY <1>1, <1>2, <1>3, <1>4, <1>5 DEF Next

-----------------------------------------------------------------------------
(* Messages.                                                               *)

\* Nothing happens to the messages.
LEMMA QuietMessages ==
    ASSUME MessageInv, UNCHANGED <<carried, held, queue, msg>>
    PROVE  MessageInv'
BY DEF MessageInv, MessageInOnePlace, MessageOnce

\* A message is taken by one monitor: it leaves the queue.
LEMMA TakeMessages ==
    ASSUME TypeOK, MessageInv, NEW p \in Execution, NEW l, queue # None, Take(p, l),
           UNCHANGED carried
    PROVE  MessageInv'
<1> USE DEF MessageInv
<1>1. /\ queue \in Message /\ msg[queue] = "queued" /\ queue' = None
      /\ msg'[queue] = "taken" /\ \A m \in Message \ {queue} : msg'[m] = msg[m]
      /\ held'[p] = queue /\ \A q \in Execution \ {p} : held'[q] = held[q]
  BY DEF Take, MessageInOnePlace, TypeOK, MonitorTypes, RequestTypes
<1>2. \A q \in Execution : held[q] # queue /\ carried[q] # queue
  BY <1>1, ExecutionAssumption DEF MessageInOnePlace, MessageOnce
<1>3. \A q \in Execution : held[q] \in Message \cup {None} /\ carried[q] \in Message \cup {None}
  BY DEF TypeOK, RowTypes, MonitorTypes
<1>4. MessageInOnePlace'
  BY <1>1, <1>2, <1>3 DEF MessageInOnePlace
<1>5. MessageOnce'
  BY <1>1, <1>2, <1>3 DEF MessageOnce
<1> QED BY <1>4, <1>5

\* A message that leaves the queue for good.
LEMMA DiscardMessages ==
    ASSUME TypeOK, MessageInv, NEW fate, queue # None, queue' = None,
           msg' = [msg EXCEPT ![queue] = fate], UNCHANGED <<carried, held>>
    PROVE  MessageInv'
<1> USE DEF MessageInv
<1>1. /\ queue \in Message /\ msg[queue] = "queued"
      /\ \A m \in Message \ {queue} : msg'[m] = msg[m]
  BY DEF MessageInOnePlace, TypeOK, RequestTypes
<1>2. \A q \in Execution : held[q] # queue /\ carried[q] # queue
  BY <1>1, ExecutionAssumption DEF MessageInOnePlace, MessageOnce
<1>3. \A q \in Execution : held[q] \in Message \cup {None} /\ carried[q] \in Message \cup {None}
  BY DEF TypeOK, RowTypes, MonitorTypes
<1> QED BY <1>1, <1>2, <1>3 DEF MessageInOnePlace, MessageOnce

\* The message a monitor holds is started in one row, or lost.
LEMMA StartMessages ==
    ASSUME TypeOK, MessageInv, NEW p \in Execution, StartQueued(p)
    PROVE  MessageInv'
<1> USE DEF MessageInv
<1>0. \A q \in Execution : held[q] \in Message \cup {None} /\ carried[q] \in Message \cup {None}
  BY DEF TypeOK, RowTypes, MonitorTypes
<1>1. /\ held'[p] = None /\ \A q \in Execution \ {p} : held'[q] = held[q]
      /\ UNCHANGED queue
  BY DEF StartQueued, TypeOK, MonitorTypes
<1>2. /\ \A m \in Message \ {held[p]} : msg'[m] = msg[m]
      /\ held[p] # None =>
            /\ msg[held[p]] = "taken" /\ held[p] \in Message
            /\ held[p] # queue
            /\ \A q \in Execution : carried[q] # held[p] /\ (q # p => held[q] # held[p])
  BY <1>0 DEF StartQueued, MessageInOnePlace, MessageOnce, TypeOK, RequestTypes
<1>3. MessageInOnePlace'
  BY <1>0, <1>1, <1>2 DEF MessageInOnePlace, TypeOK, RequestTypes
<1>4. CASE UNCHANGED <<rows, archived>>
  <2>1. MessageOnce'
    BY <1>0, <1>2, <1>4 DEF MessageOnce, rows
  <2> QED BY <1>3, <2>1
<1>5. ASSUME NEW pcs, Insert(AgentAction, p, held[p], pcs),
             msg' = [msg EXCEPT ![held[p]] = "started"]
      PROVE  MessageInv'
  <2>1. PICK n \in Execution : carried' = [carried EXCEPT ![n] = held[p]]
    BY <1>5 DEF Insert
  <2>2. carried'[n] = held[p] /\ \A q \in Execution \ {n} : carried'[q] = carried[q]
    BY <2>1 DEF TypeOK, RowTypes
  <2>3. held[p] # None => msg'[held[p]] = "started"
    BY <1>2, <1>5 DEF TypeOK, RequestTypes
  <2>4. MessageOnce'
    BY <1>0, <1>2, <2>2, <2>3 DEF MessageOnce
  <2> QED BY <1>3, <2>4
<1> QED BY <1>4, <1>5 DEF StartQueued

\* A row that carries no message.
LEMMA InsertMessages ==
    ASSUME TypeOK, MessageInv, NEW a, NEW by, NEW pcs, Insert(a, by, None, pcs),
           UNCHANGED <<held, queue, msg>>
    PROVE  MessageInv'
<1>1. PICK n \in Execution : carried' = [carried EXCEPT ![n] = None]
  BY DEF Insert
<1>2. carried'[n] = None /\ \A q \in Execution \ {n} : carried'[q] = carried[q]
  BY <1>1 DEF TypeOK, RowTypes
<1> QED BY <1>2 DEF MessageInv, MessageInOnePlace, MessageOnce

\* The steps of a monitor that may move a message.
LEMMA MonitorMessages ==
    ASSUME TypeOK, MessageInv, NEW p \in Execution, MonitorStep(p)
    PROVE  MessageInv'
<1>1. CASE OsExit(p) \/ CheckStopped(p) \/ LoadContext(p) \/ CheckRunningAgent(p) \/ Cleanup(p)
  BY <1>1, QuietMessages DEF OsExit, CheckStopped, LoadContext, CheckRunningAgent, Cleanup,
                             rows, queues
<1>2. CASE UpdateCompletion(p)
  BY <1>2, QuietMessages DEF UpdateCompletion, DatabaseError, queues
<1>3. ASSUME NEW changed \in BOOLEAN, Commit(p, changed) PROVE MessageInv'
  <2>1. UNCHANGED <<held, queue, msg>>
    BY <1>3 DEF Commit, CommitTo, queues
  <2>2. CASE UNCHANGED rows
    BY <2>1, <2>2, QuietMessages DEF rows
  <2>3. CASE Insert(NextAction(p), p, None, [mon EXCEPT ![p] = "next"])
    BY <2>1, <2>3, InsertMessages
  <2> QED BY <1>3, <2>2, <2>3 DEF Commit, CommitTo
<1>4. CASE Finalize(p)
  <2>1. UNCHANGED carried
    BY <1>4 DEF Finalize, rows
  <2>2. CASE UNCHANGED <<queues, held>>
    BY <2>1, <2>2, QuietMessages DEF queues
  <2>3. CASE queue # None /\ Take(p, "start")
    BY <2>1, <2>3, TakeMessages
  <2>4. CASE queue # None /\ queue' = None /\ msg' = [msg EXCEPT ![queue] = "discarded"]
             /\ UNCHANGED held
    BY <2>1, <2>4, DiscardMessages
  <2> QED BY <1>4, <2>2, <2>3, <2>4 DEF Finalize
<1>5. CASE StartQueued(p)
  BY <1>5, StartMessages
<1>6. CASE TakeStuck(p)
  <2>1. UNCHANGED carried
    BY <1>6 DEF TakeStuck, rows
  <2>2. CASE UNCHANGED <<queues, held>>
    BY <2>1, <2>2, QuietMessages DEF queues
  <2>3. CASE queue # None /\ Take(p, "start_late")
    BY <2>1, <2>3, TakeMessages
  <2> QED BY <1>6, <2>2, <2>3 DEF TakeStuck
<1> QED BY <1>1, <1>2, <1>3, <1>4, <1>5, <1>6 DEF MonitorStep

\* Queueing replaces what was queued; a crash loses what was in memory.
LEMMA QueueMessages ==
    ASSUME TypeOK, MessageInv, (\E m \in Message : QueueMessage(m)) \/ CancelQueued \/ Crash
    PROVE  MessageInv'
<1> USE DEF MessageInv
<1>0. \A q \in Execution : held[q] \in Message \cup {None} /\ carried[q] \in Message \cup {None}
  BY DEF TypeOK, RowTypes, MonitorTypes
<1>1. ASSUME NEW m \in Message, QueueMessage(m) PROVE MessageInv'
  <2>1. /\ msg[m] = "new" /\ queue' = m /\ msg'[m] = "queued" /\ UNCHANGED <<carried, held>>
        /\ \A x \in Message : x # m /\ x # queue => msg'[x] = msg[x]
    BY <1>1 DEF QueueMessage, rows
  <2>2. \A q \in Execution : /\ held[q] # m /\ (held[q] # None => held[q] # queue)
                             /\ carried[q] # m /\ (carried[q] # None => carried[q] # queue)
    BY <2>1, ExecutionAssumption DEF MessageInOnePlace, MessageOnce
  <2>3. MessageInOnePlace'
    BY <1>0, <2>1, <2>2 DEF MessageInOnePlace
  <2>4. MessageOnce'
    BY <1>0, <2>1, <2>2 DEF MessageOnce
  <2> QED BY <2>3, <2>4
<1>2. CASE CancelQueued
  BY <1>2, DiscardMessages DEF CancelQueued, rows
<1>3. CASE Crash
  <2>1. /\ \A p \in Execution : held'[p] = None
        /\ queue' = None /\ UNCHANGED carried
        /\ \A m \in Message : msg[m] = "started" => msg'[m] = "started"
    BY <1>3 DEF Crash, rows
  <2> QED BY <1>0, <2>1 DEF MessageInOnePlace, MessageOnce
<1> QED BY <1>1, <1>2, <1>3

\* The messages' invariant holds at the start ...
LEMMA InitMessages == Init => MessageInv
BY DEF Init, MessageInv, MessageInOnePlace, MessageOnce

\* ... and after every step.
LEMMA NextMessages == TypeOK /\ MessageInv /\ [Next]_vars => MessageInv'
<1> SUFFICES ASSUME TypeOK, MessageInv, [Next]_vars PROVE MessageInv'
  OBVIOUS
<1>1. CASE UNCHANGED vars
  BY <1>1, QuietMessages DEF vars, rows, queues
<1>2. ASSUME NEW p \in Execution,
             \/ StartStep(p) \/ RecoverRow(p)
             \/ \E how \in {"ok", "bad"} : ChildExits(p, how)
             \/ \E r \in {"ok", "fail"}, killed \in BOOLEAN : ExitSignal(p, r, killed)
      PROVE  MessageInv'
  <2>1. UNCHANGED <<carried, held, queue, msg>>
    BY <1>2 DEF StartStep, Prepare, Spawn, SpawnFails, Track, Watch, DatabaseError, RecoverRow,
                ChildExits, ExitSignal, rows, queues
  <2> QED BY <2>1, QuietMessages
<1>3. ASSUME NEW r \in Request, RequestStep(r) PROVE MessageInv'
  <2>1. CASE StartNext(r)
    <3>1. UNCHANGED <<held, queue, msg>>
      BY <2>1 DEF StartNext, queues
    <3>2. CASE UNCHANGED rows
      BY <3>1, <3>2, QuietMessages DEF rows
    <3>3. CASE Insert(Head(req[r].starts), r, None, mon)
      BY <3>1, <3>3, InsertMessages
    <3> QED BY <2>1, <3>2, <3>3 DEF StartNext
  <2>2. CASE ~StartNext(r)
    <3>1. UNCHANGED <<carried, held, queue, msg>>
      BY <1>3, <2>2 DEF RequestStep, FindChild, MarkKilled, KillGroup, RemoveChild, DropRows,
                        rows, queues
    <3> QED BY <3>1, QuietMessages
  <2> QED BY <2>1, <2>2
<1>4. CASE Restart \/ Serve \/ \E r \in Request, route \in Route : Admit(r, route)
  <2>1. UNCHANGED <<carried, held, queue, msg>>
    BY <1>4 DEF Restart, Serve, Admit, rows, queues
  <2> QED BY <2>1, QuietMessages
<1> QED BY <1>1, <1>2, <1>3, <1>4, MonitorMessages, QueueMessages DEF Next

-----------------------------------------------------------------------------
(* The theorems.                                                           *)

\* The inductive invariant of the executions.
THEOREM Invariance == Spec => []ExecutionInv
<1>1. Init => ExecutionInv
  BY InitType, InitControl, InitMessages DEF ExecutionInv
<1>2. ExecutionInv /\ [Next]_vars => ExecutionInv'
  BY NextType, NextControl, NextMessages DEF ExecutionInv
<1> QED BY <1>1, <1>2, PTL DEF Spec

\* While requests are served, no row says running without a start under way or a
\* monitor that will record the exit, those stranded by the database excepted.
THEOREM Watched == Spec => []RunningIsWatched
<1>1. ExecutionInv => RunningIsWatched
  BY DEF ExecutionInv, ControlInv
<1> QED BY <1>1, Invariance, PTL

\* A live child is about to be registered, or has its handle and its monitor.
THEOREM Reachable == Spec => []LiveIsReachable
<1>1. ExecutionInv => LiveIsReachable
  BY DEF ExecutionInv, ControlInv
<1> QED BY <1>1, Invariance, PTL

\* A queued message runs at most once.
THEOREM RunsOnce == Spec => []MessageOnce
<1>1. ExecutionInv => MessageOnce
  BY DEF ExecutionInv, MessageInv
<1> QED BY <1>1, Invariance, PTL

\* An execution ends in one way.
THEOREM EndsOnce == Spec => []OneEnd
<1>1. ExecutionInv => OneEnd
  <2> SUFFICES ASSUME ExecutionInv, NEW p \in Execution
               PROVE  notified[p] <= IF \E q \in Execution : /\ caller[q] = p /\ carried[q] # None
                                                             /\ child[q] # "none"
                                     THEN 0 ELSE 1
    BY DEF OneEnd
  <2>1. /\ notified[p] <= 1
        /\ \A q \in Execution : FollowedBy(p, q) => notified[p] = 0
    BY DEF ExecutionInv, ControlInv, NotNotified, FollowedEnds
  <2> QED BY <2>1 DEF FollowedBy
<1> QED BY <1>1, Invariance, PTL
=============================================================================
