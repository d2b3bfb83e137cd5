------------------------------ MODULE RoomSync ------------------------------
(***************************************************************************)
(* Synchronization of one AI Room between the owner's machine (the store)  *)
(* and its SSH worksite (the server):                                      *)
(* crates/server/src/routes/ai_rooms.rs.                                   *)
(*                                                                         *)
(* The 15-second loop of spawn_auto_sync and the request handlers sync_room,*)
(* import_remote_documents and prepare_remote_room are processes that run  *)
(* the same pass (sync_remote_checkpoints) over two snapshots read earlier. *)
(* The loop reads the server before it takes SYNC_LOCK, prepare_remote     *)
(* never takes it, and the document requests of the owner write the store  *)
(* without it.  Agents write on both sides at any time.                    *)
(***************************************************************************)
EXTENDS SessionUnion

CONSTANTS
    Loop,            \* the loop of spawn_auto_sync
    Request,         \* handlers that may run beside it
    RequestOp,       \* which requests arrive: "sync", "import", "prepare"
    Slot,            \* bound: scripts that may be under way on the server
    UserDoc,         \* documents the owner edits through the API
    AgentDoc,        \* documents agents edit on the server
    Managed,         \* versions of decisions.md with the managed comment
    Extends(_, _),   \* server decisions that start with the local ones
    MaxFault         \* bound: failures, crashes and lost server directories

VARIABLES
    store,           \* files of the room on the owner's machine
    server,          \* files of the room on the server
    prepared,        \* the room directory exists on the server
    history,         \* archived <<path, version>> pairs (preserve_local_version)
    torn,            \* archive files created by a write a crash cut short
    lock,            \* holder of SYNC_LOCK
    pc,              \* where each process is
    op,              \* what each process runs
    loc,             \* its snapshot of the store (read_local_files)
    rem,             \* its snapshot of the server (read_workplace_files)
    scripts,         \* writes still under way on the server
    deleting,        \* library document a delete request is half through
    clock,           \* versions written so far
    faults           \* failures so far

disk == <<store, server, prepared, history, torn>>
procs == <<lock, pc, op, loc, rem>>
vars == <<store, server, prepared, history, torn, lock, pc, op, loc, rem,
          scripts, deleting, clock, faults>>

Proc == {Loop} \cup Request
Stage == {"idle", "wait", "prepare", "remote", "archive", "create", "push",
          "context", "decisions", "library", "upgrade", "provision"}
Op == {"auto", "sync", "import", "prepare"}
Archive == Path \X Version

ASSUME ProcAssumption ==
    /\ Loop \notin Request
    /\ None \notin Proc \cup LibraryDoc
    /\ UserDoc \subseteq LibraryDoc \cup {Context}
    /\ AgentDoc \subseteq DocPath
    /\ RequestOp \subseteq {"sync", "import", "prepare"}
    /\ MaxFault \in Nat

TypeOK ==
    /\ store \in Files /\ server \in Files
    /\ prepared \in BOOLEAN
    /\ history \subseteq Archive /\ torn \subseteq Archive
    /\ lock \in Proc \cup {None}
    /\ pc \in [Proc -> Stage] /\ op \in [Proc -> Op]
    /\ loc \in [Proc -> Files] /\ rem \in [Proc -> Files]
    /\ scripts \in [Slot -> Files]
    /\ deleting \in LibraryDoc \cup {None}
    /\ clock \in Version /\ faults \in 0 .. MaxFault

(***************************************************************************)
(* create_room has installed the room locally; version 0 is the first      *)
(* version of each document.  The server has been prepared or has nothing. *)
(***************************************************************************)
Init ==
    /\ store = [p \in Path |-> IF p \in DocPath THEN 0 ELSE None]
    /\ prepared \in BOOLEAN
    /\ server = IF prepared THEN store ELSE NoFiles
    /\ history = {} /\ torn = {}
    /\ lock = None
    /\ pc = [p \in Proc |-> "idle"] /\ op = [p \in Proc |-> "auto"]
    /\ loc = [p \in Proc |-> NoFiles] /\ rem = [p \in Proc |-> NoFiles]
    /\ scripts = [s \in Slot |-> NoFiles]
    /\ deleting = None
    /\ clock = 0 /\ faults = 0

-----------------------------------------------------------------------------
Goto(p, stage) == pc' = [pc EXCEPT ![p] = stage]

\* The end of a pass or handler: its guard and its snapshots are dropped.
Finish(p) ==
    /\ Goto(p, "idle")
    /\ lock' = IF lock = p THEN None ELSE lock
    /\ loc' = [loc EXCEPT ![p] = NoFiles]
    /\ rem' = [rem EXCEPT ![p] = NoFiles]

\* preserve_local_version: an archive file that exists is never written again.
Preserve(versions) == history' = history \cup (versions \ torn)

Free(s) == scripts[s] = NoFiles

\* A failure the code answers with an error return; MaxFault bounds them.
Fault == faults < MaxFault /\ faults' = faults + 1

Fresh == clock < MaxVersion /\ clock' = clock + 1

-----------------------------------------------------------------------------
(* Authors.                                                                *)

\* update_document and update_library_file: store only, no lock.
UserEdit(d) ==
    /\ Fresh
    /\ store' = [store EXCEPT ![d] = clock']
    /\ UNCHANGED <<server, prepared, history, torn, procs, scripts, deleting, faults>>

\* delete_library_file: the server first, then the store, no lock.
DeleteRemote(d) ==
    /\ Fresh
    /\ deleting = None
    /\ server' = [server EXCEPT ![d] = None]
    /\ deleting' = d
    /\ UNCHANGED <<store, prepared, history, torn, procs, scripts, faults>>

DeleteLocal ==
    /\ deleting # None
    /\ store' = [store EXCEPT ![deleting] = None]
    /\ deleting' = None
    /\ UNCHANGED <<server, prepared, history, torn, procs, scripts, clock, faults>>

\* An agent on the server writes one of its records, or a document.
AgentServer(p) ==
    /\ prepared
    /\ Fresh
    /\ server' = [server EXCEPT ![p] = clock']
    /\ UNCHANGED <<store, prepared, history, torn, procs, scripts, deleting, faults>>

\* An agent on the owner's machine writes one of its records.
AgentLocal(n) ==
    /\ Fresh
    /\ store' = [store EXCEPT ![n] = clock']
    /\ UNCHANGED <<server, prepared, history, torn, procs, scripts, deleting, faults>>

\* The room directory disappears from the server.
ServerWiped ==
    /\ prepared
    /\ Fault
    /\ server' = NoFiles
    /\ prepared' = FALSE
    /\ UNCHANGED <<store, history, torn, procs, scripts, deleting, clock>>

AuthorStep ==
    \/ \E d \in UserDoc : UserEdit(d)
    \/ \E d \in UserDoc \cap LibraryDoc : DeleteRemote(d)
    \/ DeleteLocal
    \/ \E p \in Name \cup AgentDoc : AgentServer(p)
    \/ \E n \in Name : AgentLocal(n)
    \/ ServerWiped

-----------------------------------------------------------------------------
(* Starting a pass.                                                        *)

(***************************************************************************)
(* The loop reads the worksite without the lock.  exit code 2 (no room     *)
(* directory) sends it to prepare_remote; an unreachable host is a cycle   *)
(* that changes nothing.                                                   *)
(***************************************************************************)
AutoRead ==
    /\ pc[Loop] = "idle"
    /\ rem' = [rem EXCEPT ![Loop] = server]
    /\ op' = [op EXCEPT ![Loop] = IF prepared THEN "auto" ELSE "prepare"]
    /\ Goto(Loop, IF prepared THEN "wait" ELSE "prepare")
    /\ UNCHANGED <<disk, lock, loc, scripts, deleting, clock, faults>>

StartRequest(p, kind) ==
    /\ p \in Request
    /\ pc[p] = "idle"
    /\ op' = [op EXCEPT ![p] = kind]
    /\ Goto(p, IF kind = "prepare" THEN "prepare" ELSE "wait")
    /\ UNCHANGED <<disk, lock, loc, rem, scripts, deleting, clock, faults>>

\* Mutant: the pass does not wait for the lock.
AcquireTaken(p) ==
    /\ pc[p] = "wait"
    /\ lock' = p
    /\ loc' = [loc EXCEPT ![p] = store]
    /\ Goto(p, IF op[p] = "auto" THEN "archive" ELSE "remote")
    /\ UNCHANGED <<disk, op, rem, scripts, deleting, clock, faults>>

\* SYNC_LOCK.lock().await, then read_local_files.
Acquire(p) ==
    /\ pc[p] = "wait"
    /\ lock = None
    /\ lock' = p
    /\ loc' = [loc EXCEPT ![p] = store]
    /\ Goto(p, IF op[p] = "auto" THEN "archive" ELSE "remote")
    /\ UNCHANGED <<disk, op, rem, scripts, deleting, clock, faults>>

\* prepare_remote reads the store without the lock.
PrepareBegin(p) ==
    /\ pc[p] = "prepare"
    /\ loc' = [loc EXCEPT ![p] = store]
    /\ Goto(p, "remote")
    /\ UNCHANGED <<disk, lock, op, rem, scripts, deleting, clock, faults>>

AfterRead(kind, files) ==
    CASE kind = "import" -> "library"
      [] kind = "prepare" /\ Records(files) = {} -> "provision"
      [] OTHER -> "archive"

\* sync_room and import_remote_documents give up when the server is unprepared.
ReadRemote(p) ==
    /\ pc[p] = "remote"
    /\ prepared \/ op[p] = "prepare"
    /\ rem' = [rem EXCEPT ![p] = server]
    /\ Goto(p, AfterRead(op[p], server))
    /\ UNCHANGED <<disk, lock, op, loc, scripts, deleting, clock, faults>>

ReadRefused(p) ==
    /\ pc[p] = "remote"
    /\ ~prepared /\ op[p] # "prepare"
    /\ Finish(p)
    /\ UNCHANGED <<disk, op, scripts, deleting, clock, faults>>

\* prepare_remote does not look at whether its read of the server succeeded.
ReadFailed(p) ==
    /\ pc[p] = "remote"
    /\ op[p] = "prepare"
    /\ Fault
    /\ rem' = [rem EXCEPT ![p] = NoFiles]
    /\ Goto(p, "provision")
    /\ UNCHANGED <<disk, lock, op, loc, scripts, deleting, clock>>

-----------------------------------------------------------------------------
(* The pass of sync_remote_checkpoints over the snapshots of p.            *)

\* Mutant: archives every differing record, also one the store lacks.
ToArchiveDiffering(p) ==
    {<<n, loc[p][n]>> : n \in {m \in Name : loc[p][m] # rem[p][m]}}
      \ (history \cup torn)

\* Local versions of conflicting records that have no archive file yet.
ToArchive(p) ==
    {<<n, loc[p][n]>> : n \in Conflicts(loc[p], rem[p])} \ (history \cup torn)

ArchiveConflict(p) ==
    /\ pc[p] = "archive"
    /\ \E a \in ToArchive(p) : Preserve({a})
    /\ UNCHANGED <<store, server, prepared, torn, procs, scripts, deleting,
                   clock, faults>>

ArchiveDone(p) ==
    /\ pc[p] = "archive"
    /\ ToArchive(p) = {}
    /\ Goto(p, "create")
    /\ UNCHANGED <<disk, lock, op, loc, rem, scripts, deleting, clock, faults>>

\* Records the store still lacks, created one file after the other.
ToCreate(p) == {c \in DesiredLocal(loc[p], rem[p]) : store[c[1]] = None}

CreateLocal(p) ==
    /\ pc[p] = "create"
    /\ \E c \in ToCreate(p) : store' = CreateOnly(store, {c})
    /\ UNCHANGED <<server, prepared, history, torn, procs, scripts, deleting,
                   clock, faults>>

CreateDone(p) ==
    /\ pc[p] = "create"
    /\ ToCreate(p) = {}
    /\ Goto(p, "push")
    /\ UNCHANGED <<disk, lock, op, loc, rem, scripts, deleting, clock, faults>>

\* The rest of a pass reads no record of its snapshots any more.
Docs(f) == [q \in Path |-> IF q \in SessionPath THEN None ELSE f[q]]

\* write_remote_session_records: one script, which also makes the directory.
PushRecords(p) ==
    LET want == DesiredRemote(loc[p], rem[p]) IN
    /\ pc[p] = "push"
    /\ server' = CreateOnly(server, want)
    /\ prepared' = (prepared \/ want # {})
    /\ loc' = [loc EXCEPT ![p] = Docs(@)]
    /\ rem' = [rem EXCEPT ![p] = Docs(@)]
    /\ Goto(p, "context")
    /\ UNCHANGED <<store, history, torn, lock, op, scripts, deleting, clock, faults>>

\* Mutant: only a missing server copy counts as different.
ContextMissing(p) == loc[p][Context] # None /\ rem[p][Context] = None

ContextDiffers(p) ==
    /\ loc[p][Context] # None /\ rem[p][Context] # None
    /\ loc[p][Context] # rem[p][Context]

(***************************************************************************)
(* The losing server copy is archived and the local one sent by a detached *)
(* task, so the pass goes on, and ends, before the write happens.          *)
(***************************************************************************)
SpawnContext(p) ==
    /\ pc[p] = "context"
    /\ ContextDiffers(p)
    /\ \E s \in Slot :
          /\ Free(s)
          /\ scripts' = [scripts EXCEPT ![s] =
                            [NoFiles EXCEPT ![Context] = loc[p][Context]]]
    /\ Preserve({<<Context, rem[p][Context]>>})
    /\ Goto(p, "decisions")
    /\ UNCHANGED <<store, server, prepared, torn, lock, op, loc, rem, deleting,
                   clock, faults>>

SkipContext(p) ==
    /\ pc[p] = "context"
    /\ ~ContextDiffers(p)
    /\ Goto(p, "decisions")
    /\ UNCHANGED <<disk, lock, op, loc, rem, scripts, deleting, clock, faults>>

\* Unmanaged decisions.md follows the server where the server extends it.
PullsDecisions(p) ==
    LET l == loc[p][Decisions]
        r == rem[p][Decisions]
    IN  l # None /\ r # None /\ l # r /\ l \notin Managed /\ Extends(r, l)

MergeDecisions(p) ==
    /\ pc[p] = "decisions"
    /\ store' = IF PullsDecisions(p)
                  THEN [store EXCEPT ![Decisions] = rem[p][Decisions]]
                  ELSE store
    /\ Goto(p, "library")
    /\ UNCHANGED <<server, prepared, history, torn, lock, op, loc, rem, scripts,
                   deleting, clock, faults>>

\* merge_remote_library_documents: documents where the server differs.
ToMerge(p) == {d \in LibraryPath : rem[p][d] # None /\ rem[p][d] # loc[p][d]}

(***************************************************************************)
(* What is archived is the version of the snapshot; what is overwritten is *)
(* the version on disk.                                                    *)
(***************************************************************************)
MergeLibrary(p, d) ==
    /\ pc[p] = "library"
    /\ d \in ToMerge(p)
    /\ Preserve(IF loc[p][d] = None THEN {} ELSE {<<d, loc[p][d]>>})
    /\ store' = [store EXCEPT ![d] = rem[p][d]]
    /\ loc' = [loc EXCEPT ![p][d] = rem[p][d]]
    /\ UNCHANGED <<server, prepared, torn, lock, pc, op, rem, scripts, deleting,
                   clock, faults>>

LibraryDone(p) ==
    /\ pc[p] = "library"
    /\ ToMerge(p) = {}
    /\ IF op[p] = "import"
         THEN Finish(p)
         ELSE Goto(p, "upgrade") /\ UNCHANGED <<lock, loc, rem>>
    /\ UNCHANGED <<disk, op, scripts, deleting, clock, faults>>

\* local_owner_rules: a missing local copy is generated again.
OwnerRules == IF store[Rules] = None THEN 0 ELSE store[Rules]

\* Mutant: owner rules are only written where the server has none.
UpgradeMissing(p) ==
    /\ pc[p] = "upgrade"
    /\ store' = [store EXCEPT ![Rules] = OwnerRules]
    /\ server' = IF rem[p][Rules] # None
                   THEN server
                   ELSE [server EXCEPT ![Rules] = OwnerRules]
    /\ prepared' = (prepared \/ rem[p][Rules] = None)
    /\ Finish(p)
    /\ UNCHANGED <<history, torn, op, scripts, deleting, clock, faults>>

\* upgrade_remote_instructions writes what differs from the snapshot.
Upgrade(p) ==
    /\ pc[p] = "upgrade"
    /\ store' = [store EXCEPT ![Rules] = OwnerRules]
    /\ server' = IF rem[p][Rules] = OwnerRules
                   THEN server
                   ELSE [server EXCEPT ![Rules] = OwnerRules]
    /\ prepared' = (prepared \/ rem[p][Rules] # OwnerRules)
    /\ Finish(p)
    /\ UNCHANGED <<history, torn, op, scripts, deleting, clock, faults>>

-----------------------------------------------------------------------------
(* prepare_remote without session records on the server: every file of the *)
(* store in one script (write_remote_files), documents first, then records, *)
(* then the library.                                                       *)

Clash(p) == Conflicts(loc[p], server) # {}

Provision(p) ==
    /\ pc[p] = "provision"
    /\ ~Clash(p)
    /\ server' = [q \in Path |-> IF loc[p][q] = None THEN server[q] ELSE loc[p][q]]
    /\ prepared' = TRUE
    /\ Finish(p)
    /\ UNCHANGED <<store, history, torn, op, scripts, deleting, clock, faults>>

\* The script stops (exit 3) at a record that exists with other content.
ProvisionClash(p) ==
    /\ pc[p] = "provision"
    /\ Clash(p)
    /\ \E done \in SUBSET (SessionPath \ Conflicts(loc[p], server)) :
          server' = [q \in Path |->
              IF q \in done \cup {Context, Decisions} /\ loc[p][q] # None
                THEN loc[p][q] ELSE server[q]]
    /\ prepared' = TRUE
    /\ Finish(p)
    /\ UNCHANGED <<store, history, torn, op, scripts, deleting, clock, faults>>

-----------------------------------------------------------------------------
(* Scripts under way on the server, and failures.                          *)

\* A script writes documents first, then records, then the library.
Rank(q) == IF q \in {Context, Decisions} THEN 1
           ELSE IF q \in SessionPath THEN 2 ELSE 3

Pending(s) == {q \in Path : scripts[s][q] # None}

(***************************************************************************)
(* The script of prepare_remote, the only one with records and documents,  *)
(* stops (exit 3) at a record that has other content; a push goes on.      *)
(***************************************************************************)
Stops(s, q) ==
    /\ q \in SessionPath
    /\ server[q] \notin {None, scripts[s][q]}
    /\ Pending(s) \cap DocPath # {}

ScriptStep(s, q) ==
    /\ q \in Pending(s)
    /\ \A r \in Pending(s) : Rank(q) <= Rank(r)
    /\ server' = IF q \in SessionPath
                   THEN CreateOnly(server, {<<q, scripts[s][q]>>})
                   ELSE [server EXCEPT ![q] = scripts[s][q]]
    /\ prepared' = TRUE
    /\ scripts' = [scripts EXCEPT ![s] =
                      IF Stops(s, q) THEN NoFiles ELSE [@ EXCEPT ![q] = None]]
    /\ UNCHANGED <<store, history, torn, procs, deleting, clock, faults>>

\* The connection or the script dies.
ScriptDrop(s) ==
    /\ ~Free(s)
    /\ Fault
    /\ scripts' = [scripts EXCEPT ![s] = NoFiles]
    /\ UNCHANGED <<disk, procs, deleting, clock>>

\* The deletion on the server is reported as failed, so the local one is not done.
DeleteFailed ==
    /\ deleting # None
    /\ Fault
    /\ deleting' = None
    /\ UNCHANGED <<disk, procs, scripts, clock>>

\* What the script of a blocking SSH call at p's stage would write.
ScriptOf(p) ==
    CASE pc[p] = "push" -> CreateOnly(NoFiles, DesiredRemote(loc[p], rem[p]))
      [] pc[p] = "provision" -> loc[p]
      [] pc[p] = "upgrade" /\ rem[p][Rules] # OwnerRules ->
            [NoFiles EXCEPT ![Rules] = OwnerRules]
      [] OTHER -> NoFiles

(***************************************************************************)
(* The call fails or times out: p gives up while its script may have made  *)
(* the directory and may still write any part of its files later.          *)
(***************************************************************************)
Interrupted(p) ==
    /\ pc[p] \in {"push", "provision", "upgrade"}
    /\ ScriptOf(p) # NoFiles
    /\ Fault
    /\ \E s \in Slot : Free(s) /\ scripts' = [scripts EXCEPT ![s] = ScriptOf(p)]
    /\ prepared' \in {prepared, TRUE}
    /\ store' = IF pc[p] = "upgrade" THEN [store EXCEPT ![Rules] = OwnerRules] ELSE store
    /\ Finish(p)
    /\ UNCHANGED <<server, history, torn, op, deleting, clock>>

\* The archive files p may be writing.
Archiving(p) ==
    CASE pc[p] = "archive" -> ToArchive(p)
      [] pc[p] = "context" /\ ContextDiffers(p) -> {<<Context, rem[p][Context]>>}
      [] pc[p] = "library" ->
            {<<d, loc[p][d]>> : d \in {e \in ToMerge(p) : loc[p][e] # None}}
      [] OTHER -> {}

\* One of these archive files may be complete, or cut short (fs::write).
CutShort(archives) ==
    \E a \in {{}} \cup {{v} : v \in archives} :
        \/ Preserve(a) /\ UNCHANGED torn
        \/ torn' = torn \cup (a \ history) /\ UNCHANGED history

\* Any other error a pass returns: the server cannot be read, or a local
\* file cannot be written.
Failed(p) ==
    /\ \/ pc[p] = "remote" /\ op[p] # "prepare"
       \/ pc[p] \in {"archive", "create", "context", "decisions", "library"}
    /\ Fault
    /\ CutShort(Archiving(p))
    /\ Finish(p)
    /\ UNCHANGED <<store, server, prepared, op, scripts, deleting, clock>>

\* The application stops and starts again; the disks and the server stay.
Crash ==
    /\ Fault
    /\ CutShort(UNION {Archiving(p) : p \in Proc})
    /\ lock' = None
    /\ pc' = [p \in Proc |-> "idle"] /\ op' = [p \in Proc |-> "auto"]
    /\ loc' = [p \in Proc |-> NoFiles] /\ rem' = [p \in Proc |-> NoFiles]
    /\ deleting' = None
    /\ UNCHANGED <<store, server, prepared, scripts, clock>>

-----------------------------------------------------------------------------
PassStep(p) ==
    \/ Acquire(p) \/ PrepareBegin(p) \/ ReadRemote(p) \/ ReadRefused(p)
    \/ ArchiveConflict(p) \/ ArchiveDone(p) \/ CreateLocal(p) \/ CreateDone(p)
    \/ PushRecords(p) \/ SpawnContext(p) \/ SkipContext(p) \/ MergeDecisions(p)
    \/ \E d \in LibraryPath : MergeLibrary(p, d)
    \/ LibraryDone(p) \/ Upgrade(p) \/ Provision(p) \/ ProvisionClash(p)

FaultStep ==
    \/ \E p \in Proc : ReadFailed(p) \/ Interrupted(p) \/ Failed(p)
    \/ \E s \in Slot : ScriptDrop(s)
    \/ DeleteFailed
    \/ Crash

Next ==
    \/ AuthorStep
    \/ AutoRead
    \/ \E p \in Request, kind \in RequestOp : StartRequest(p, kind)
    \/ \E p \in Proc : PassStep(p)
    \/ \E s \in Slot, q \in Path : ScriptStep(s, q)
    \/ FaultStep

Spec == Init /\ [][Next]_vars

(***************************************************************************)
(* Tokio runs every handler and every detached task on, its mutex is fair  *)
(* (first come, first served), and the interval of the loop keeps ticking. *)
(* Requests need not arrive and authors need not write.  SpawnContext is   *)
(* strongly fair because the wait for a free slot is the model's, not the  *)
(* code's.                                                                 *)
(***************************************************************************)
Fairness ==
    /\ WF_vars(AutoRead)
    /\ WF_vars(DeleteLocal)
    /\ \A p \in Proc : /\ WF_vars(PassStep(p))
                       /\ SF_vars(Acquire(p))
                       /\ SF_vars(SpawnContext(p))
    /\ \A s \in Slot : WF_vars(\E q \in Path : ScriptStep(s, q))

FairSpec == Spec /\ Fairness

-----------------------------------------------------------------------------
(* Properties.                                                             *)

\* A file under a content-addressed copy path holds that content: on both
\* sides, in every snapshot a pass works from and in every script under way
\* (session_union_copy_path, plan_session_union).
CopyIntegrity ==
    /\ CopiesIntact(store) /\ CopiesIntact(server)
    /\ \A p \in Proc : CopiesIntact(loc[p]) /\ CopiesIntact(rem[p])
    /\ \A s \in Slot : CopiesIntact(scripts[s])

InPass(p) == pc[p] \notin {"idle", "wait", "prepare"}

\* SYNC_LOCK is held by exactly the passes of the loop, of sync_room and of
\* import_remote_documents, and given back on every way out of them; the
\* passes of prepare_remote neither hold it nor wait for it.
SyncLockHeld ==
    \A p \in Proc : /\ lock = p <=> InPass(p) /\ op[p] # "prepare"
                    /\ pc[p] = "wait" => op[p] # "prepare"
                    /\ pc[p] = "prepare" => op[p] = "prepare"

\* No step of the application changes or removes a session record that
\* exists on either side: passes over stale snapshots, two passes at once,
\* scripts that run late.  Only agents do, and the loss of the directory.
RecordsImmutable ==
    [][ \/ AuthorStep
        \/ KeepsRecords(store, store') /\ KeepsRecords(server, server') ]_vars

\* From every reachable pair of sides one undisturbed pass leaves the same
\* contents on both, loses none and leaves nothing for the next one to do
\* (plan_session_union, applied create-only).
UnionPassSettles ==
    LET s == CreateOnly(store, DesiredLocal(store, server))
        t == CreateOnly(server, DesiredRemote(store, server))
    IN  /\ Records(s) = Records(store) \cup Records(server)
        /\ Records(t) = Records(s)
        /\ DesiredLocal(s, t) = {}
        /\ DesiredRemote(s, t) = {}

\* Once the agents stop, both sides end up with the same record contents,
\* whatever failed, was lost or arrived late (sync_remote_checkpoints).
RecordsConverge == <>[](Records(store) = Records(server))

\* The owner stops sending requests.
Quiet == <>[](\A p \in Request : pc[p] = "idle")

\* Once the authors and the requests stop, a server that has a context.md has
\* the owner's, in whatever order the detached writes arrive.
ContextConverges == Quiet => <>[](server[Context] \in {store[Context], None})

\* Once the authors and the requests stop, the server has the owner rules of
\* the store (upgrade_remote_instructions).
RulesConverge == Quiet => <>[](server[Rules] = store[Rules])

-----------------------------------------------------------------------------
(* What a comment says and the code does not do.                           *)

\* The versions of a document that can still be found.
Traces(d) == ({store[d], server[d]} \cup {v \in Version : <<d, v>> \in history}) \ {0, None}

\* The comment in sync_remote_checkpoints: the losing copy of context.md is
\* archived, "so no divergent version is ever lost without a trace".
NoContextLost ==
    [][AuthorStep \/ Traces(Context) \subseteq Traces(Context)']_vars
=============================================================================
