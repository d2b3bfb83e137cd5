------------------------------ MODULE Worktrees ------------------------------
(***************************************************************************)
(* The worktrees of one workspace: crates/worktree-manager, crates/        *)
(* workspace-manager and the container service that calls them             *)
(* (crates/local-deployment/src/container.rs).                             *)
(*                                                                         *)
(* A workspace directory holds one worktree per repository, each a         *)
(* directory and an entry in the repository's metadata.  Requests create   *)
(* or restore them before they start an execution; meanwhile expired,      *)
(* deleted and orphaned workspaces are cleaned up.  A lock per path keeps  *)
(* the steps on one worktree apart, nothing keeps the workspace's apart.   *)
(***************************************************************************)
EXTENDS Integers

CONSTANTS
    Repos,           \* number of repositories
    Request,         \* calls of create and ensure_container_exists at once
    Cleaner,         \* the cleanup task: orphans at startup, then expired workspaces
    Deleter,         \* delete_workspace
    MaxRequest, MaxFailure,
    MaxTime,         \* hours
    Limits,          \* hours until archived and other workspaces expire
    Offsets,         \* local time minus UTC, in hours
    None

Repo == 1 .. Repos
Remover == {Cleaner, Deleter}
Actor == Request \cup Remover

ASSUME WorktreeAssumption ==
    /\ Repos \in Nat \ {0} /\ MaxRequest \in Nat /\ MaxFailure \in Nat /\ MaxTime \in Nat
    /\ Limits \subseteq Nat /\ Offsets \subseteq Int
    /\ Remover \cap Request = {} /\ None \notin Actor

VARIABLES
    row,                 \* the record of the workspace
    limit, offset,       \* fixed
    now, completed,      \* the time; when an execution last completed, -1 if never
    running,             \* an execution of the workspace runs
    dir, tree, branch,   \* the workspace directory, worktrees and branches
    lock,                \* WORKTREE_CREATION_LOCKS
    pc, at, seen,        \* step, repository and what each actor has read of the row
    creates, undo,       \* requests that create, the others ensure; worktrees to roll back
    served, failures,
    disturbed,           \* requests during which something was removed
    unremoved            \* the cleanup task has failed to remove something

disk == <<dir, tree, branch>>
clock == <<now, completed, running>>
fixed == <<limit, offset>>
actors == <<pc, at, seen, creates, undo>>
vars == <<row, fixed, clock, disk, lock, actors, served, failures, disturbed,
          unremoved>>

Row == [exists : BOOLEAN, ref : BOOLEAN, deleted : BOOLEAN, touched : 0 .. MaxTime]
NoRow == [exists |-> FALSE, ref |-> FALSE, deleted |-> FALSE, touched |-> 0]
Look == [exists : BOOLEAN, ref : BOOLEAN, deleted : BOOLEAN]
Nothing == [exists |-> FALSE, ref |-> FALSE, deleted |-> FALSE]
Gone == [dir |-> FALSE, meta |-> FALSE]
Usable == [dir |-> TRUE, meta |-> TRUE]

TypeOK ==
    /\ row \in Row /\ limit \in Limits /\ offset \in Offsets
    /\ now \in 0 .. MaxTime /\ completed \in -1 .. MaxTime /\ running \in BOOLEAN
    /\ dir \in BOOLEAN /\ branch \in [Repo -> BOOLEAN]
    /\ tree \in [Repo -> [dir : BOOLEAN, meta : BOOLEAN]]
    /\ \A r \in Repo : tree[r].dir => dir
    /\ lock \in [Repo -> Actor \cup {None}]
    /\ pc \in [Actor -> {"idle", "touch", "branch", "make", "lock", "inspect", "clear",
                         "add", "ref", "flag", "ready", "scan", "delete", "rm_repos",
                         "rm_lock", "rm_clear", "rm_dir", "rm_end"}]
    /\ at \in [Actor -> Repo] /\ seen \in [Actor -> Look]
    /\ creates \subseteq Request /\ undo \in 0 .. Repos /\ disturbed \subseteq Request
    /\ served \in 0 .. MaxRequest /\ failures \in 0 .. MaxFailure /\ unremoved \in BOOLEAN

\* A new workspace, or one whose worktrees are there, were cleaned up, or whose
\* record is gone.
Init ==
    /\ row \in {NoRow} \cup [exists : {TRUE}, ref : BOOLEAN, deleted : BOOLEAN, touched : {0}]
    /\ row.deleted => row.ref
    /\ limit \in Limits /\ offset \in Offsets
    /\ now = 0 /\ running = FALSE
    /\ dir = (row.exists => row.ref /\ ~row.deleted)
    /\ completed \in IF row.ref THEN {-1, 0} ELSE {-1}
    /\ tree = [r \in Repo |-> IF dir THEN Usable ELSE Gone]
    /\ branch = [r \in Repo |-> row.ref \/ dir]
    /\ lock = [r \in Repo |-> None]
    /\ pc = [a \in Actor |-> IF a = Cleaner THEN "scan" ELSE "idle"]
    /\ at = [a \in Actor |-> 1] /\ seen = [a \in Actor |-> Nothing]
    /\ creates = {} /\ undo = 0 /\ disturbed = {}
    /\ served = 0 /\ failures = 0 /\ unremoved = FALSE

Fails == failures < MaxFailure /\ failures' = failures + 1
Works == UNCHANGED failures
\* Every update of the record sets its timestamp; a deleted one stays away.
Record(change) == row' = IF row.exists THEN [change EXCEPT !.touched = now] ELSE row
\* An actor starts with the row as it is; one that ends forgets what it has read.
Begin(a, l) ==
    /\ pc' = [pc EXCEPT ![a] = l]
    /\ seen' = [seen EXCEPT ![a] =
                   [exists |-> row.exists, ref |-> row.ref, deleted |-> row.deleted]]
Goto(a, l) ==
    /\ pc' = [pc EXCEPT ![a] = l]
    /\ seen' = IF l = "idle" THEN [seen EXCEPT ![a] = Nothing] ELSE seen
\* The next repository, or what follows the last one.
NextRepo(a, loop, after) ==
    IF at[a] < Repos THEN Goto(a, loop) /\ at' = [at EXCEPT ![a] = @ + 1]
    ELSE Goto(a, after) /\ at' = [at EXCEPT ![a] = 1]
Unlock(a) == lock' = [lock EXCEPT ![at[a]] = None]
\* A cleanup stopped half way leaves the directory, and perhaps no metadata.
HalfRemoved(r) == tree' \in {tree, [tree EXCEPT ![r].meta = FALSE]}
Disturb == disturbed' = disturbed \cup {a \in Request : pc[a] # "idle"}

-----------------------------------------------------------------------------
(* ensure_container_exists, and create for a new workspace.                *)

\* The request is given the row as it is now.
Arrive(a, creating) ==
    /\ pc[a] = "idle" /\ served < MaxRequest /\ row.exists
    /\ creating => ~row.ref /\ creates = {}
    /\ served' = served + 1
    /\ Begin(a, "touch")
    /\ creates' = IF creating THEN creates \cup {a} ELSE creates \ {a}
    /\ disturbed' = disturbed \ {a}
    /\ UNCHANGED <<row, fixed, clock, disk, lock, at, undo, failures, unremoved>>

\* The timestamp is renewed, unless the workspace is created, and the directory
\* made.  (Touches within minutes of each other are one: less than a tick.)
Touch(a) ==
    /\ pc[a] = "touch"
    /\ IF a \in creates THEN UNCHANGED row ELSE Record(row)
    /\ dir' = TRUE
    /\ Goto(a, IF a \in creates THEN "make" ELSE "branch")
    /\ UNCHANGED <<fixed, clock, tree, branch, lock, at, creates, undo, served, failures,
                   disturbed, unremoved>>

CheckBranch(a) ==
    /\ pc[a] = "branch"
    /\ Goto(a, IF branch[at[a]] THEN "lock" ELSE "make")
    /\ UNCHANGED <<row, fixed, clock, disk, lock, at, creates, undo, served, failures,
                   disturbed, unremoved>>

\* An error: a creation rolls back the worktrees before this one.
Abort(a) ==
    /\ undo' = IF a \in creates THEN at[a] - 1 ELSE undo
    /\ at' = [at EXCEPT ![a] = 1]
    /\ Goto(a, IF a \notin creates THEN "idle" ELSE IF at[a] = 1 THEN "rm_end" ELSE "rm_lock")

\* The branch must not exist yet.
MakeBranch(a) ==
    /\ pc[a] = "make"
    /\ \/ /\ ~branch[at[a]]
          /\ branch' = [branch EXCEPT ![at[a]] = TRUE]
          /\ Goto(a, "lock") /\ UNCHANGED <<at, undo>>
          /\ Works
       \/ /\ Abort(a)
          /\ IF branch[at[a]] THEN Works ELSE Fails
          /\ UNCHANGED branch
    /\ UNCHANGED <<row, fixed, clock, dir, tree, lock, creates, served, disturbed,
                   unremoved>>

\* Mutant: the lock is taken without waiting for its holder.
AcquireAnyway(a) ==
    /\ pc[a] \in {"lock", "rm_lock"}
    /\ lock' = [lock EXCEPT ![at[a]] = a]
    /\ Goto(a, IF pc[a] = "lock" THEN "inspect" ELSE "rm_clear")
    /\ UNCHANGED <<row, fixed, clock, disk, at, creates, undo, served, failures, disturbed,
                   unremoved>>

\* Mutant: a cleanup that holds the lock waits for it again.
AcquireTwice(a) ==
    /\ pc[a] \in {"lock", "rm_lock"} /\ lock[at[a]] = None
    /\ lock' = [lock EXCEPT ![at[a]] = a]
    /\ Goto(a, IF pc[a] = "lock" THEN "inspect" ELSE "rm_lock")
    /\ UNCHANGED <<row, fixed, clock, disk, at, creates, undo, served, failures, disturbed,
                   unremoved>>

\* A lock per path, made on first use and never dropped.
Acquire(a) ==
    /\ pc[a] \in {"lock", "rm_lock"} /\ lock[at[a]] = None
    /\ lock' = [lock EXCEPT ![at[a]] = a]
    /\ Goto(a, IF pc[a] = "lock" THEN "inspect" ELSE "rm_clear")
    /\ UNCHANGED <<row, fixed, clock, disk, at, creates, undo, served, failures, disturbed,
                   unremoved>>

\* Mutant: a directory is enough.
InspectDirectory(a) ==
    /\ pc[a] = "inspect"
    /\ \/ /\ tree[at[a]].dir
          /\ Unlock(a) /\ NextRepo(a, IF a \in creates THEN "make" ELSE "branch", "ref")
          /\ UNCHANGED undo
          /\ Works
       \/ /\ ~tree[at[a]].dir
          /\ Goto(a, "clear") /\ UNCHANGED <<lock, at, undo>>
          /\ Works
       \/ Fails /\ Abort(a) /\ Unlock(a)
    /\ UNCHANGED <<row, fixed, clock, disk, creates, served, disturbed, unremoved>>

\* is_worktree_properly_set_up, whose error ends the request.
Inspect(a) ==
    /\ pc[a] = "inspect"
    /\ \/ /\ tree[at[a]] = Usable
          /\ Unlock(a) /\ NextRepo(a, IF a \in creates THEN "make" ELSE "branch", "ref")
          /\ UNCHANGED undo
          /\ Works
       \/ /\ tree[at[a]] # Usable
          /\ Goto(a, "clear") /\ UNCHANGED <<lock, at, undo>>
          /\ Works
       \/ Fails /\ Abort(a) /\ Unlock(a)
    /\ UNCHANGED <<row, fixed, clock, disk, creates, served, disturbed, unremoved>>

\* Mutant: after an error the lock stays taken.
ClearOldLocked(a) ==
    /\ pc[a] = "clear"
    /\ UNCHANGED lock
    /\ \/ /\ Works
          /\ tree' = [tree EXCEPT ![at[a]] = Gone] /\ dir' = TRUE
          /\ Goto(a, "add") /\ UNCHANGED <<at, undo>>
       \/ Fails /\ Abort(a) /\ HalfRemoved(at[a]) /\ UNCHANGED dir
    /\ UNCHANGED <<row, fixed, clock, branch, creates, served, disturbed, unremoved>>

\* recreate_worktree_internal: what is left is removed, the directory made ...
ClearOld(a) ==
    /\ pc[a] = "clear"
    /\ \/ /\ Works
          /\ tree' = [tree EXCEPT ![at[a]] = Gone] /\ dir' = TRUE
          /\ Goto(a, "add") /\ UNCHANGED <<lock, at, undo>>
       \/ /\ Fails
          /\ Abort(a) /\ Unlock(a)
          /\ HalfRemoved(at[a]) /\ UNCHANGED dir
    /\ UNCHANGED <<row, fixed, clock, branch, creates, served, disturbed, unremoved>>

\* ... and git worktree add called, a second time after an error.
Add(a) ==
    /\ pc[a] = "add"
    /\ Unlock(a)
    /\ \/ /\ branch[at[a]]
          /\ tree' = [tree EXCEPT ![at[a]] = Usable] /\ dir' = TRUE
          /\ NextRepo(a, IF a \in creates THEN "make" ELSE "branch", "ref")
          /\ UNCHANGED undo
          /\ Works
       \/ /\ IF branch[at[a]] THEN Fails ELSE Works
          /\ Abort(a)
          /\ UNCHANGED <<dir, tree>>
    /\ UNCHANGED <<row, fixed, clock, branch, creates, served, disturbed, unremoved>>

\* A creation first copies files, and keeps its worktrees if that fails.
SetRef(a) ==
    /\ pc[a] = "ref"
    /\ \/ /\ IF seen[a].ref THEN UNCHANGED row ELSE Record([row EXCEPT !.ref = TRUE])
          /\ Goto(a, "flag")
          /\ Works
       \/ a \in creates /\ Fails /\ Goto(a, "idle") /\ UNCHANGED row
    /\ UNCHANGED <<fixed, clock, disk, lock, at, creates, undo, served, disturbed,
                   unremoved>>

\* The flag is cleared if it was set when the request arrived.
ClearFlag(a) ==
    /\ pc[a] = "flag"
    /\ IF seen[a].deleted /\ a \notin creates THEN Record([row EXCEPT !.deleted = FALSE])
       ELSE UNCHANGED row
    /\ Goto(a, "ready")
    /\ UNCHANGED <<fixed, clock, disk, lock, at, creates, undo, served, failures, disturbed,
                   unremoved>>

\* The caller starts an execution, or only needed the worktrees.
Use(a) ==
    /\ pc[a] = "ready"
    /\ running' \in {running, row.exists}
    /\ Goto(a, "idle")
    /\ UNCHANGED <<row, fixed, now, completed, disk, lock, at, creates, undo, served,
                   failures, disturbed, unremoved>>

RequestStep(a) ==
    \/ Touch(a) \/ CheckBranch(a) \/ MakeBranch(a) \/ Acquire(a) \/ Inspect(a)
    \/ ClearOld(a) \/ Add(a) \/ SetRef(a) \/ ClearFlag(a) \/ Use(a)

EndExecution ==
    /\ running
    /\ running' = FALSE /\ completed' = now
    /\ UNCHANGED <<row, fixed, now, disk, lock, actors, served, failures, disturbed,
                   unremoved>>

\* A request ends within the hour.
Tick ==
    /\ now < MaxTime /\ \A a \in Request : pc[a] = "idle"
    /\ now' = now + 1
    /\ UNCHANGED <<row, fixed, completed, running, disk, lock, actors, served, failures,
                   disturbed, unremoved>>

-----------------------------------------------------------------------------
(* Cleanup of expired, deleted and orphaned workspaces, and the rollback   *)
(* of a creation.                                                          *)

Later(x, y) == IF x > y THEN x ELSE y

\* find_expired_for_cleanup: the local time is compared with times in UTC, and the
\* maximum with a missing completion is NULL, which is never less.
Expired ==
    /\ completed # -1
    /\ now + offset - limit > Later(row.touched, completed)
Eligible == row.exists /\ row.ref /\ ~row.deleted /\ ~running /\ Expired

\* cleanup_orphan_workspaces: a directory that no record refers to.
ScanOrphans ==
    /\ pc[Cleaner] = "scan"
    /\ Goto(Cleaner, IF dir /\ ~row.ref THEN "rm_lock" ELSE "idle")
    /\ UNCHANGED <<row, fixed, clock, disk, lock, at, creates, undo, served, failures,
                   disturbed, unremoved>>
IsOrphan(a) == a = Cleaner /\ ~seen[a].exists

\* find_expired_for_cleanup
ListExpired ==
    /\ pc[Cleaner] = "idle" /\ Eligible
    /\ Begin(Cleaner, "rm_repos")
    /\ UNCHANGED <<row, fixed, clock, disk, lock, at, creates, undo, served, failures,
                   disturbed, unremoved>>

\* cleanup_workspace: a workspace deleted since it was listed has no repositories,
\* and one whose repositories cannot be read is taken to have none.
FindRepos ==
    /\ pc[Cleaner] = "rm_repos"
    /\ \/ row.exists /\ Goto(Cleaner, "rm_lock") /\ Works
       \/ Goto(Cleaner, "rm_dir") /\ IF row.exists THEN Fails ELSE Works
    /\ UNCHANGED <<row, fixed, clock, disk, lock, at, creates, undo, served, disturbed,
                   unremoved>>

\* delete_workspace is given the row as it is now ...
ArriveDelete ==
    /\ pc[Deleter] = "idle" /\ row.exists /\ ~running
    /\ Begin(Deleter, "delete")
    /\ UNCHANGED <<row, fixed, clock, disk, lock, at, creates, undo, served, failures,
                   disturbed, unremoved>>

\* ... deletes it, and then, if it had a container_ref, the worktrees.
DeleteRow ==
    /\ pc[Deleter] = "delete"
    /\ row' = NoRow
    /\ running' = FALSE /\ completed' = -1
    /\ Goto(Deleter, IF seen[Deleter].ref THEN "rm_lock" ELSE "rm_end")
    /\ UNCHANGED <<fixed, now, disk, lock, at, creates, undo, served, failures,
                   disturbed, unremoved>>

\* cleanup_worktree; an error is logged.  Those of an orphan are recognized by
\* their directory.
RemoveTree(a) ==
    LET r == at[a] IN
    /\ pc[a] = "rm_clear"
    /\ Unlock(a)
    /\ IF a \notin Request THEN NextRepo(a, "rm_lock", "rm_dir")
       ELSE IF r < undo THEN Goto(a, "rm_lock") /\ at' = [at EXCEPT ![a] = r + 1]
       ELSE Goto(a, "rm_end") /\ at' = [at EXCEPT ![a] = 1]
    /\ \/ /\ Works
          /\ tree' = IF IsOrphan(a) /\ ~tree[r].dir THEN tree ELSE [tree EXCEPT ![r] = Gone]
          /\ UNCHANGED unremoved
       \/ Fails /\ HalfRemoved(r) /\ unremoved' = (unremoved \/ a = Cleaner)
    /\ Disturb
    /\ UNCHANGED <<row, fixed, clock, dir, branch, creates, undo, served>>

\* Mutant: the directory is taken away under its worktrees.
RemoveDirectoryOnly(a) ==
    /\ pc[a] = "rm_dir"
    /\ dir' = FALSE
    /\ Disturb
    /\ Goto(a, "rm_end")
    /\ UNCHANGED <<row, fixed, clock, tree, branch, lock, at, creates, undo, served,
                   failures, unremoved>>

\* remove_dir_all of the workspace directory, without the locks; an error leaves
\* some of it.
RemoveDirectory(a) ==
    /\ pc[a] = "rm_dir"
    /\ \/ /\ Works
          /\ dir' = FALSE
          /\ tree' = [r \in Repo |-> [tree[r] EXCEPT !.dir = FALSE]]
          /\ UNCHANGED unremoved
       \/ /\ Fails
          /\ unremoved' = (unremoved \/ a = Cleaner)
          /\ \E left \in SUBSET Repo :
                tree' = [r \in Repo |-> [tree[r] EXCEPT !.dir = @ /\ r \in left]]
          /\ UNCHANGED dir
    /\ Disturb
    /\ Goto(a, "rm_end")
    /\ UNCHANGED <<row, fixed, clock, branch, lock, at, creates, undo, served>>

\* mark_worktree_deleted, whose error is dropped; the branches of a deleted workspace,
\* unless they are checked out; the directory of a creation, if it is empty.
EndRemoval(a) ==
    /\ pc[a] = "rm_end"
    /\ \/ /\ IF a = Cleaner /\ ~IsOrphan(a) THEN Record([row EXCEPT !.deleted = TRUE])
             ELSE UNCHANGED row
          /\ Works
       \/ a = Cleaner /\ ~IsOrphan(a) /\ Fails /\ UNCHANGED row
    /\ branch' \in IF a = Deleter THEN {branch, [r \in Repo |-> branch[r] /\ tree[r].meta]}
                   ELSE {branch}
    /\ dir' = IF a \in Request THEN (\E r \in Repo : tree[r].dir) ELSE dir
    /\ undo' = IF a \in Request THEN 0 ELSE undo
    /\ Goto(a, "idle")
    /\ UNCHANGED <<fixed, clock, tree, lock, at, creates, served, disturbed,
                   unremoved>>

RemovalStep(a) == RemoveTree(a) \/ RemoveDirectory(a) \/ EndRemoval(a)

Next ==
    \/ \E a \in Request :
        RequestStep(a) \/ \E creating \in BOOLEAN : Arrive(a, creating)
    \/ \E a \in Remover : Acquire(a)
    \/ \E a \in Actor : RemovalStep(a)
    \/ ScanOrphans \/ ListExpired \/ FindRepos \/ ArriveDelete \/ DeleteRow
    \/ EndExecution \/ Tick

Spec == Init /\ [][Next]_vars

\* Tasks go on, a lock is handed to those who wait in turn, and the periodic
\* cleanup comes round.
FairSpec ==
    /\ Spec
    /\ \A a \in Request : WF_vars(RequestStep(a) \/ RemovalStep(a)) /\ SF_vars(Acquire(a))
    /\ \A a \in Remover : WF_vars(RemovalStep(a)) /\ SF_vars(Acquire(a))
    /\ WF_vars(ScanOrphans \/ ListExpired \/ FindRepos) /\ WF_vars(DeleteRow)

-----------------------------------------------------------------------------
(* Properties.                                                             *)

\* Making sure that worktrees exist never destroys one that is usable, with work
\* in it that is not committed: of two requests at once the second sees what the
\* first has made, and only a cleanup or a rollback removes it.
EnsureKeepsWork ==
    [][\A r \in Repo : tree[r] = Usable /\ tree'[r] # Usable =>
          \E a \in Actor : pc[a] \in {"rm_clear", "rm_dir"} /\ pc'[a] # pc[a]]_vars

\* A request that got through has every worktree, directory and metadata, unless
\* something was removed meanwhile: whatever requests ran beside it, with branches
\* missing, worktrees half there and errors of theirs.
ReadyHasTrees ==
    \A a \in Request :
        pc[a] \in {"ref", "flag", "ready"} /\ a \notin disturbed
            => \A r \in Repo : tree[r] = Usable

\* Every request ends: no error leaves a path locked.
RequestEnds == \A a \in Request : pc[a] # "idle" ~> pc[a] = "idle"

\* The disk is reclaimed: the worktrees of an expired workspace go, unless it is
\* used or deleted, or the cleanup task itself fails to remove something.
ExpiredCleaned ==
    Eligible ~> \/ \A r \in Repo : ~tree[r].dir
                \/ running \/ ~row.exists \/ unremoved
                \/ \E a \in Request : pc[a] # "idle"

\* "Uses accelerated cleanup (1 hour) for archived workspaces. Uses standard
\* cleanup (72 hours) for non-archived workspaces": none is cleaned up earlier.
CleanedWhenOld ==
    [][pc[Cleaner] = "idle" /\ pc'[Cleaner] = "rm_repos" =>
           now - Later(row.touched, completed) >= limit]_vars
=============================================================================
