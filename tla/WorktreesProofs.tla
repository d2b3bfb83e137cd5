-------------------------- MODULE WorktreesProofs --------------------------
(***************************************************************************)
(* Worktrees: the locks keep the steps on one worktree apart, so making    *)
(* sure that worktrees exist never destroys one.                           *)
(***************************************************************************)
EXTENDS Worktrees, TLAPS

-----------------------------------------------------------------------------
(* The type invariant.                                                     *)

Step == {"idle", "touch", "branch", "make", "lock", "inspect", "clear",
         "add", "ref", "flag", "ready", "scan", "delete", "rm_repos",
         "rm_lock", "rm_clear", "rm_dir", "rm_end"}

\* An update of the record gives a record.
LEMMA RecordType ==
    ASSUME row \in Row, now \in 0 .. MaxTime, NEW change \in Row, Record(change)
    PROVE  row' \in Row
BY DEF Record, Row

\* Moving on keeps the types of the step and of what was read of the row.
LEMMA GotoType ==
    ASSUME pc \in [Actor -> Step], seen \in [Actor -> Look],
           NEW a \in Actor, NEW l \in Step, Goto(a, l)
    PROVE  pc' \in [Actor -> Step] /\ seen' \in [Actor -> Look]
<1>1. Nothing \in Look
  BY DEF Nothing, Look
<1> QED BY <1>1 DEF Goto

\* And so does starting.
LEMMA BeginType ==
    ASSUME pc \in [Actor -> Step], seen \in [Actor -> Look], row \in Row,
           NEW a \in Actor, NEW l \in Step, Begin(a, l)
    PROVE  pc' \in [Actor -> Step] /\ seen' \in [Actor -> Look]
<1>1. [exists |-> row.exists, ref |-> row.ref, deleted |-> row.deleted] \in Look
  BY DEF Row, Look
<1> QED BY <1>1 DEF Begin

\* So does going on to the next repository ...
LEMMA NextRepoType ==
    ASSUME pc \in [Actor -> Step], seen \in [Actor -> Look], at \in [Actor -> Repo],
           NEW a \in Actor, NEW l \in Step, NEW m \in Step, NextRepo(a, l, m)
    PROVE  /\ pc' \in [Actor -> Step] /\ seen' \in [Actor -> Look]
           /\ at' \in [Actor -> Repo]
<1>1. pc' \in [Actor -> Step] /\ seen' \in [Actor -> Look]
  BY GotoType DEF NextRepo
<1>2. at' \in [Actor -> Repo]
  BY WorktreeAssumption DEF NextRepo, Repo
<1> QED BY <1>1, <1>2

\* ... and giving up after an error.
LEMMA AbortType ==
    ASSUME pc \in [Actor -> Step], seen \in [Actor -> Look], at \in [Actor -> Repo],
           undo \in 0 .. Repos, NEW a \in Actor, Abort(a)
    PROVE  /\ pc' \in [Actor -> Step] /\ seen' \in [Actor -> Look]
           /\ at' \in [Actor -> Repo] /\ undo' \in 0 .. Repos
<1>1. pc' \in [Actor -> Step] /\ seen' \in [Actor -> Look]
  <2>1. "idle" \in Step /\ "rm_end" \in Step /\ "rm_lock" \in Step
    BY DEF Step
  <2> QED BY <2>1, GotoType DEF Abort
<1>2. at' \in [Actor -> Repo] /\ undo' \in 0 .. Repos
  BY WorktreeAssumption DEF Abort, Repo
<1> QED BY <1>1, <1>2

\* No completion, or one at a time.
LEMMA NoCompletion == -1 \in -1 .. MaxTime /\ \A t \in 0 .. MaxTime : t \in -1 .. MaxTime
BY WorktreeAssumption

\* A worktree, directory and metadata, with one of them changed.
LEMMA TreeType ==
    ASSUME NEW t \in [dir : BOOLEAN, meta : BOOLEAN], NEW b \in BOOLEAN
    PROVE  /\ [t EXCEPT !.dir = b] \in [dir : BOOLEAN, meta : BOOLEAN]
           /\ [t EXCEPT !.meta = b] \in [dir : BOOLEAN, meta : BOOLEAN]
           /\ [t EXCEPT !.dir = b].dir = b /\ [t EXCEPT !.meta = b].dir = t.dir
OBVIOUS

\* A cleanup cut short leaves trees, no directory more than there were.
LEMMA HalfRemovedType ==
    ASSUME tree \in [Repo -> [dir : BOOLEAN, meta : BOOLEAN]],
           NEW r \in Repo, HalfRemoved(r)
    PROVE  /\ tree' \in [Repo -> [dir : BOOLEAN, meta : BOOLEAN]]
           /\ \A q \in Repo : tree'[q].dir = tree[q].dir
<1> DEFINE t == [tree[r] EXCEPT !.meta = FALSE]
<1>1. t \in [dir : BOOLEAN, meta : BOOLEAN] /\ t.dir = tree[r].dir
  <2>1. tree[r] \in [dir : BOOLEAN, meta : BOOLEAN] /\ FALSE \in BOOLEAN
    OBVIOUS
  <2> QED BY <2>1, TreeType, Zenon
<1>2. tree' = tree \/ tree' = [tree EXCEPT ![r] = t]
  BY DEF HalfRemoved
<1> HIDE DEF t
<1> QED BY <1>1, <1>2

\* A workspace directory removed, or some of it, leaves trees.
LEMMA DirectoryType ==
    ASSUME tree \in [Repo -> [dir : BOOLEAN, meta : BOOLEAN]],
           NEW left \in SUBSET Repo,
           tree' = [r \in Repo |-> [tree[r] EXCEPT !.dir = @ /\ r \in left]]
    PROVE  /\ tree' \in [Repo -> [dir : BOOLEAN, meta : BOOLEAN]]
           /\ \A r \in Repo : tree'[r].dir => tree[r].dir /\ r \in left
<1>1. ASSUME NEW r \in Repo
      PROVE  tree'[r] \in [dir : BOOLEAN, meta : BOOLEAN] /\ (tree'[r].dir => tree[r].dir /\ r \in left)
  <2> DEFINE b == tree[r].dir /\ r \in left
  <2>1. tree[r] \in [dir : BOOLEAN, meta : BOOLEAN] /\ b \in BOOLEAN
    OBVIOUS
  <2>2. tree'[r] = [tree[r] EXCEPT !.dir = b]
    OBVIOUS
  <2> HIDE DEF b
  <2>3. tree'[r] \in [dir : BOOLEAN, meta : BOOLEAN] /\ tree'[r].dir = b
    BY <2>1, <2>2, TreeType
  <2> QED BY <2>3 DEF b
<1> QED BY <1>1

\* Every step of a request keeps the types.
LEMMA RequestType ==
    ASSUME TypeOK, NEW a \in Request,
           RequestStep(a) \/ \E creating \in BOOLEAN : Arrive(a, creating)
    PROVE  TypeOK'
<1> USE WorktreeAssumption DEF TypeOK
<1>0. a \in Actor /\ Gone \in [dir : BOOLEAN, meta : BOOLEAN]
      /\ Usable \in [dir : BOOLEAN, meta : BOOLEAN] /\ ~Gone.dir
  BY DEF Actor, Gone, Usable
<1>1. pc \in [Actor -> Step] /\ at \in [Actor -> Repo]
  BY DEF Step
<1>2. at[a] \in Repo
  BY <1>0
<1>3. CASE \E creating \in BOOLEAN : Arrive(a, creating)
  <2>1. pc' \in [Actor -> Step] /\ seen' \in [Actor -> Look]
    BY <1>0, <1>1, <1>3, BeginType DEF Arrive, Step
  <2> QED BY <1>0, <1>3, <2>1 DEF Arrive, fixed, clock, disk, Step
<1>4. CASE Touch(a)
  <2>1. row' \in Row
    BY <1>4, RecordType DEF Touch
  <2>2. pc' \in [Actor -> Step] /\ seen' \in [Actor -> Look]
    BY <1>0, <1>1, <1>4, GotoType DEF Touch, Step
  <2> QED BY <1>4, <2>1, <2>2 DEF Touch, fixed, clock, Step
<1>5. CASE CheckBranch(a)
  BY <1>0, <1>1, <1>5, GotoType DEF CheckBranch, Step, fixed, clock, disk
<1>6. CASE MakeBranch(a)
  <2>1. pc' \in [Actor -> Step] /\ seen' \in [Actor -> Look]
        /\ at' \in [Actor -> Repo] /\ undo' \in 0 .. Repos
    BY <1>0, <1>1, <1>6, GotoType, AbortType DEF MakeBranch, Step
  <2>2. branch' \in [Repo -> BOOLEAN]
    BY <1>2, <1>6, Zenon DEF MakeBranch
  <2>3. failures' \in 0 .. MaxFailure
    BY <1>6 DEF MakeBranch, Works, Fails
  <2> QED BY <1>6, <2>1, <2>2, <2>3 DEF MakeBranch, fixed, clock, Step
<1>7. CASE Acquire(a)
  <2>1. pc' \in [Actor -> Step] /\ seen' \in [Actor -> Look]
    BY <1>0, <1>1, <1>7, GotoType DEF Acquire, Step
  <2> QED BY <1>0, <1>2, <1>7, <2>1 DEF Acquire, fixed, clock, disk, Step
<1>8. CASE Inspect(a)
  <2>1. pc' \in [Actor -> Step] /\ seen' \in [Actor -> Look]
        /\ at' \in [Actor -> Repo] /\ undo' \in 0 .. Repos
    BY <1>0, <1>1, <1>8, GotoType, NextRepoType, AbortType DEF Inspect, Step
  <2>2. lock' \in [Repo -> Actor \cup {None}] /\ failures' \in 0 .. MaxFailure
    BY <1>2, <1>8 DEF Inspect, Works, Fails, Unlock
  <2> QED BY <1>8, <2>1, <2>2 DEF Inspect, fixed, clock, disk, Step
<1>9. CASE ClearOld(a)
  <2>1. pc' \in [Actor -> Step] /\ seen' \in [Actor -> Look]
        /\ at' \in [Actor -> Repo] /\ undo' \in 0 .. Repos
    BY <1>0, <1>1, <1>9, GotoType, AbortType DEF ClearOld, Step
  <2>2. /\ tree' \in [Repo -> [dir : BOOLEAN, meta : BOOLEAN]] /\ dir' \in BOOLEAN
        /\ \A r \in Repo : tree'[r].dir => dir'
    <3>1. CASE tree' = [tree EXCEPT ![at[a]] = Gone] /\ dir' = TRUE
      BY <1>0, <1>2, <3>1
    <3>2. CASE HalfRemoved(at[a]) /\ UNCHANGED dir
      BY <1>2, <3>2, HalfRemovedType
    <3> QED BY <1>9, <3>1, <3>2 DEF ClearOld
  <2>3. lock' \in [Repo -> Actor \cup {None}] /\ failures' \in 0 .. MaxFailure
    BY <1>2, <1>9 DEF ClearOld, Works, Fails, Unlock
  <2> QED BY <1>9, <2>1, <2>2, <2>3 DEF ClearOld, fixed, clock, Step
<1>10. CASE Add(a)
  <2>1. pc' \in [Actor -> Step] /\ seen' \in [Actor -> Look]
        /\ at' \in [Actor -> Repo] /\ undo' \in 0 .. Repos
    BY <1>0, <1>1, <1>10, NextRepoType, AbortType DEF Add, Step
  <2>2. /\ tree' \in [Repo -> [dir : BOOLEAN, meta : BOOLEAN]] /\ dir' \in BOOLEAN
        /\ \A r \in Repo : tree'[r].dir => dir'
    <3>1. CASE tree' = [tree EXCEPT ![at[a]] = Usable] /\ dir' = TRUE
      BY <1>0, <1>2, <3>1
    <3>2. CASE UNCHANGED <<dir, tree>>
      BY <3>2
    <3> QED BY <1>10, <3>1, <3>2 DEF Add
  <2>3. lock' \in [Repo -> Actor \cup {None}] /\ failures' \in 0 .. MaxFailure
    BY <1>2, <1>10 DEF Add, Works, Fails, Unlock
  <2> QED BY <1>10, <2>1, <2>2, <2>3 DEF Add, fixed, clock, Step
<1>11. CASE SetRef(a) \/ ClearFlag(a)
  <2>1. pc' \in [Actor -> Step] /\ seen' \in [Actor -> Look]
    BY <1>0, <1>1, <1>11, GotoType DEF SetRef, ClearFlag, Step
  <2>2. [row EXCEPT !.ref = TRUE] \in Row /\ [row EXCEPT !.deleted = FALSE] \in Row
    BY DEF Row
  <2>3. row' \in Row /\ failures' \in 0 .. MaxFailure
    BY <1>11, <2>2, RecordType DEF SetRef, ClearFlag, Works, Fails
  <2> QED BY <1>11, <2>1, <2>3 DEF SetRef, ClearFlag, fixed, clock, disk, Step
<1>12. CASE Use(a)
  <2>1. pc' \in [Actor -> Step] /\ seen' \in [Actor -> Look]
    BY <1>0, <1>1, <1>12, GotoType DEF Use, Step
  <2>2. running' \in BOOLEAN
    BY <1>12 DEF Use, Row
  <2> QED BY <1>12, <2>1, <2>2 DEF Use, fixed, disk, Step
<1> QED BY <1>3, <1>4, <1>5, <1>6, <1>7, <1>8, <1>9, <1>10, <1>11, <1>12 DEF RequestStep

\* Every step of a removal keeps the types.
LEMMA RemovalType ==
    ASSUME TypeOK, NEW a \in Actor, RemovalStep(a)
    PROVE  TypeOK'
<1> USE WorktreeAssumption DEF TypeOK
<1>0. Gone \in [dir : BOOLEAN, meta : BOOLEAN] /\ ~Gone.dir
  BY DEF Gone
<1>1. pc \in [Actor -> Step] /\ at \in [Actor -> Repo]
  BY DEF Step
<1>2. at[a] \in Repo
  BY <1>1
<1>3. Disturb => disturbed' \subseteq Request
  BY DEF Disturb
<1>4. CASE RemoveTree(a)
  <2>0. "rm_lock" \in Step /\ "rm_dir" \in Step /\ "rm_end" \in Step
    BY DEF Step
  <2>4. tree' \in [Repo -> [dir : BOOLEAN, meta : BOOLEAN]]
        /\ \A r \in Repo : tree'[r].dir => dir
    <3>1. CASE tree' = tree
      BY <3>1
    <3>2. CASE tree' = [tree EXCEPT ![at[a]] = Gone]
      BY <1>0, <1>2, <3>2
    <3>3. CASE HalfRemoved(at[a])
      BY <1>2, <3>3, HalfRemovedType
    <3> QED BY <1>4, <3>1, <3>2, <3>3 DEF RemoveTree
  <2>5. lock' \in [Repo -> Actor \cup {None}] /\ failures' \in 0 .. MaxFailure
    BY <1>2, <1>4 DEF RemoveTree, Works, Fails, Unlock
  <2>6. pc' \in [Actor -> Step] /\ seen' \in [Actor -> Look] /\ at' \in [Actor -> Repo]
    <3>0. 1 \in Repo
      BY DEF Repo
    <3>1. CASE NextRepo(a, "rm_lock", "rm_dir")
      BY <1>1, <2>0, <3>1, NextRepoType
    <3>2. CASE at[a] < undo /\ Goto(a, "rm_lock") /\ at' = [at EXCEPT ![a] = at[a] + 1]
      <4>1. at[a] + 1 \in Repo
        BY <1>2, <3>2 DEF Repo
      <4> QED BY <1>1, <2>0, <3>2, <4>1, GotoType
    <3>3. CASE Goto(a, "rm_end") /\ at' = [at EXCEPT ![a] = 1]
      BY <1>1, <2>0, <3>0, <3>3, GotoType
    <3> QED BY <1>4, <3>1, <3>2, <3>3, Zenon DEF RemoveTree
  <2>7. unremoved' \in BOOLEAN
    BY <1>4 DEF RemoveTree
  <2> QED BY <1>3, <1>4, <2>4, <2>5, <2>6, <2>7 DEF RemoveTree, fixed, clock, Step
<1>5. CASE RemoveDirectory(a)
  <2>1. pc' \in [Actor -> Step] /\ seen' \in [Actor -> Look]
    BY <1>1, <1>5, GotoType DEF RemoveDirectory, Step
  <2>2. /\ tree' \in [Repo -> [dir : BOOLEAN, meta : BOOLEAN]] /\ dir' \in BOOLEAN
        /\ \A r \in Repo : tree'[r].dir => dir'
    <3>1. CASE dir' = FALSE /\ tree' = [r \in Repo |-> [tree[r] EXCEPT !.dir = FALSE]]
      <4>1. tree' = [r \in Repo |-> [tree[r] EXCEPT !.dir = @ /\ r \in {}]]
        BY <3>1
      <4> QED BY <3>1, <4>1, DirectoryType
    <3>2. ASSUME NEW left \in SUBSET Repo, UNCHANGED dir,
                 tree' = [r \in Repo |-> [tree[r] EXCEPT !.dir = @ /\ r \in left]]
          PROVE  /\ tree' \in [Repo -> [dir : BOOLEAN, meta : BOOLEAN]] /\ dir' \in BOOLEAN
                 /\ \A r \in Repo : tree'[r].dir => dir'
      BY <3>2, DirectoryType
    <3> QED BY <1>5, <3>1, <3>2 DEF RemoveDirectory
  <2>3. failures' \in 0 .. MaxFailure
    BY <1>5 DEF RemoveDirectory, Works, Fails
  <2>4. unremoved' \in BOOLEAN
    BY <1>5 DEF RemoveDirectory
  <2> QED BY <1>3, <1>5, <2>1, <2>2, <2>3, <2>4 DEF RemoveDirectory, fixed, clock, Step
<1>6. CASE EndRemoval(a)
  <2>1. pc' \in [Actor -> Step] /\ seen' \in [Actor -> Look]
    BY <1>1, <1>6, GotoType DEF EndRemoval, Step
  <2>2. [row EXCEPT !.deleted = TRUE] \in Row
    BY DEF Row
  <2>3. row' \in Row /\ undo' \in 0 .. Repos /\ failures' \in 0 .. MaxFailure
    BY <1>6, <2>2, RecordType DEF EndRemoval, Works, Fails
  <2>4. branch' \in [Repo -> BOOLEAN]
    BY <1>6 DEF EndRemoval
  <2>5. dir' \in BOOLEAN /\ \A r \in Repo : tree[r].dir => dir'
    BY <1>6 DEF EndRemoval
  <2> QED BY <1>6, <2>1, <2>3, <2>4, <2>5 DEF EndRemoval, fixed, clock, Step
<1> QED BY <1>4, <1>5, <1>6 DEF RemovalStep

\* The other steps of the cleanup, of delete_workspace and of the environment
\* keep the types.
LEMMA OtherType ==
    ASSUME TypeOK,
           \/ \E a \in Remover : Acquire(a)
           \/ ScanOrphans \/ ListExpired \/ FindRepos \/ ArriveDelete \/ DeleteRow
           \/ EndExecution \/ Tick
    PROVE  TypeOK'
<1> USE WorktreeAssumption DEF TypeOK
<1>0. Cleaner \in Actor /\ Deleter \in Actor /\ Remover \subseteq Actor
  BY DEF Actor, Remover
<1>1. pc \in [Actor -> Step] /\ at \in [Actor -> Repo]
  BY DEF Step
<1>2. NoRow \in Row
  BY DEF NoRow, Row
<1>3. ASSUME NEW a \in Remover, Acquire(a) PROVE TypeOK'
  <2>1. pc' \in [Actor -> Step] /\ seen' \in [Actor -> Look]
    BY <1>0, <1>1, <1>3, GotoType DEF Acquire, Step
  <2> QED BY <1>0, <1>1, <1>3, <2>1 DEF Acquire, fixed, clock, disk, Step
<1>4. CASE ScanOrphans
  BY <1>0, <1>1, <1>4, GotoType DEF ScanOrphans, fixed, clock, disk, Step
<1>5. CASE ListExpired
  BY <1>0, <1>1, <1>5, BeginType DEF ListExpired, fixed, clock, disk, Step
<1>6. CASE FindRepos
  <2>1. pc' \in [Actor -> Step] /\ seen' \in [Actor -> Look]
    BY <1>0, <1>1, <1>6, GotoType DEF FindRepos, Step
  <2>2. failures' \in 0 .. MaxFailure
    BY <1>6 DEF FindRepos, Works, Fails
  <2> QED BY <1>6, <2>1, <2>2 DEF FindRepos, fixed, clock, disk, Step
<1>7. CASE ArriveDelete
  BY <1>0, <1>1, <1>7, BeginType DEF ArriveDelete, fixed, clock, disk, Step
<1>8. CASE DeleteRow
  <2>1. pc' \in [Actor -> Step] /\ seen' \in [Actor -> Look]
    BY <1>0, <1>1, <1>8, GotoType DEF DeleteRow, Step
  <2>2. row' \in Row /\ running' \in BOOLEAN /\ completed' \in -1 .. MaxTime
    BY <1>2, <1>8, NoCompletion, Zenon DEF DeleteRow
  <2> QED BY <1>8, <2>1, <2>2 DEF DeleteRow, fixed, disk, Step
<1>9. CASE EndExecution
  <2>1. running' \in BOOLEAN /\ completed' \in -1 .. MaxTime
    BY <1>9, NoCompletion, Zenon DEF EndExecution
  <2> QED BY <1>9, <2>1 DEF EndExecution, fixed, disk, actors
<1>10. CASE Tick
  BY <1>10 DEF Tick, fixed, disk, actors
<1> QED BY <1>3, <1>4, <1>5, <1>6, <1>7, <1>8, <1>9, <1>10

\* The types hold at the start.
LEMMA InitType == Init => TypeOK
<1> SUFFICES ASSUME Init PROVE TypeOK
  OBVIOUS
<1>1. row \in Row /\ NoRow \in Row
  <2>1. 0 \in 0 .. MaxTime
    BY WorktreeAssumption
  <2>2. NoRow \in Row
    BY <2>1 DEF Row, NoRow
  <2>3. [exists : {TRUE}, ref : BOOLEAN, deleted : BOOLEAN, touched : {0}] \subseteq Row
    BY <2>1 DEF Row
  <2> QED BY <2>2, <2>3 DEF Init
<1>2. dir \in BOOLEAN
  BY DEF Init
<1>3. tree \in [Repo -> [dir : BOOLEAN, meta : BOOLEAN]] /\ \A r \in Repo : tree[r].dir => dir
  BY <1>2 DEF Init, Gone, Usable
<1>4. 1 \in Repo
  BY WorktreeAssumption DEF Repo
<1>5. branch \in [Repo -> BOOLEAN]
  BY <1>1, <1>2 DEF Init, Row
<1>6. /\ now \in 0 .. MaxTime /\ completed \in -1 .. MaxTime /\ undo \in 0 .. Repos
      /\ served \in 0 .. MaxRequest /\ failures \in 0 .. MaxFailure
  BY WorktreeAssumption, NoCompletion DEF Init
<1>7. pc \in [Actor -> Step] /\ seen \in [Actor -> Look]
  BY DEF Init, Step, Nothing, Look
<1> QED BY <1>1, <1>2, <1>3, <1>4, <1>5, <1>6, <1>7 DEF Init, TypeOK, Step

\* No step leaves the types.
LEMMA NextType == TypeOK /\ [Next]_vars => TypeOK'
<1> SUFFICES ASSUME TypeOK, [Next]_vars PROVE TypeOK'
  OBVIOUS
<1>1. CASE UNCHANGED vars
  BY <1>1 DEF TypeOK, vars, fixed, clock, disk, actors
<1>2. CASE Next
  BY <1>2, RequestType, RemovalType, OtherType DEF Next
<1> QED BY <1>1, <1>2

\* The types hold in every state.
THEOREM Types == Spec => []TypeOK
BY InitType, NextType, PTL DEF Spec

-----------------------------------------------------------------------------
(* What the locks protect.                                                 *)

\* The steps that happen with the lock of a path.
Holding == {"inspect", "clear", "add", "rm_clear"}
\* The steps of a request on its way through the repositories, and past them.
OnTheWay == {"branch", "make", "lock", "inspect", "clear", "add"}
Through == {"ref", "flag", "ready"}

\* An actor inside holds the lock of its path.
LockHeld == \A a \in Actor : pc[a] \in Holding => lock[at[a]] = a
\* What a request is about to clear away is still not usable.
Condemned == \A a \in Actor : pc[a] = "clear" => tree[at[a]] # Usable
\* A walk through the repositories starts at the first one.
StartsFirst ==
    \A a \in Actor : pc[a] \notin OnTheWay \cup {"rm_lock", "rm_clear"} => at[a] = 1
\* The worktrees a request has been through are usable, until something is removed.
Walked ==
    \A a \in Request \ disturbed : \A r \in Repo :
        \/ pc[a] \in OnTheWay /\ r < at[a]
        \/ pc[a] \in Through
        => tree[r] = Usable

WorktreeInv == TypeOK /\ LockHeld /\ Condemned /\ StartsFirst /\ Walked

\* A step of one actor.
Moves(a) ==
    \/ a \in Request /\ (RequestStep(a) \/ \E creating \in BOOLEAN : Arrive(a, creating))
    \/ Acquire(a) \/ RemovalStep(a)
    \/ a = Cleaner /\ (ScanOrphans \/ ListExpired \/ FindRepos)
    \/ a = Deleter /\ (ArriveDelete \/ DeleteRow)

\* Where the others are, and the locks they hold, are as they were.
OthersStay(a) == \A b \in Actor \ {a} : pc'[b] = pc[b] /\ at'[b] = at[b]
OwnLocks(a) ==
    /\ pc'[a] \in Holding => lock'[at'[a]] = a
    /\ \A r \in Repo : lock'[r] # lock[r] => lock[r] \in {None, a}

\* Every step of the system is a step of one actor, or of the environment.
LEMMA NextMoves ==
    ASSUME Next
    PROVE  (\E a \in Actor : Moves(a)) \/ EndExecution \/ Tick
<1>1. Cleaner \in Actor /\ Deleter \in Actor /\ Remover \subseteq Actor /\ Request \subseteq Actor
  BY DEF Actor, Remover
<1> QED BY <1>1 DEF Next, Moves

\* No step moves another actor.
LEMMA MoveStays ==
    ASSUME TypeOK, NEW a \in Actor, Moves(a)
    PROVE  OthersStay(a)
<1> USE DEF TypeOK, OthersStay
<1>1. \A l : Goto(a, l) => \A b \in Actor \ {a} : pc'[b] = pc[b]
  BY DEF Goto
<1>2. \A l, m : NextRepo(a, l, m) => OthersStay(a)
  BY <1>1 DEF NextRepo
<1>3. Abort(a) => OthersStay(a)
  BY <1>1 DEF Abort
<1>4. CASE Touch(a) \/ CheckBranch(a) \/ SetRef(a) \/ ClearFlag(a) \/ Use(a) \/ Acquire(a)
  BY <1>1, <1>4 DEF Touch, CheckBranch, SetRef, ClearFlag, Use, Acquire
<1>5. CASE MakeBranch(a)
  BY <1>1, <1>3, <1>5 DEF MakeBranch
<1>6. CASE Inspect(a)
  BY <1>1, <1>2, <1>3, <1>6 DEF Inspect
<1>7. CASE ClearOld(a)
  BY <1>1, <1>3, <1>7 DEF ClearOld
<1>8. CASE Add(a)
  BY <1>2, <1>3, <1>8 DEF Add
<1>9. CASE \E creating \in BOOLEAN : Arrive(a, creating)
  BY <1>9 DEF Arrive, Begin
<1>10. CASE RemoveTree(a)
  <2>1. at' = [at EXCEPT ![a] = at[a] + 1] \/ at' = [at EXCEPT ![a] = 1]
        => \A b \in Actor \ {a} : at'[b] = at[b]
    OBVIOUS
  <2> QED BY <1>1, <1>2, <1>10, <2>1, Zenon DEF RemoveTree
<1>11. CASE RemoveDirectory(a) \/ EndRemoval(a)
  BY <1>1, <1>11 DEF RemoveDirectory, EndRemoval
<1>12. CASE a = Cleaner /\ (ScanOrphans \/ ListExpired \/ FindRepos)
  BY <1>1, <1>12 DEF ScanOrphans, ListExpired, FindRepos, Begin
<1>13. CASE a = Deleter /\ (ArriveDelete \/ DeleteRow)
  BY <1>1, <1>13 DEF ArriveDelete, DeleteRow, Begin
<1> QED BY <1>4, <1>5, <1>6, <1>7, <1>8, <1>9, <1>10, <1>11, <1>12, <1>13
        DEF Moves, RequestStep, RemovalStep

\* Where a step leads the actor that takes it.
LEMMA GotoPlace ==
    ASSUME TypeOK, NEW a \in Actor, NEW l, Goto(a, l)
    PROVE  pc'[a] = l
BY DEF TypeOK, Goto

\* The next repository, or the end of the walk.
LEMMA NextRepoPlace ==
    ASSUME TypeOK, NEW a \in Actor, NEW l, NEW m, NextRepo(a, l, m)
    PROVE  \/ pc'[a] = l /\ at'[a] = at[a] + 1
           \/ pc'[a] = m /\ at'[a] = 1 /\ at[a] = Repos
<1>1. CASE at[a] < Repos
  BY <1>1, GotoPlace DEF TypeOK, NextRepo
<1>2. CASE ~(at[a] < Repos)
  <2>1. at[a] = Repos
    BY <1>2, WorktreeAssumption DEF TypeOK, Repo
  <2> QED BY <1>2, <2>1, GotoPlace DEF TypeOK, NextRepo
<1> QED BY <1>1, <1>2

\* An error leads away from the walk.
LEMMA AbortPlace ==
    ASSUME TypeOK, NEW a \in Actor, Abort(a)
    PROVE  pc'[a] \in {"idle", "rm_end", "rm_lock"} /\ at'[a] = 1
BY GotoPlace DEF TypeOK, Abort

\* Where an inspection leads, and whether the lock is given back.
LEMMA InspectPlace ==
    ASSUME TypeOK, NEW a \in Actor, Inspect(a)
    PROVE  \/ /\ tree[at[a]] = Usable /\ Unlock(a)
              /\ NextRepo(a, IF a \in creates THEN "make" ELSE "branch", "ref")
           \/ /\ tree[at[a]] # Usable /\ UNCHANGED <<lock, at>>
              /\ pc'[a] = "clear"
           \/ Abort(a) /\ Unlock(a)
BY GotoPlace DEF Inspect

\* A step takes a free lock or gives back its own.
LEMMA MoveLocks ==
    ASSUME TypeOK, LockHeld, NEW a \in Actor, Moves(a)
    PROVE  OwnLocks(a)
<1> USE DEF TypeOK, OwnLocks, Holding
<1>1. at[a] \in Repo
  OBVIOUS
<1>2. Unlock(a) /\ pc[a] \in Holding => \A r \in Repo : lock'[r] # lock[r] => lock[r] \in {None, a}
  BY <1>1 DEF Unlock, LockHeld
<1>3. CASE Touch(a) \/ CheckBranch(a) \/ SetRef(a) \/ ClearFlag(a) \/ Use(a)
  BY <1>3, GotoPlace DEF Touch, CheckBranch, SetRef, ClearFlag, Use
<1>4. CASE Acquire(a)
  <2>1. lock'[at[a]] = a /\ \A r \in Repo : lock'[r] # lock[r] => lock[r] = None
    BY <1>1, <1>4 DEF Acquire
  <2> QED BY <1>4, <2>1 DEF Acquire
<1>5. CASE MakeBranch(a)
  BY <1>5, GotoPlace, AbortPlace DEF MakeBranch
<1>6. CASE Inspect(a)
  <2>0. pc[a] = "inspect"
    BY <1>6 DEF Inspect
  <2>1. CASE Unlock(a) /\ NextRepo(a, IF a \in creates THEN "make" ELSE "branch", "ref")
    <3>1. pc'[a] \notin Holding
      BY <2>1, NextRepoPlace
    <3> QED BY <1>2, <2>0, <2>1, <3>1
  <2>2. CASE UNCHANGED <<lock, at>>
    BY <2>0, <2>2 DEF LockHeld
  <2>3. CASE Abort(a) /\ Unlock(a)
    BY <1>2, <2>0, <2>3, AbortPlace
  <2> QED BY <1>6, <2>1, <2>2, <2>3, InspectPlace
<1>7. CASE ClearOld(a)
  <2>1. CASE UNCHANGED <<lock, at>>
    BY <1>7, <2>1 DEF ClearOld, LockHeld
  <2>2. CASE Abort(a) /\ Unlock(a)
    BY <1>2, <1>7, <2>2, AbortPlace DEF ClearOld
  <2> QED BY <1>7, <2>1, <2>2 DEF ClearOld
<1>8. CASE Add(a)
  BY <1>2, <1>8, NextRepoPlace, AbortPlace DEF Add
<1>9. CASE \E creating \in BOOLEAN : Arrive(a, creating)
  BY <1>9 DEF Arrive, Begin
<1>10. CASE RemoveTree(a)
  <2>1. pc'[a] \notin Holding
    BY <1>10, GotoPlace, NextRepoPlace DEF RemoveTree
  <2> QED BY <1>2, <1>10, <2>1 DEF RemoveTree
<1>11. CASE RemoveDirectory(a) \/ EndRemoval(a)
  BY <1>11, GotoPlace DEF RemoveDirectory, EndRemoval
<1>12. CASE a = Cleaner /\ (ScanOrphans \/ ListExpired \/ FindRepos)
  BY <1>12, GotoPlace DEF ScanOrphans, ListExpired, FindRepos, Begin
<1>13. CASE a = Deleter /\ (ArriveDelete \/ DeleteRow)
  BY <1>13, GotoPlace DEF ArriveDelete, DeleteRow, Begin
<1> QED BY <1>3, <1>4, <1>5, <1>6, <1>7, <1>8, <1>9, <1>10, <1>11, <1>12, <1>13
        DEF Moves, RequestStep, RemovalStep

\* So an actor inside keeps its lock.
LEMMA MoveLockHeld ==
    ASSUME TypeOK, LockHeld, NEW a \in Actor, Moves(a)
    PROVE  LockHeld'
<1>1. OthersStay(a) /\ OwnLocks(a)
  BY MoveStays, MoveLocks
<1>2. ASSUME NEW b \in Actor, b # a, pc'[b] \in Holding PROVE lock'[at'[b]] = b
  <2>1. lock[at[b]] = b /\ at'[b] = at[b] /\ at[b] \in Repo /\ b # None
    BY <1>1, <1>2, WorktreeAssumption DEF OthersStay, LockHeld, TypeOK
  <2> QED BY <1>1, <1>2, <2>1 DEF OwnLocks
<1> QED BY <1>1, <1>2 DEF LockHeld, OwnLocks, Holding

\* Only git worktree add makes a worktree usable, and only a removal the opposite:
\* what a request clears away was not usable.
Makes(a) == \A r \in Repo : tree'[r] = Usable /\ tree[r] # Usable => pc[a] = "add" /\ r = at[a]
Keeps(a) == \A r \in Repo : tree[r] = Usable => tree'[r] = Usable
Removes(a) ==
    /\ pc[a] \in {"rm_clear", "rm_dir"} /\ pc'[a] \in {"rm_lock", "rm_dir", "rm_end"}
    /\ pc'[a] # pc[a]
    /\ Disturb

\* A cleanup cut short makes no worktree usable, and leaves the others alone.
LEMMA HalfRemovedTree ==
    ASSUME TypeOK, NEW r \in Repo, HalfRemoved(r)
    PROVE  /\ \A q \in Repo : tree'[q] = Usable => tree[q] = Usable
           /\ \A q \in Repo \ {r} : tree'[q] = tree[q]
<1>1. tree' = tree \/ tree' = [tree EXCEPT ![r].meta = FALSE]
  BY DEF HalfRemoved
<1>2. CASE tree' = [tree EXCEPT ![r].meta = FALSE]
  <2>1. ~tree'[r].meta /\ \A q \in Repo \ {r} : tree'[q] = tree[q]
    BY <1>2 DEF TypeOK
  <2>2. tree'[r] # Usable
    BY <2>1 DEF Usable
  <2> QED BY <2>1, <2>2
<1> QED BY <1>1, <1>2

\* What a step may do to the worktrees.
LEMMA MoveTrees ==
    ASSUME TypeOK, Condemned, NEW a \in Actor, Moves(a)
    PROVE  Makes(a) /\ (Keeps(a) \/ Removes(a))
<1> USE DEF TypeOK, Makes, Keeps
<1>0. Gone # Usable
  BY DEF Gone, Usable
<1>1. at[a] \in Repo
  OBVIOUS
<1>2. CASE UNCHANGED tree
  BY <1>2
<1>3. CASE ClearOld(a)
  <2>1. tree[at[a]] # Usable
    BY <1>3 DEF ClearOld, Condemned
  <2>2. CASE tree' = [tree EXCEPT ![at[a]] = Gone]
    BY <1>0, <1>1, <2>1, <2>2
  <2>3. CASE HalfRemoved(at[a])
    BY <1>1, <2>1, <2>3, HalfRemovedTree
  <2> QED BY <1>3, <2>2, <2>3 DEF ClearOld
<1>4. CASE Add(a)
  <2>1. CASE tree' = [tree EXCEPT ![at[a]] = Usable]
    BY <1>1, <1>4, <2>1 DEF Add
  <2> QED BY <1>2, <1>4, <2>1 DEF Add
<1>5. CASE RemoveTree(a)
  <2>1. Makes(a)
    <3>1. CASE tree' = [tree EXCEPT ![at[a]] = Gone]
      BY <1>0, <1>1, <3>1
    <3>2. CASE HalfRemoved(at[a])
      BY <1>1, <3>2, HalfRemovedTree
    <3> QED BY <1>2, <1>5, <3>1, <3>2 DEF RemoveTree
  <2>2. Removes(a)
    BY <1>5, GotoPlace, NextRepoPlace DEF RemoveTree, Removes
  <2> QED BY <2>1, <2>2
<1>6. CASE RemoveDirectory(a)
  <2>1. \A r \in Repo : tree'[r].dir => tree[r].dir
    <3>1. CASE tree' = [r \in Repo |-> [tree[r] EXCEPT !.dir = FALSE]]
      BY <3>1
    <3>2. ASSUME NEW left \in SUBSET Repo,
                 tree' = [r \in Repo |-> [tree[r] EXCEPT !.dir = @ /\ r \in left]]
          PROVE  \A r \in Repo : tree'[r].dir => tree[r].dir
      BY <3>2
    <3> QED BY <1>6, <3>1, <3>2 DEF RemoveDirectory
  <2>2. \A r \in Repo : tree'[r].meta = tree[r].meta
    <3>1. CASE tree' = [r \in Repo |-> [tree[r] EXCEPT !.dir = FALSE]]
      BY <3>1
    <3>2. ASSUME NEW left \in SUBSET Repo,
                 tree' = [r \in Repo |-> [tree[r] EXCEPT !.dir = @ /\ r \in left]]
          PROVE  \A r \in Repo : tree'[r].meta = tree[r].meta
      BY <3>2
    <3> QED BY <1>6, <3>1, <3>2 DEF RemoveDirectory
  <2>3. Makes(a)
    BY <2>1, <2>2 DEF Usable
  <2>4. Removes(a)
    BY <1>6, GotoPlace DEF RemoveDirectory, Removes
  <2> QED BY <2>3, <2>4
<1>7. CASE \/ Touch(a) \/ CheckBranch(a) \/ MakeBranch(a) \/ Acquire(a) \/ Inspect(a)
           \/ SetRef(a) \/ ClearFlag(a) \/ Use(a) \/ EndRemoval(a)
           \/ \E creating \in BOOLEAN : Arrive(a, creating)
  BY <1>2, <1>7 DEF Touch, CheckBranch, MakeBranch, Acquire, Inspect, SetRef, ClearFlag, Use,
                    EndRemoval, Arrive, disk
<1>8. CASE ScanOrphans \/ ListExpired \/ FindRepos \/ ArriveDelete \/ DeleteRow
  BY <1>2, <1>8 DEF ScanOrphans, ListExpired, FindRepos, ArriveDelete, DeleteRow, disk
<1> QED BY <1>3, <1>4, <1>5, <1>6, <1>7, <1>8 DEF Moves, RequestStep, RemovalStep

\* An actor that comes to clear a worktree away has just seen that it is not usable;
\* nobody can add one while it holds the lock.
LEMMA MoveCondemned ==
    ASSUME TypeOK, LockHeld, Condemned, NEW a \in Actor, Moves(a)
    PROVE  Condemned'
<1>1. OthersStay(a) /\ Makes(a)
  BY MoveStays, MoveTrees
<1>2. ASSUME NEW b \in Actor, b # a, pc'[b] = "clear" PROVE tree'[at'[b]] # Usable
  <2>1. pc[b] = "clear" /\ at'[b] = at[b] /\ at[b] \in Repo /\ lock[at[b]] = b
    BY <1>1, <1>2 DEF OthersStay, LockHeld, Holding, TypeOK
  <2>2. ~(pc[a] = "add" /\ at[b] = at[a])
    BY <1>2, <2>1 DEF LockHeld, Holding
  <2> QED BY <1>1, <2>1, <2>2 DEF Makes, Condemned
<1>3. ASSUME pc'[a] = "clear" PROVE tree'[at'[a]] # Usable
  <2> USE DEF TypeOK
  <2>1. CASE Inspect(a)
    <3>1. tree[at[a]] # Usable /\ UNCHANGED at
      BY <1>3, <2>1, InspectPlace, NextRepoPlace, AbortPlace
    <3> QED BY <2>1, <3>1 DEF Inspect, disk
  <2>2. ~(Touch(a) \/ CheckBranch(a) \/ SetRef(a) \/ ClearFlag(a) \/ Use(a) \/ Acquire(a))
    BY <1>3, GotoPlace DEF Touch, CheckBranch, SetRef, ClearFlag, Use, Acquire
  <2>3. ~(MakeBranch(a) \/ ClearOld(a) \/ Add(a))
    BY <1>3, GotoPlace, AbortPlace, NextRepoPlace DEF MakeBranch, ClearOld, Add
  <2>4. ~RemovalStep(a)
    <3>1. ~RemoveTree(a)
      BY <1>3, GotoPlace, NextRepoPlace DEF RemoveTree
    <3>2. ~RemoveDirectory(a) /\ ~EndRemoval(a)
      BY <1>3, GotoPlace DEF RemoveDirectory, EndRemoval
    <3> QED BY <3>1, <3>2 DEF RemovalStep
  <2>5. ~(\E creating \in BOOLEAN : Arrive(a, creating))
    BY <1>3 DEF Arrive, Begin
  <2>6. ~(a = Cleaner /\ (ScanOrphans \/ ListExpired \/ FindRepos))
    BY <1>3, GotoPlace DEF ScanOrphans, ListExpired, FindRepos, Begin
  <2>7. ~(a = Deleter /\ (ArriveDelete \/ DeleteRow))
    BY <1>3, GotoPlace DEF ArriveDelete, DeleteRow, Begin
  <2> QED BY <2>1, <2>2, <2>3, <2>4, <2>5, <2>6, <2>7 DEF Moves, RequestStep
<1> QED BY <1>2, <1>3 DEF Condemned

\* A walk ends where the next one starts.
LEMMA MoveFirst ==
    ASSUME TypeOK, StartsFirst, NEW a \in Actor, Moves(a)
    PROVE  StartsFirst'
<1> USE DEF TypeOK, OnTheWay
<1>1. OthersStay(a)
  BY MoveStays
<1>2. ASSUME pc'[a] \notin OnTheWay \cup {"rm_lock", "rm_clear"} PROVE at'[a] = 1
  <2>1. CASE Touch(a) \/ CheckBranch(a) \/ SetRef(a) \/ ClearFlag(a) \/ Use(a) \/ Acquire(a)
    BY <1>2, <2>1, GotoPlace
       DEF Touch, CheckBranch, SetRef, ClearFlag, Use, Acquire, StartsFirst
  <2>2. CASE MakeBranch(a)
    BY <1>2, <2>2, GotoPlace, AbortPlace DEF MakeBranch
  <2>3. CASE Inspect(a)
    BY <1>2, <2>3, InspectPlace, NextRepoPlace, AbortPlace
  <2>4. CASE ClearOld(a)
    BY <1>2, <2>4, GotoPlace, AbortPlace DEF ClearOld
  <2>5. CASE Add(a)
    BY <1>2, <2>5, AbortPlace, NextRepoPlace DEF Add
  <2>6. CASE \E creating \in BOOLEAN : Arrive(a, creating)
    BY <1>2, <2>6 DEF Arrive, Begin, StartsFirst
  <2>7. CASE RemoveTree(a)
    <3>1. CASE NextRepo(a, "rm_lock", "rm_dir")
      BY <1>2, <3>1, NextRepoPlace
    <3>2. CASE Goto(a, "rm_lock")
      BY <1>2, <3>2, GotoPlace
    <3>3. CASE at' = [at EXCEPT ![a] = 1]
      BY <3>3
    <3> QED BY <2>7, <3>1, <3>2, <3>3 DEF RemoveTree
  <2>8. CASE RemoveDirectory(a) \/ EndRemoval(a)
    BY <2>8 DEF RemoveDirectory, EndRemoval, StartsFirst
  <2>9. CASE a = Cleaner /\ (ScanOrphans \/ ListExpired \/ FindRepos)
    BY <2>9 DEF ScanOrphans, ListExpired, FindRepos, StartsFirst
  <2>10. CASE a = Deleter /\ (ArriveDelete \/ DeleteRow)
    BY <2>10 DEF ArriveDelete, DeleteRow, StartsFirst
  <2> QED BY <2>1, <2>2, <2>3, <2>4, <2>5, <2>6, <2>7, <2>8, <2>9, <2>10
          DEF Moves, RequestStep, RemovalStep
<1> QED BY <1>1, <1>2 DEF StartsFirst, OthersStay

\* A removal is noted for everyone who is under way, and nothing else ends a note
\* but a new request.
LEMMA MoveDisturbed ==
    ASSUME TypeOK, NEW a \in Actor, Moves(a)
    PROVE  \/ disturbed \subseteq disturbed'
           \/ pc'[a] = "touch" /\ \A b \in disturbed : b # a => b \in disturbed'
<1> USE DEF TypeOK
<1>1. CASE \E creating \in BOOLEAN : Arrive(a, creating)
  BY <1>1 DEF Arrive, Begin
<1>2. CASE RemoveTree(a) \/ RemoveDirectory(a)
  BY <1>2 DEF RemoveTree, RemoveDirectory, Disturb
<1>3. CASE \/ Touch(a) \/ CheckBranch(a) \/ MakeBranch(a) \/ Acquire(a) \/ Inspect(a)
           \/ ClearOld(a) \/ Add(a) \/ SetRef(a) \/ ClearFlag(a) \/ Use(a) \/ EndRemoval(a)
  BY <1>3 DEF Touch, CheckBranch, MakeBranch, Acquire, Inspect, ClearOld, Add, SetRef,
              ClearFlag, Use, EndRemoval
<1>4. CASE ScanOrphans \/ ListExpired \/ FindRepos \/ ArriveDelete \/ DeleteRow
  BY <1>4 DEF ScanOrphans, ListExpired, FindRepos, ArriveDelete, DeleteRow
<1> QED BY <1>1, <1>2, <1>3, <1>4 DEF Moves, RequestStep, RemovalStep

\* The place a request has reached, its worktrees given.
Behind(a, r) == (pc[a] \in OnTheWay /\ r < at[a]) \/ pc[a] \in Through

\* A step past a worktree is taken when it is usable.
LEMMA MoveBehind ==
    ASSUME TypeOK, StartsFirst, NEW a \in Request, Moves(a), NEW r \in Repo, Behind(a, r)'
    PROVE  Behind(a, r) \/ tree'[r] = Usable
<1> USE DEF TypeOK, Behind, OnTheWay, Through
<1>0. a \in Actor /\ a # Cleaner /\ a # Deleter /\ at[a] \in Repo
  BY WorktreeAssumption DEF Actor, Remover
<1>1. r \in Nat /\ r >= 1 /\ r <= Repos /\ at[a] \in Nat
  BY <1>0, WorktreeAssumption DEF Repo
<1>2. CASE Touch(a)
  BY <1>0, <1>1, <1>2, GotoPlace DEF Touch, StartsFirst
<1>3. CASE CheckBranch(a) \/ SetRef(a) \/ ClearFlag(a) \/ Use(a) \/ Acquire(a)
  BY <1>0, <1>1, <1>3, GotoPlace DEF CheckBranch, SetRef, ClearFlag, Use, Acquire
<1>4. CASE MakeBranch(a)
  BY <1>0, <1>1, <1>4, GotoPlace, AbortPlace DEF MakeBranch
<1>5. CASE Inspect(a)
  <2>0. pc[a] = "inspect" /\ UNCHANGED tree
    BY <1>5 DEF Inspect, disk
  <2>1. CASE /\ tree[at[a]] = Usable
             /\ NextRepo(a, IF a \in creates THEN "make" ELSE "branch", "ref")
    BY <1>0, <1>1, <2>0, <2>1, NextRepoPlace
  <2>2. CASE UNCHANGED at /\ pc'[a] = "clear"
    BY <1>0, <1>1, <2>0, <2>2
  <2>3. CASE Abort(a)
    BY <1>0, <1>1, <2>3, AbortPlace
  <2> QED BY <1>0, <1>5, <2>1, <2>2, <2>3, InspectPlace
<1>6. CASE ClearOld(a)
  BY <1>0, <1>1, <1>6, GotoPlace, AbortPlace DEF ClearOld
<1>7. CASE Add(a)
  <2>1. CASE Abort(a)
    BY <1>0, <1>1, <2>1, AbortPlace
  <2>2. CASE /\ tree' = [tree EXCEPT ![at[a]] = Usable]
             /\ NextRepo(a, IF a \in creates THEN "make" ELSE "branch", "ref")
    <3>1. tree'[at[a]] = Usable
      BY <1>0, <2>2
    <3> QED BY <1>0, <1>1, <1>7, <2>2, <3>1, NextRepoPlace DEF Add
  <2> QED BY <1>7, <2>1, <2>2 DEF Add
<1>8. CASE \E creating \in BOOLEAN : Arrive(a, creating)
  BY <1>0, <1>8 DEF Arrive, Begin
<1>9. CASE RemoveTree(a)
  BY <1>0, <1>9, GotoPlace, NextRepoPlace DEF RemoveTree
<1>10. CASE RemoveDirectory(a) \/ EndRemoval(a)
  BY <1>0, <1>10, GotoPlace DEF RemoveDirectory, EndRemoval
<1> QED BY <1>0, <1>2, <1>3, <1>4, <1>5, <1>6, <1>7, <1>8, <1>9, <1>10
        DEF Moves, RequestStep, RemovalStep

\* The worktrees behind a request stay usable.
LEMMA MoveWalked ==
    ASSUME WorktreeInv, NEW a \in Actor, Moves(a)
    PROVE  Walked'
<1> USE DEF WorktreeInv
<1>1. OthersStay(a) /\ (Keeps(a) \/ Removes(a))
  BY MoveStays, MoveTrees
<1>2. SUFFICES ASSUME NEW b \in Request, b \notin disturbed', NEW r \in Repo, Behind(b, r)'
               PROVE  tree'[r] = Usable
  BY DEF Walked, Behind
<1>3. b \in Actor
  BY DEF Actor
<1>4. b \notin disturbed
  BY <1>2, MoveDisturbed DEF Behind, OnTheWay, Through
<1>5. Behind(b, r) \/ tree'[r] = Usable
  <2>1. CASE b = a
    BY <1>2, <2>1, MoveBehind
  <2>2. CASE b # a
    BY <1>1, <1>2, <1>3, <2>2 DEF OthersStay, Behind
  <2> QED BY <2>1, <2>2
<1>6. CASE Behind(b, r) /\ Keeps(a)
  BY <1>4, <1>6 DEF Walked, Behind, Keeps
<1>7. CASE Behind(b, r) /\ Removes(a)
  BY <1>2, <1>7 DEF Behind, Removes, Disturb, OnTheWay, Through
<1> QED BY <1>1, <1>5, <1>6, <1>7

\* The invariant of the worktrees holds at the start ...
LEMMA InitInv == Init => WorktreeInv
<1> SUFFICES ASSUME Init PROVE WorktreeInv
  OBVIOUS
<1>1. TypeOK
  BY InitType
<1>2. \A a \in Actor : pc[a] \in {"scan", "idle"} /\ at[a] = 1
  BY DEF Init
<1> QED BY <1>1, <1>2
        DEF WorktreeInv, LockHeld, Condemned, StartsFirst, Walked, Holding, OnTheWay, Through, Actor

\* ... and after every step.
LEMMA NextInv == WorktreeInv /\ [Next]_vars => WorktreeInv'
<1> SUFFICES ASSUME WorktreeInv, [Next]_vars PROVE WorktreeInv'
  OBVIOUS
<1>1. TypeOK'
  BY NextType DEF WorktreeInv
<1>2. CASE UNCHANGED <<pc, at, lock, tree, disturbed>>
  BY <1>1, <1>2 DEF WorktreeInv, LockHeld, Condemned, StartsFirst, Walked
<1>3. ASSUME NEW a \in Actor, Moves(a) PROVE WorktreeInv'
  BY <1>1, <1>3, MoveLockHeld, MoveCondemned, MoveFirst, MoveWalked DEF WorktreeInv
<1>4. CASE EndExecution \/ Tick
  BY <1>2, <1>4 DEF EndExecution, Tick, disk, actors
<1>5. CASE UNCHANGED vars
  BY <1>2, <1>5 DEF vars, disk, actors
<1> QED BY <1>3, <1>4, <1>5, NextMoves

\* The locks work: whoever is inside holds the lock of its path, what a request
\* clears away is still not usable, and what it has walked past still is.
THEOREM Invariance == Spec => []WorktreeInv
BY InitInv, NextInv, PTL DEF Spec

\* A request that got through has every worktree, unless something was removed
\* meanwhile: for any number of requests and repositories.
THEOREM Ready == Spec => []ReadyHasTrees
<1>1. WorktreeInv => ReadyHasTrees
  BY DEF WorktreeInv, Walked, Through, ReadyHasTrees
<1> QED BY <1>1, Invariance, PTL

\* Making sure that worktrees exist never destroys one that is usable.
THEOREM KeepsWork == Spec => EnsureKeepsWork
<1>1. WorktreeInv /\ [Next]_vars =>
        [\A r \in Repo : tree[r] = Usable /\ tree'[r] # Usable =>
            \E a \in Actor : pc[a] \in {"rm_clear", "rm_dir"} /\ pc'[a] # pc[a]]_vars
  <2> SUFFICES ASSUME WorktreeInv, Next, NEW r \in Repo, tree[r] = Usable, tree'[r] # Usable
               PROVE  \E a \in Actor : pc[a] \in {"rm_clear", "rm_dir"} /\ pc'[a] # pc[a]
    OBVIOUS
  <2>1. CASE EndExecution \/ Tick
    BY <2>1 DEF EndExecution, Tick, disk
  <2>2. ASSUME NEW a \in Actor, Moves(a)
        PROVE  \E b \in Actor : pc[b] \in {"rm_clear", "rm_dir"} /\ pc'[b] # pc[b]
    BY <2>2, MoveTrees DEF WorktreeInv, Keeps, Removes
  <2> QED BY <2>1, <2>2, NextMoves
<1> QED BY <1>1, Invariance, PTL DEF Spec, EnsureKeepsWork
=============================================================================
