--------------------------- MODULE RoomSyncProofs ---------------------------
(***************************************************************************)
(* Proofs about RoomSync, for every set of record names, documents,        *)
(* requests and slots and every bound.                                     *)
(***************************************************************************)
EXTENDS RoomSync, SessionUnionProofs

USE VersionAssumption, PathAssumption, ProcAssumption

-----------------------------------------------------------------------------
(* Types.                                                                  *)

\* What a pass archives of a conflict is a version of a path.
LEMMA ConflictArchiveType ==
    ASSUME TypeOK, NEW p \in Proc
    PROVE  ToArchive(p) \subseteq Archive
<1>1. loc[p] \in Files BY DEF TypeOK
<1>2. QED BY <1>1, PresentIsVersion DEF ToArchive, Conflicts, Archive, Path

\* The end of a pass keeps the types of what it resets.
LEMMA FinishType ==
    ASSUME TypeOK, NEW p \in Proc, Finish(p)
    PROVE  /\ lock' \in Proc \cup {None}
           /\ pc' \in [Proc -> Stage]
           /\ loc' \in [Proc -> Files] /\ rem' \in [Proc -> Files]
<1>1. "idle" \in Stage BY DEF Stage
<1>2. QED BY <1>1, NoFilesType DEF Finish, Goto, TypeOK

\* A counted failure stays within its bound.
LEMMA FaultType == ASSUME TypeOK, Fault PROVE faults' \in 0 .. MaxFault
BY DEF Fault, TypeOK

\* A new version is a version and a content.
LEMMA FreshType ==
    ASSUME TypeOK, Fresh
    PROVE  clock' \in Version /\ clock' \in Content
BY DEF Fresh, TypeOK, Version, Content

\* Every document and every name is a path.
LEMMA DocsInPath == UserDoc \cup AgentDoc \cup Name \cup LibraryDoc \cup {Context, Decisions, Rules} \subseteq Path
BY DEF Path, DocPath, LibraryDoc, SessionPath

\* The writes of owner and agents.
LEMMA AuthorType == ASSUME TypeOK, AuthorStep PROVE TypeOK'
<1>1. ASSUME NEW d \in UserDoc, UserEdit(d) PROVE TypeOK'
  <2>1. store' \in Files
    BY <1>1, FreshType, WriteType DEF UserEdit, TypeOK
  <2>2. QED BY <1>1, <2>1, FreshType DEF UserEdit, TypeOK, procs
<1>2. ASSUME NEW d \in UserDoc \cap LibraryDoc, DeleteRemote(d) PROVE TypeOK'
  <2>1. server' \in Files
    BY <1>2, WriteType DEF DeleteRemote, TypeOK, Content
  <2>2. QED BY <1>2, <2>1, FreshType DEF DeleteRemote, TypeOK, procs
<1>3. CASE DeleteLocal
  <2>1. store' \in Files
    BY <1>3, WriteType DEF DeleteLocal, TypeOK, Content
  <2>2. QED BY <1>3, <2>1 DEF DeleteLocal, TypeOK, procs
<1>4. ASSUME NEW p \in Name \cup AgentDoc, AgentServer(p) PROVE TypeOK'
  <2>1. server' \in Files
    BY <1>4, FreshType, WriteType DEF AgentServer, TypeOK
  <2>2. QED BY <1>4, <2>1, FreshType DEF AgentServer, TypeOK, procs
<1>5. ASSUME NEW n \in Name, AgentLocal(n) PROVE TypeOK'
  <2>1. store' \in Files
    BY <1>5, FreshType, WriteType DEF AgentLocal, TypeOK
  <2>2. QED BY <1>5, <2>1, FreshType DEF AgentLocal, TypeOK, procs
<1>6. CASE ServerWiped
  BY <1>6, NoFilesType, FaultType DEF ServerWiped, TypeOK, procs
<1>7. QED BY <1>1, <1>2, <1>3, <1>4, <1>5, <1>6 DEF AuthorStep

\* The stages and operations the actions name.
LEMMA StageType ==
    /\ \A k, f : AfterRead(k, f) \in Stage
    /\ {"idle", "wait", "prepare", "remote", "archive", "create", "push",
        "context", "decisions", "library", "upgrade", "provision"} \subseteq Stage
    /\ {"auto", "sync", "import", "prepare"} \subseteq Op
BY DEF AfterRead, Stage, Op

\* Starting a pass and reading its snapshots.
LEMMA ReadType ==
    ASSUME TypeOK,
           \/ AutoRead
           \/ \E p \in Request, kind \in RequestOp : StartRequest(p, kind)
           \/ \E p \in Proc : \/ Acquire(p) \/ PrepareBegin(p)
                              \/ ReadRemote(p) \/ ReadRefused(p) \/ ReadFailed(p)
    PROVE  TypeOK'
<1>1. CASE AutoRead
  <2>1. /\ (IF prepared THEN "auto" ELSE "prepare") \in Op
        /\ (IF prepared THEN "wait" ELSE "prepare") \in Stage
    BY DEF Stage, Op
  <2>2. QED BY <1>1, <2>1 DEF AutoRead, Goto, TypeOK, disk, Proc
<1>2. ASSUME NEW p \in Request, NEW kind \in RequestOp, StartRequest(p, kind)
      PROVE  TypeOK'
  <2>1. kind \in Op BY DEF Op
  <2>2. (IF kind = "prepare" THEN "prepare" ELSE "wait") \in Stage BY DEF Stage
  <2>3. QED BY <1>2, <2>1, <2>2 DEF StartRequest, Goto, TypeOK, disk, Proc
<1>3. ASSUME NEW p \in Proc, Acquire(p) PROVE TypeOK'
  <2>1. (IF op[p] = "auto" THEN "archive" ELSE "remote") \in Stage BY DEF Stage
  <2>2. QED BY <1>3, <2>1 DEF Acquire, Goto, TypeOK, disk
<1>4. ASSUME NEW p \in Proc, PrepareBegin(p) PROVE TypeOK'
  BY <1>4, StageType DEF PrepareBegin, Goto, TypeOK, disk
<1>5. ASSUME NEW p \in Proc, ReadRemote(p) PROVE TypeOK'
  BY <1>5, StageType DEF ReadRemote, Goto, TypeOK, disk
<1>6. ASSUME NEW p \in Proc, ReadRefused(p) PROVE TypeOK'
  BY <1>6, FinishType DEF ReadRefused, TypeOK, disk
<1>7. ASSUME NEW p \in Proc, ReadFailed(p) PROVE TypeOK'
  BY <1>7, StageType, FaultType, NoFilesType DEF ReadFailed, Goto, TypeOK, disk
<1>8. QED BY <1>1, <1>2, <1>3, <1>4, <1>5, <1>6, <1>7

\* Archiving versions keeps the type of the archive.
LEMMA PreserveType ==
    ASSUME TypeOK, NEW versions \in SUBSET Archive, Preserve(versions)
    PROVE  history' \subseteq Archive
BY DEF Preserve, TypeOK

\* The owner rules are a content (local_owner_rules).
LEMMA OwnerRulesType == TypeOK => OwnerRules \in Version /\ OwnerRules \in Content
<1> SUFFICES ASSUME TypeOK PROVE OwnerRules \in Version BY DEF Content
<1>1. 0 \in Version BY DEF Version
<1>2. Rules \in Path BY DocsInPath
<1>3. QED BY <1>1, <1>2, PresentIsVersion DEF OwnerRules, TypeOK, Content

\* The checkpoints part of a pass.
LEMMA RecordPassType ==
    ASSUME TypeOK, NEW p \in Proc,
           \/ ArchiveConflict(p) \/ ArchiveDone(p)
           \/ CreateLocal(p) \/ CreateDone(p) \/ PushRecords(p)
    PROVE  TypeOK'
<1> USE StageType
<1>0. CASE ArchiveConflict(p)
  <2>1. PICK a \in ToArchive(p) : Preserve({a}) BY <1>0 DEF ArchiveConflict
  <2>2. history' \subseteq Archive BY <2>1, ConflictArchiveType, PreserveType
  <2>3. QED BY <1>0, <2>2 DEF ArchiveConflict, TypeOK, procs
<1>1. CASE ArchiveDone(p)
  BY <1>1 DEF ArchiveDone, Goto, TypeOK, disk
<1>2. CASE CreateLocal(p)
  <2>1. store' \in Files BY <1>2, CreateOnlyType DEF CreateLocal, TypeOK
  <2>2. QED BY <1>2, <2>1 DEF CreateLocal, TypeOK, procs
<1>3. CASE CreateDone(p)
  BY <1>3 DEF CreateDone, Goto, TypeOK, disk
<1>4. CASE PushRecords(p)
  <2>1. server' \in Files BY <1>4, CreateOnlyType DEF PushRecords, TypeOK
  <2>2. \A f \in Files : Docs(f) \in Files BY DEF Docs, Files, Content
  <2>3. prepared' \in BOOLEAN BY <1>4, Zenon DEF PushRecords, TypeOK
  <2>4. loc' \in [Proc -> Files] /\ rem' \in [Proc -> Files]
    BY <1>4, <2>2 DEF PushRecords, TypeOK
  <2>5. QED BY <1>4, <2>1, <2>3, <2>4 DEF PushRecords, Goto, TypeOK
<1>5. QED BY <1>0, <1>1, <1>2, <1>3, <1>4

\* The documents part of a pass.
LEMMA DocumentPassType ==
    ASSUME TypeOK, NEW p \in Proc,
           \/ SpawnContext(p) \/ SkipContext(p) \/ MergeDecisions(p)
           \/ \E d \in LibraryPath : MergeLibrary(p, d)
           \/ LibraryDone(p) \/ Upgrade(p)
    PROVE  TypeOK'
<1> USE StageType
<1>0. loc[p] \in Files /\ rem[p] \in Files BY DEF TypeOK
<1>1. CASE SpawnContext(p)
  <2>1. Context \in Path BY DocsInPath
  <2>2. history' \subseteq Archive
    <3>1. rem[p][Context] \in Version
      BY <1>0, <1>1, <2>1, PresentIsVersion DEF SpawnContext, ContextDiffers
    <3>2. {<<Context, rem[p][Context]>>} \subseteq Archive
      BY <2>1, <3>1 DEF Archive
    <3>3. QED BY <1>1, <3>2, PreserveType DEF SpawnContext
  <2>3. [NoFiles EXCEPT ![Context] = loc[p][Context]] \in Files
    BY <1>0, <2>1, NoFilesType, WriteType DEF Files
  <2>4. scripts' \in [Slot -> Files]
    BY <1>1, <2>3 DEF SpawnContext, TypeOK
  <2>5. QED BY <1>1, <2>2, <2>4 DEF SpawnContext, Goto, TypeOK
<1>2. CASE SkipContext(p)
  BY <1>2 DEF SkipContext, Goto, TypeOK, disk
<1>3. CASE MergeDecisions(p)
  <2>1. rem[p][Decisions] \in Content BY <1>0, DocsInPath DEF Files
  <2>2. store' \in Files BY <1>3, <2>1, WriteType DEF MergeDecisions, TypeOK
  <2>3. QED BY <1>3, <2>2 DEF MergeDecisions, Goto, TypeOK
<1>4. ASSUME NEW d \in LibraryPath, MergeLibrary(p, d) PROVE TypeOK'
  <2>1. d \in Path BY DocsInPath DEF LibraryDoc
  <2>2. rem[p][d] \in Content BY <1>0, <2>1 DEF Files
  <2>3. history' \subseteq Archive
    <3>1. loc[p][d] # None => loc[p][d] \in Version
      BY <1>0, <2>1, PresentIsVersion
    <3>2. (IF loc[p][d] = None THEN {} ELSE {<<d, loc[p][d]>>}) \in SUBSET Archive
      BY <2>1, <3>1 DEF Archive
    <3>3. QED BY <1>4, <3>2, PreserveType DEF MergeLibrary
  <2>4. store' \in Files BY <1>4, <2>2, WriteType DEF MergeLibrary, TypeOK
  <2>5. loc' \in [Proc -> Files]
    BY <1>0, <1>4, <2>2, WriteType DEF MergeLibrary, TypeOK
  <2>6. QED BY <1>4, <2>3, <2>4, <2>5 DEF MergeLibrary, TypeOK
<1>5. CASE LibraryDone(p)
  <2>1. CASE op[p] = "import"
    BY <1>5, <2>1, FinishType DEF LibraryDone, TypeOK, disk
  <2>2. CASE op[p] # "import"
    BY <1>5, <2>2 DEF LibraryDone, Goto, TypeOK, disk
  <2>3. QED BY <2>1, <2>2
<1>6. CASE Upgrade(p)
  <2>1. store' \in Files /\ server' \in Files
    BY <1>6, OwnerRulesType, WriteType DEF Upgrade, TypeOK
  <2>2. prepared' \in BOOLEAN BY <1>6, Zenon DEF Upgrade, TypeOK
  <2>3. QED BY <1>6, <2>1, <2>2, FinishType DEF Upgrade, TypeOK
<1>7. QED BY <1>1, <1>2, <1>3, <1>4, <1>5, <1>6

\* Preparing an empty server.
LEMMA ProvisionType ==
    ASSUME TypeOK, NEW p \in Proc, Provision(p) \/ ProvisionClash(p)
    PROVE  TypeOK'
<1>0. loc[p] \in Files /\ server \in Files BY DEF TypeOK
<1>1. CASE Provision(p)
  <2>1. server' \in Files BY <1>0, <1>1 DEF Provision, Files
  <2>2. QED BY <1>1, <2>1, FinishType DEF Provision, TypeOK
<1>2. CASE ProvisionClash(p)
  <2>1. server' \in Files BY <1>0, <1>2 DEF ProvisionClash, Files
  <2>2. QED BY <1>2, <2>1, FinishType DEF ProvisionClash, TypeOK
<1>3. QED BY <1>1, <1>2

\* What a step of a script leaves to do: one file less, or nothing.
LEMMA ScriptRest ==
    ASSUME TypeOK, NEW s \in Slot, NEW q \in Path, ScriptStep(s, q)
    PROVE  \E rest \in {NoFiles, [scripts[s] EXCEPT ![q] = None]} :
              scripts' = [scripts EXCEPT ![s] = rest]
<1>1. scripts' = [scripts EXCEPT ![s] =
                    IF Stops(s, q) THEN NoFiles
                    ELSE [scripts[s] EXCEPT ![q] = None]]
  BY DEF ScriptStep, TypeOK
<1>2. QED BY <1>1

\* Scripts under way on the server.
LEMMA ScriptType ==
    ASSUME TypeOK, NEW s \in Slot,
           (\E q \in Path : ScriptStep(s, q)) \/ ScriptDrop(s)
    PROVE  TypeOK'
<1>1. ASSUME NEW q \in Path, ScriptStep(s, q) PROVE TypeOK'
  <2>1. scripts[s] \in Files /\ scripts[s][q] \in Content BY DEF TypeOK, Files
  <2>2. server' \in Files
    BY <1>1, <2>1, CreateOnlyType, WriteType DEF ScriptStep, TypeOK
  <2>3. scripts' \in [Slot -> Files]
    <3>1. [scripts[s] EXCEPT ![q] = None] \in Files BY <2>1, WriteType DEF Content
    <3>2. QED BY <1>1, <3>1, NoFilesType, ScriptRest DEF TypeOK
  <2>4. QED BY <1>1, <2>2, <2>3 DEF ScriptStep, TypeOK, procs
<1>2. CASE ScriptDrop(s)
  BY <1>2, NoFilesType, FaultType DEF ScriptDrop, TypeOK, procs, disk
<1>3. QED BY <1>1, <1>2

\* What the script of a blocking call holds, at each of the three calls.
LEMMA ScriptOfCases ==
    ASSUME NEW p \in Proc, pc[p] \in {"push", "provision", "upgrade"},
           ScriptOf(p) # NoFiles
    PROVE  \/ ScriptOf(p) = CreateOnly(NoFiles, DesiredRemote(loc[p], rem[p]))
           \/ ScriptOf(p) = loc[p]
           \/ ScriptOf(p) = [NoFiles EXCEPT ![Rules] = OwnerRules]
<1>1. CASE pc[p] = "push"
  <2>1. pc[p] # "provision" /\ pc[p] # "upgrade" BY <1>1
  <2>2. QED BY <1>1, <2>1, Zenon DEF ScriptOf
<1>2. CASE pc[p] = "provision"
  <2>1. pc[p] # "push" /\ pc[p] # "upgrade" BY <1>2
  <2>2. QED BY <1>2, <2>1, Zenon DEF ScriptOf
<1>3. CASE pc[p] = "upgrade"
  <2>1. pc[p] # "push" /\ pc[p] # "provision" BY <1>3
  <2>2. CASE rem[p][Rules] # OwnerRules BY <1>3, <2>1, <2>2, Zenon DEF ScriptOf
  <2>3. CASE ~(rem[p][Rules] # OwnerRules) BY <1>3, <2>1, <2>3, Zenon DEF ScriptOf
  <2>4. QED BY <2>2, <2>3
<1>4. QED BY <1>1, <1>2, <1>3

\* Archive files a crash cuts short are archive files.
LEMMA ArchivingType ==
    ASSUME TypeOK, NEW p \in Proc
    PROVE  Archiving(p) \subseteq Archive
<1>0. loc[p] \in Files /\ rem[p] \in Files BY DEF TypeOK
<1>1. CASE pc[p] = "archive"
  <2>1. pc[p] # "context" /\ pc[p] # "library" BY <1>1
  <2>2. Archiving(p) = ToArchive(p) BY <1>1, <2>1, Zenon DEF Archiving
  <2>3. QED BY <2>2, ConflictArchiveType
<1>2. CASE pc[p] = "context"
  <2>1. pc[p] # "archive" /\ pc[p] # "library" BY <1>2
  <2>2. CASE ContextDiffers(p)
    <3>1. Archiving(p) = {<<Context, rem[p][Context]>>}
      BY <1>2, <2>1, <2>2, Zenon DEF Archiving
    <3>2. Context \in Path /\ rem[p][Context] \in Version
      BY <1>0, <2>2, DocsInPath, PresentIsVersion DEF ContextDiffers
    <3>3. QED BY <3>1, <3>2 DEF Archive
  <2>3. CASE ~ContextDiffers(p)
    <3>1. Archiving(p) = {} BY <1>2, <2>1, <2>3, Zenon DEF Archiving
    <3>2. QED BY <3>1
  <2>4. QED BY <2>2, <2>3
<1>3. CASE pc[p] = "library"
  <2>1. pc[p] # "archive" /\ pc[p] # "context" BY <1>3
  <2>2. Archiving(p) =
          {<<d, loc[p][d]>> : d \in {e \in ToMerge(p) : loc[p][e] # None}}
    BY <1>3, <2>1, Zenon DEF Archiving
  <2>3. \A d \in ToMerge(p) : d \in Path BY DocsInPath DEF ToMerge, LibraryDoc
  <2>4. QED BY <1>0, <2>2, <2>3, PresentIsVersion DEF Archive
<1>4. CASE pc[p] \notin {"archive", "context", "library"}
  <2>1. pc[p] # "archive" /\ pc[p] # "context" /\ pc[p] # "library" BY <1>4
  <2>2. Archiving(p) = {} BY <2>1, Zenon DEF Archiving
  <2>3. QED BY <2>2
<1>5. QED BY <1>1, <1>2, <1>3, <1>4

\* An archive write that is cut short keeps the types of the archive.
LEMMA CutShortType ==
    ASSUME TypeOK, NEW archives \in SUBSET Archive, CutShort(archives)
    PROVE  history' \subseteq Archive /\ torn' \subseteq Archive
BY DEF CutShort, Preserve, TypeOK

\* Failed calls, error returns and restarts.
LEMMA FailureType ==
    ASSUME TypeOK, (\E p \in Proc : Interrupted(p) \/ Failed(p)) \/ DeleteFailed \/ Crash
    PROVE  TypeOK'
<1>1. ASSUME NEW p \in Proc, Interrupted(p) PROVE TypeOK'
  <2>1. ScriptOf(p) \in Files
    <3>1. loc[p] \in Files BY DEF TypeOK
    <3>2. CreateOnly(NoFiles, DesiredRemote(loc[p], rem[p])) \in Files
      BY NoFilesType, CreateOnlyType
    <3>3. [NoFiles EXCEPT ![Rules] = OwnerRules] \in Files
      BY NoFilesType, OwnerRulesType, WriteType
    <3>4. QED BY <1>1, <3>1, <3>2, <3>3, ScriptOfCases DEF Interrupted
  <2>2. scripts' \in [Slot -> Files] BY <1>1, <2>1 DEF Interrupted, TypeOK
  <2>3. store' \in Files BY <1>1, OwnerRulesType, WriteType DEF Interrupted, TypeOK
  <2>4. prepared' \in BOOLEAN BY <1>1, Zenon DEF Interrupted, TypeOK
  <2>5. QED
    BY <1>1, <2>2, <2>3, <2>4, FinishType, FaultType DEF Interrupted, TypeOK
<1>2. ASSUME NEW p \in Proc, Failed(p) PROVE TypeOK'
  <2>1. history' \subseteq Archive /\ torn' \subseteq Archive
    BY <1>2, ArchivingType, CutShortType DEF Failed
  <2>2. QED BY <1>2, <2>1, FinishType, FaultType DEF Failed, TypeOK
<1>3. CASE Crash
  <2>1. UNION {Archiving(p) : p \in Proc} \subseteq Archive BY ArchivingType
  <2>2. history' \subseteq Archive /\ torn' \subseteq Archive
    BY <1>3, <2>1, CutShortType DEF Crash
  <2>3. QED
    BY <1>3, <2>2, NoFilesType, StageType, FaultType DEF Crash, TypeOK
<1>4. CASE DeleteFailed
  BY <1>4, FaultType DEF DeleteFailed, TypeOK, disk, procs
<1>5. QED BY <1>1, <1>2, <1>3, <1>4

\* The initial states have their types.
LEMMA TypeInit == Init => TypeOK
<1> SUFFICES ASSUME Init PROVE TypeOK OBVIOUS
<1>1. 0 \in Version BY DEF Version
<1>2. store \in Files BY <1>1 DEF Init, Files, Content
<1>3. server \in Files BY <1>2, NoFilesType DEF Init
<1>4. QED BY <1>1, <1>2, <1>3, NoFilesType, StageType DEF Init, TypeOK

\* Every step keeps the types.
LEMMA TypeStep == TypeOK /\ [Next]_vars => TypeOK'
<1> SUFFICES ASSUME TypeOK, [Next]_vars PROVE TypeOK' OBVIOUS
<1>1. CASE UNCHANGED vars BY <1>1 DEF vars, TypeOK
<1>2. CASE Next
  BY <1>2, AuthorType, ReadType, RecordPassType, DocumentPassType,
     ProvisionType, ScriptType, FailureType
  DEF Next, PassStep, FaultStep
<1>3. QED BY <1>1, <1>2

\* Every variable keeps its type (the state of ai_rooms.rs as modelled).
THEOREM TypeCorrect == Spec => []TypeOK
BY TypeInit, TypeStep, PTL DEF Spec

-----------------------------------------------------------------------------
(* Content-addressed copies.                                               *)

\* The documents of a snapshot hold no copy.
LEMMA DocsIntact ==
    ASSUME NEW f \in Files, CopiesIntact(f)
    PROVE  CopiesIntact(Docs(f))
BY CopyPathType DEF CopiesIntact, Docs

\* The parts of CopyIntegrity about snapshots and about scripts.
SnapshotsIntact == \A p \in Proc : CopiesIntact(loc[p]) /\ CopiesIntact(rem[p])
ScriptsIntact == \A s \in Slot : CopiesIntact(scripts[s])

\* The end of a pass drops its snapshots.
LEMMA FinishIntact ==
    ASSUME TypeOK, CopyIntegrity, NEW p \in Proc, Finish(p)
    PROVE  SnapshotsIntact'
BY NoFilesIntact DEF Finish, TypeOK, CopyIntegrity, SnapshotsIntact

\* Owner and agents do not write copies.
LEMMA AuthorIntact ==
    ASSUME TypeOK, CopyIntegrity, AuthorStep PROVE CopyIntegrity'
<1> USE DEF CopyIntegrity
<1>0. UserDoc \subseteq DocPath BY DEF DocPath, LibraryDoc
<1>1. ASSUME NEW d \in UserDoc, UserEdit(d) PROVE CopyIntegrity'
  <2>1. CopiesIntact(store')
    BY <1>0, <1>1, WriteKeepsCopies DEF UserEdit, TypeOK
  <2>2. QED BY <1>1, <2>1 DEF UserEdit, procs
<1>2. ASSUME NEW d \in UserDoc \cap LibraryDoc, DeleteRemote(d) PROVE CopyIntegrity'
  <2>1. CopiesIntact(server')
    BY <1>0, <1>2, WriteKeepsCopies DEF DeleteRemote, TypeOK
  <2>2. QED BY <1>2, <2>1 DEF DeleteRemote, procs
<1>3. CASE DeleteLocal
  <2>1. deleting \in DocPath BY <1>3 DEF DeleteLocal, TypeOK, DocPath
  <2>2. CopiesIntact(store')
    BY <1>3, <2>1, WriteKeepsCopies DEF DeleteLocal, TypeOK
  <2>3. QED BY <1>3, <2>2 DEF DeleteLocal, procs
<1>4. ASSUME NEW p \in Name \cup AgentDoc, AgentServer(p) PROVE CopyIntegrity'
  <2>1. CopiesIntact(server')
    BY <1>4, WriteKeepsCopies DEF AgentServer, TypeOK
  <2>2. QED BY <1>4, <2>1 DEF AgentServer, procs
<1>5. ASSUME NEW n \in Name, AgentLocal(n) PROVE CopyIntegrity'
  <2>1. CopiesIntact(store')
    BY <1>5, WriteKeepsCopies DEF AgentLocal, TypeOK
  <2>2. QED BY <1>5, <2>1 DEF AgentLocal, procs
<1>6. CASE ServerWiped
  BY <1>6, NoFilesIntact DEF ServerWiped, procs
<1>7. QED BY <1>1, <1>2, <1>3, <1>4, <1>5, <1>6 DEF AuthorStep

\* Snapshots take over what the sides hold.
LEMMA ReadIntact ==
    ASSUME TypeOK, CopyIntegrity,
           \/ AutoRead
           \/ \E p \in Request, kind \in RequestOp : StartRequest(p, kind)
           \/ \E p \in Proc : \/ Acquire(p) \/ PrepareBegin(p)
                              \/ ReadRemote(p) \/ ReadRefused(p) \/ ReadFailed(p)
    PROVE  CopyIntegrity'
<1> USE DEF TypeOK, CopyIntegrity, disk
<1>1. CASE AutoRead BY <1>1 DEF AutoRead, Proc
<1>2. ASSUME NEW p \in Request, NEW kind \in RequestOp, StartRequest(p, kind)
      PROVE  CopyIntegrity'
  BY <1>2 DEF StartRequest
<1>3. ASSUME NEW p \in Proc, Acquire(p) PROVE CopyIntegrity'
  BY <1>3 DEF Acquire
<1>4. ASSUME NEW p \in Proc, PrepareBegin(p) PROVE CopyIntegrity'
  BY <1>4 DEF PrepareBegin
<1>5. ASSUME NEW p \in Proc, ReadRemote(p) PROVE CopyIntegrity'
  BY <1>5 DEF ReadRemote
<1>6. ASSUME NEW p \in Proc, ReadRefused(p) PROVE CopyIntegrity'
  BY <1>6, FinishIntact DEF ReadRefused, SnapshotsIntact
<1>7. ASSUME NEW p \in Proc, ReadFailed(p) PROVE CopyIntegrity'
  BY <1>7, NoFilesIntact DEF ReadFailed
<1>8. QED BY <1>1, <1>2, <1>3, <1>4, <1>5, <1>6, <1>7

\* The writes of a pass to both sides.
LEMMA PassIntact ==
    ASSUME TypeOK, CopyIntegrity, NEW p \in Proc,
           \/ ArchiveConflict(p) \/ ArchiveDone(p)
           \/ CreateLocal(p) \/ CreateDone(p) \/ PushRecords(p)
           \/ SpawnContext(p) \/ SkipContext(p) \/ MergeDecisions(p)
           \/ \E d \in LibraryPath : MergeLibrary(p, d)
           \/ LibraryDone(p) \/ Upgrade(p)
    PROVE  CopyIntegrity'
<1>0. /\ loc[p] \in Files /\ rem[p] \in Files
      /\ CopiesIntact(loc[p]) /\ CopiesIntact(rem[p])
  BY DEF TypeOK, CopyIntegrity
<1>a. /\ Context \in DocPath /\ Decisions \in DocPath /\ Rules \in DocPath
      /\ LibraryPath \subseteq DocPath
  BY DEF DocPath, LibraryDoc
<1> USE DEF CopyIntegrity
<1>1. CASE ArchiveConflict(p) \/ ArchiveDone(p)
  BY <1>1 DEF ArchiveConflict, ArchiveDone, procs, disk
<1>2. CASE CreateLocal(p)
  <2>1. PICK c \in ToCreate(p) : store' = CreateOnly(store, {c})
    BY <1>2 DEF CreateLocal
  <2>2. PlanIntact({c})
    <3>1. c \in DesiredLocal(loc[p], rem[p]) BY <2>1 DEF ToCreate
    <3>2. QED BY <1>0, <3>1, DesiredIntact DEF PlanIntact
  <2>3. CopiesIntact(store') BY <2>1, <2>2, CreateKeepsCopies DEF TypeOK
  <2>4. QED BY <1>2, <2>3 DEF CreateLocal, procs
<1>3. CASE CreateDone(p) BY <1>3 DEF CreateDone, disk
<1>4. CASE PushRecords(p)
  <2>1. CopiesIntact(server')
    BY <1>0, <1>4, DesiredIntact, CreateKeepsCopies DEF PushRecords, TypeOK
  <2>2. SnapshotsIntact'
    BY <1>0, <1>4, DocsIntact DEF PushRecords, TypeOK, SnapshotsIntact
  <2>3. QED BY <1>4, <2>1, <2>2 DEF PushRecords, SnapshotsIntact
<1>5. CASE SpawnContext(p)
  <2>1. CopiesIntact([NoFiles EXCEPT ![Context] = loc[p][Context]])
    BY <1>a, NoFilesType, NoFilesIntact, WriteKeepsCopies
  <2>2. ScriptsIntact'
    BY <1>5, <2>1 DEF SpawnContext, TypeOK, ScriptsIntact
  <2>3. QED BY <1>5, <2>2 DEF SpawnContext, ScriptsIntact
<1>6. CASE SkipContext(p) BY <1>6 DEF SkipContext, disk
<1>7. CASE MergeDecisions(p)
  <2>1. CopiesIntact(store')
    BY <1>a, <1>7, WriteKeepsCopies DEF MergeDecisions, TypeOK
  <2>2. QED BY <1>7, <2>1 DEF MergeDecisions
<1>8. ASSUME NEW d \in LibraryPath, MergeLibrary(p, d) PROVE CopyIntegrity'
  <2>1. CopiesIntact(store')
    BY <1>a, <1>8, WriteKeepsCopies DEF MergeLibrary, TypeOK
  <2>2. CopiesIntact([loc[p] EXCEPT ![d] = rem[p][d]])
    BY <1>0, <1>a, WriteKeepsCopies
  <2>3. SnapshotsIntact'
    BY <1>8, <2>2 DEF MergeLibrary, TypeOK, SnapshotsIntact
  <2>4. QED BY <1>8, <2>1, <2>3 DEF MergeLibrary, SnapshotsIntact
<1>9. CASE LibraryDone(p)
  BY <1>9, FinishIntact DEF LibraryDone, disk, SnapshotsIntact
<1>10. CASE Upgrade(p)
  <2>1. CopiesIntact(store') /\ CopiesIntact(server')
    BY <1>a, <1>10, WriteKeepsCopies DEF Upgrade, TypeOK
  <2>2. QED BY <1>10, <2>1, FinishIntact DEF Upgrade, SnapshotsIntact
<1>11. QED BY <1>1, <1>2, <1>3, <1>4, <1>5, <1>6, <1>7, <1>8, <1>9, <1>10

\* Preparing the server copies the files of a snapshot.
LEMMA ProvisionIntact ==
    ASSUME TypeOK, CopyIntegrity, NEW p \in Proc, Provision(p) \/ ProvisionClash(p)
    PROVE  CopyIntegrity'
<1>0. CopiesIntact(loc[p]) /\ CopiesIntact(server) BY DEF CopyIntegrity
<1>1. CASE Provision(p)
  <2>1. CopiesIntact(server')
    BY <1>0, <1>1, CopyPathType DEF Provision, CopiesIntact
  <2>2. QED BY <1>1, <2>1, FinishIntact DEF Provision, CopyIntegrity, SnapshotsIntact
<1>2. CASE ProvisionClash(p)
  <2>1. CopiesIntact(server')
    BY <1>0, <1>2, CopyPathType DEF ProvisionClash, CopiesIntact
  <2>2. QED
    BY <1>2, <2>1, FinishIntact DEF ProvisionClash, CopyIntegrity, SnapshotsIntact
<1>3. QED BY <1>1, <1>2

\* Late writes on the server.
LEMMA ScriptIntact ==
    ASSUME TypeOK, CopyIntegrity, NEW s \in Slot,
           (\E q \in Path : ScriptStep(s, q)) \/ ScriptDrop(s)
    PROVE  CopyIntegrity'
<1>1. ASSUME NEW q \in Path, ScriptStep(s, q) PROVE CopyIntegrity'
  <2>0. scripts[s] \in Files /\ CopiesIntact(scripts[s])
    BY DEF TypeOK, CopyIntegrity
  <2>1. CopiesIntact(server')
    <3>1. CASE q \in SessionPath
      <4>1. PlanIntact({<<q, scripts[s][q]>>})
        <5>1. scripts[s][q] # None BY <1>1 DEF ScriptStep, Pending
        <5>2. QED BY <2>0, <5>1 DEF PlanIntact, CopiesIntact
      <4>2. QED
        BY <1>1, <3>1, <4>1, CreateKeepsCopies DEF ScriptStep, TypeOK, CopyIntegrity
    <3>2. CASE q \notin SessionPath
      <4>1. q \in DocPath BY <3>2 DEF Path
      <4>2. QED
        BY <1>1, <3>2, <4>1, WriteKeepsCopies DEF ScriptStep, TypeOK, CopyIntegrity
    <3>3. QED BY <3>1, <3>2
  <2>2. CopiesIntact([scripts[s] EXCEPT ![q] = None]) BY <2>0, RemoveKeepsCopies
  <2>3. ScriptsIntact'
    BY <1>1, <2>2, NoFilesIntact, ScriptRest DEF TypeOK, CopyIntegrity, ScriptsIntact
  <2>4. QED BY <1>1, <2>1, <2>3 DEF ScriptStep, CopyIntegrity, ScriptsIntact, procs
<1>2. CASE ScriptDrop(s)
  BY <1>2, NoFilesIntact DEF ScriptDrop, TypeOK, CopyIntegrity, procs, disk
<1>3. QED BY <1>1, <1>2

\* Failed calls, error returns and restarts.
LEMMA FailureIntact ==
    ASSUME TypeOK, CopyIntegrity, (\E p \in Proc : Interrupted(p) \/ Failed(p)) \/ DeleteFailed \/ Crash
    PROVE  CopyIntegrity'
<1>a. Rules \in DocPath BY DEF DocPath, LibraryDoc
<1>1. ASSUME NEW p \in Proc, Interrupted(p) PROVE CopyIntegrity'
  <2>0. /\ loc[p] \in Files /\ rem[p] \in Files
        /\ CopiesIntact(loc[p]) /\ CopiesIntact(rem[p])
    BY DEF TypeOK, CopyIntegrity
  <2>1. CopiesIntact(ScriptOf(p))
    <3>1. CopiesIntact(CreateOnly(NoFiles, DesiredRemote(loc[p], rem[p])))
      BY <2>0, NoFilesType, NoFilesIntact, DesiredIntact, CreateKeepsCopies
    <3>2. CopiesIntact([NoFiles EXCEPT ![Rules] = OwnerRules])
      BY <1>a, NoFilesType, NoFilesIntact, WriteKeepsCopies
    <3>3. QED BY <1>1, <2>0, <3>1, <3>2, ScriptOfCases DEF Interrupted
  <2>2. ScriptsIntact'
    BY <1>1, <2>1 DEF Interrupted, TypeOK, CopyIntegrity, ScriptsIntact
  <2>3. CopiesIntact(store')
    BY <1>1, <1>a, WriteKeepsCopies DEF Interrupted, TypeOK, CopyIntegrity
  <2>4. QED
    BY <1>1, <2>2, <2>3, FinishIntact
    DEF Interrupted, CopyIntegrity, ScriptsIntact, SnapshotsIntact
<1>2. ASSUME NEW p \in Proc, Failed(p) PROVE CopyIntegrity'
  BY <1>2, FinishIntact DEF Failed, CopyIntegrity, SnapshotsIntact, disk
<1>3. CASE Crash
  BY <1>3, NoFilesIntact DEF Crash, CopyIntegrity
<1>4. CASE DeleteFailed
  BY <1>4 DEF DeleteFailed, CopyIntegrity, disk, procs
<1>5. QED BY <1>1, <1>2, <1>3, <1>4

\* At first there are no copies.
LEMMA IntegrityInit == Init => CopyIntegrity
<1> SUFFICES ASSUME Init PROVE CopyIntegrity OBVIOUS
<1>1. \A n \in Name, v \in Version : CopyPath(n, v) \notin DocPath
  BY NotACopy
<1>2. CopiesIntact(store) BY <1>1, CopyPathType DEF Init, CopiesIntact
<1>3. QED BY <1>2, NoFilesIntact DEF Init, CopyIntegrity

\* Every step keeps the copies.
LEMMA IntegrityStep == TypeOK /\ CopyIntegrity /\ [Next]_vars => CopyIntegrity'
<1> SUFFICES ASSUME TypeOK, CopyIntegrity, [Next]_vars PROVE CopyIntegrity'
  OBVIOUS
<1>1. CASE UNCHANGED vars BY <1>1 DEF vars, CopyIntegrity
<1>2. CASE Next
  BY <1>2, AuthorIntact, ReadIntact, PassIntact, ProvisionIntact, ScriptIntact,
     FailureIntact
  DEF Next, PassStep, FaultStep
<1>3. QED BY <1>1, <1>2

\* A content-addressed copy holds its content on both sides, in every snapshot
\* and in every script under way, for every number of passes, requests, late
\* scripts and crashes.
THEOREM CopiesHoldTheirContent == Spec => []CopyIntegrity
BY TypeInit, TypeStep, IntegrityInit, IntegrityStep, PTL DEF Spec

-----------------------------------------------------------------------------
(* Records are never replaced.                                             *)

\* Preparing the server stops at a record it would replace (exit 3).
LEMMA ProvisionKeepsRecords ==
    ASSUME TypeOK, NEW p \in Proc, Provision(p) \/ ProvisionClash(p)
    PROVE  KeepsRecords(server, server')
<1>1. CASE Provision(p)
  BY <1>1 DEF Provision, Clash, Conflicts, KeepsRecords, Path
<1>2. CASE ProvisionClash(p)
  <2>1. PICK done \in SUBSET (SessionPath \ Conflicts(loc[p], server)) :
          server' = [q \in Path |->
              IF q \in done \cup {Context, Decisions} /\ loc[p][q] # None
                THEN loc[p][q] ELSE server[q]]
    BY <1>2 DEF ProvisionClash
  <2>2. ASSUME NEW q \in SessionPath, server[q] # None PROVE server'[q] = server[q]
    <3>1. q \notin {Context, Decisions} BY DEF DocPath
    <3>2. q \in done /\ loc[p][q] # None => loc[p][q] = server[q]
      BY <2>1, <2>2 DEF Conflicts
    <3>3. q \in Path BY DEF Path
    <3>4. QED BY <2>1, <3>1, <3>2, <3>3
  <2>3. QED BY <2>2 DEF KeepsRecords
<1>3. QED BY <1>1, <1>2

\* Every step of the application keeps the records of both sides.
LEMMA ImmutableStep ==
    ASSUME TypeOK, Next, ~AuthorStep
    PROVE  KeepsRecords(store, store') /\ KeepsRecords(server, server')
<1>0. /\ Context \in DocPath /\ Decisions \in DocPath /\ Rules \in DocPath
      /\ LibraryPath \subseteq DocPath
  BY DEF DocPath, LibraryDoc
<1>1. ASSUME NEW p \in Proc, PassStep(p)
      PROVE  KeepsRecords(store, store') /\ KeepsRecords(server, server')
  <2>1. CASE Provision(p) \/ ProvisionClash(p)
    BY <2>1, ProvisionKeepsRecords, SameKeepsRecords DEF Provision, ProvisionClash
  <2>2. CASE CreateLocal(p)
    <3>1. KeepsRecords(store, store')
      BY <2>2, CreateKeepsRecords DEF CreateLocal, TypeOK
    <3>2. QED BY <2>2, <3>1, SameKeepsRecords DEF CreateLocal
  <2>3. CASE PushRecords(p)
    <3>1. KeepsRecords(server, server')
      BY <2>3, CreateKeepsRecords DEF PushRecords, TypeOK
    <3>2. QED BY <2>3, <3>1, SameKeepsRecords DEF PushRecords
  <2>4. CASE MergeDecisions(p)
    <3>1. KeepsRecords(store, store')
      BY <1>0, <2>4, WriteKeepsRecords, SameKeepsRecords DEF MergeDecisions, TypeOK
    <3>2. QED BY <2>4, <3>1, SameKeepsRecords DEF MergeDecisions
  <2>5. ASSUME NEW d \in LibraryPath, MergeLibrary(p, d)
        PROVE  KeepsRecords(store, store') /\ KeepsRecords(server, server')
    <3>1. KeepsRecords(store, store')
      BY <1>0, <2>5, WriteKeepsRecords DEF MergeLibrary, TypeOK
    <3>2. QED BY <2>5, <3>1, SameKeepsRecords DEF MergeLibrary
  <2>6. CASE Upgrade(p)
    BY <1>0, <2>6, WriteKeepsRecords, SameKeepsRecords DEF Upgrade, TypeOK
  <2>7. CASE \/ Acquire(p) \/ PrepareBegin(p) \/ ReadRemote(p) \/ ReadRefused(p)
             \/ ArchiveConflict(p) \/ ArchiveDone(p) \/ CreateDone(p) \/ SpawnContext(p)
             \/ SkipContext(p) \/ LibraryDone(p)
    BY <2>7, SameKeepsRecords
    DEF Acquire, PrepareBegin, ReadRemote, ReadRefused, ArchiveConflict, ArchiveDone,
        CreateDone, SpawnContext, SkipContext, LibraryDone, disk
  <2>8. QED BY <1>1, <2>1, <2>2, <2>3, <2>4, <2>5, <2>6, <2>7 DEF PassStep
<1>2. ASSUME NEW s \in Slot, NEW q \in Path, ScriptStep(s, q)
      PROVE  KeepsRecords(store, store') /\ KeepsRecords(server, server')
  BY <1>2, CreateKeepsRecords, WriteKeepsRecords, SameKeepsRecords
  DEF ScriptStep, TypeOK, Path
<1>3. CASE FaultStep
  <2>1. ASSUME NEW p \in Proc, Interrupted(p)
        PROVE  KeepsRecords(store, store') /\ KeepsRecords(server, server')
    <3>1. KeepsRecords(store, store')
      BY <1>0, <2>1, WriteKeepsRecords, SameKeepsRecords DEF Interrupted, TypeOK
    <3>2. QED BY <2>1, <3>1, SameKeepsRecords DEF Interrupted
  <2>2. QED
    BY <1>3, <2>1, SameKeepsRecords
    DEF FaultStep, ReadFailed, Failed, ScriptDrop, DeleteFailed, Crash, disk
<1>4. CASE AutoRead \/ \E p \in Request, kind \in RequestOp : StartRequest(p, kind)
  BY <1>4, SameKeepsRecords DEF AutoRead, StartRequest, disk
<1>5. QED BY <1>1, <1>2, <1>3, <1>4 DEF Next

\* No step of the application changes or removes an existing session record,
\* with any number of unlocked passes over stale snapshots and late scripts.
THEOREM RecordsNeverReplaced == Spec => RecordsImmutable
<1>1. ASSUME TypeOK, [Next]_vars
      PROVE  [ \/ AuthorStep
               \/ KeepsRecords(store, store') /\ KeepsRecords(server, server') ]_vars
  BY <1>1, ImmutableStep
<1>2. QED BY <1>1, TypeCorrect, PTL DEF Spec, RecordsImmutable
-----------------------------------------------------------------------------
(* The union a pass computes, in every reachable state.                    *)

\* From every reachable state one undisturbed pass leaves the contents of both
\* sides on each and nothing to do for the next (plan_session_union).
THEOREM EveryPassSettles == Spec => []UnionPassSettles
<1>1. TypeOK /\ CopyIntegrity => UnionPassSettles
  <2> SUFFICES ASSUME TypeOK, CopyIntegrity PROVE UnionPassSettles
    OBVIOUS
  <2>1. /\ store \in Files /\ server \in Files
        /\ CopiesIntact(store) /\ CopiesIntact(server)
    BY DEF TypeOK, CopyIntegrity
  <2>2. QED BY <2>1, UnionSettles DEF UnionPassSettles
<1>2. QED BY <1>1, TypeCorrect, CopiesHoldTheirContent, PTL

-----------------------------------------------------------------------------
(* The lock.                                                               *)

\* The end of a pass gives the lock back, if the pass has it.
LEMMA FinishReleases ==
    ASSUME TypeOK, SyncLockHeld, NEW p \in Proc, Finish(p), UNCHANGED op
    PROVE  SyncLockHeld'
BY DEF Finish, Goto, TypeOK, SyncLockHeld, InPass

\* A step from one stage of a pass to another leaves the lock where it is.
LEMMA StayInPass ==
    ASSUME TypeOK, SyncLockHeld, NEW p \in Proc, NEW stage, InPass(p),
           stage \notin {"idle", "wait", "prepare"},
           Goto(p, stage), UNCHANGED <<lock, op>>
    PROVE  SyncLockHeld'
BY DEF Goto, TypeOK, SyncLockHeld, InPass

\* So does a step that moves no process.
LEMMA NobodyMoves ==
    ASSUME SyncLockHeld, UNCHANGED <<lock, pc, op>> PROVE SyncLockHeld'
BY DEF SyncLockHeld, InPass

\* Starting a pass takes the lock where it must.
LEMMA LockStart ==
    ASSUME TypeOK, SyncLockHeld,
           \/ AutoRead
           \/ \E p \in Request, kind \in RequestOp : StartRequest(p, kind)
           \/ \E p \in Proc : Acquire(p) \/ PrepareBegin(p)
    PROVE  SyncLockHeld'
<1>0. Loop \in Proc /\ Request \subseteq Proc BY DEF Proc
<1> USE DEF SyncLockHeld, InPass, Goto, TypeOK
<1>1. CASE AutoRead BY <1>0, <1>1 DEF AutoRead
<1>2. ASSUME NEW p \in Request, NEW kind \in RequestOp, StartRequest(p, kind)
      PROVE  SyncLockHeld'
  BY <1>0, <1>2 DEF StartRequest
<1>3. ASSUME NEW p \in Proc, Acquire(p) PROVE SyncLockHeld'
  BY <1>3 DEF Acquire
<1>4. ASSUME NEW p \in Proc, PrepareBegin(p) PROVE SyncLockHeld'
  BY <1>4 DEF PrepareBegin
<1>5. QED BY <1>1, <1>2, <1>3, <1>4

\* Every step keeps the lock with the passes that need it.
LEMMA LockStep == TypeOK /\ SyncLockHeld /\ [Next]_vars => SyncLockHeld'
<1> SUFFICES ASSUME TypeOK, SyncLockHeld, [Next]_vars PROVE SyncLockHeld'
  OBVIOUS
<1>1. CASE UNCHANGED vars BY <1>1, NobodyMoves DEF vars
<1>2. CASE \/ AuthorStep \/ DeleteFailed
           \/ \E s \in Slot : ScriptDrop(s) \/ \E q \in Path : ScriptStep(s, q)
  BY <1>2, NobodyMoves
  DEF AuthorStep, UserEdit, DeleteRemote, DeleteLocal, AgentServer, AgentLocal,
      ServerWiped, DeleteFailed, ScriptStep, ScriptDrop, procs
<1>3. CASE AutoRead \/ \E p \in Request, kind \in RequestOp : StartRequest(p, kind)
  BY <1>3, LockStart
<1>4. ASSUME NEW p \in Proc, PassStep(p) PROVE SyncLockHeld'
  <2>1. CASE Acquire(p) \/ PrepareBegin(p) BY <2>1, LockStart
  <2>2. CASE ReadRemote(p)
    <3>1. AfterRead(op[p], server) \notin {"idle", "wait", "prepare"}
      BY DEF AfterRead
    <3>2. QED BY <2>2, <3>1, StayInPass DEF ReadRemote, InPass
  <2>3. CASE ArchiveConflict(p) \/ CreateLocal(p) \/ \E d \in LibraryPath : MergeLibrary(p, d)
    BY <2>3, NobodyMoves DEF ArchiveConflict, CreateLocal, MergeLibrary, procs
  <2>4. CASE \/ ArchiveDone(p) \/ CreateDone(p) \/ PushRecords(p)
             \/ SpawnContext(p) \/ SkipContext(p) \/ MergeDecisions(p)
    BY <2>4, StayInPass
    DEF ArchiveDone, CreateDone, PushRecords, SpawnContext, SkipContext,
        MergeDecisions, InPass
  <2>5. CASE ReadRefused(p) \/ Upgrade(p) \/ Provision(p) \/ ProvisionClash(p)
    BY <2>5, FinishReleases DEF ReadRefused, Upgrade, Provision, ProvisionClash
  <2>6. CASE LibraryDone(p)
    <3>1. CASE op[p] = "import"
      BY <2>6, <3>1, FinishReleases DEF LibraryDone
    <3>2. CASE op[p] # "import"
      BY <2>6, <3>2, StayInPass DEF LibraryDone, InPass
    <3>3. QED BY <3>1, <3>2
  <2>7. QED BY <1>4, <2>1, <2>2, <2>3, <2>4, <2>5, <2>6 DEF PassStep
<1>5. ASSUME NEW p \in Proc, ReadFailed(p) \/ Interrupted(p) \/ Failed(p)
      PROVE  SyncLockHeld'
  BY <1>5, StayInPass, FinishReleases DEF ReadFailed, Interrupted, Failed, InPass
<1>6. CASE Crash
  BY <1>6 DEF Crash, SyncLockHeld, InPass
<1>7. QED BY <1>1, <1>2, <1>3, <1>4, <1>5, <1>6 DEF Next, FaultStep

\* Two locked passes never overlap, on every path through them and every way
\* out, with any number of requests (SYNC_LOCK).
THEOREM LockDiscipline == Spec => []SyncLockHeld
<1>1. Init => SyncLockHeld BY DEF Init, SyncLockHeld, InPass
<1>2. QED BY <1>1, TypeCorrect, LockStep, PTL DEF Spec
=============================================================================
