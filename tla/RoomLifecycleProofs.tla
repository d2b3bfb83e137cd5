------------------------ MODULE RoomLifecycleProofs ------------------------
(***************************************************************************)
(* RoomLifecycle: no directory of the user is removed, and the two files   *)
(* of a room agree with its row, for any number of rooms, directories,     *)
(* names, servers, updates and failures.                                   *)
(***************************************************************************)
EXTENDS RoomLifecycle, TLAPS

-----------------------------------------------------------------------------
(* Types.                                                                  *)

\* Where a creation or a job is tells whether there is one.
LEMMA UnderWay ==
    ASSUME TypeOK
    PROVE  /\ \A r \in Room : /\ making[r].at \notin {"idle", "done"} => making[r] \in Creation
                              /\ making[r].at \in {"idle", "done"} => making[r] \in Ended
           /\ job.at # "idle" => job \in Job
           /\ job # Idle => job \in Job /\ job.at # "idle"
BY DEF TypeOK, Ended, Creation, Job, Idle

CreationStep == {"mkdir", "check", "insert", "json", "md", "finish", "undo", "remove"}

\* What a creation does next.
LEMMA MakingType ==
    ASSUME TypeOK, NEW r \in Room,
           \/ Made(r)
           \/ /\ making[r].at \notin {"idle", "done"}
              /\ \E at \in CreationStep : Making(r, at)
    PROVE  making' \in [Room -> Ended \cup Creation]
<1>1. CASE Made(r)
  BY <1>1 DEF TypeOK, Made, Ended
<1>2. ASSUME making[r].at \notin {"idle", "done"}, NEW at \in CreationStep, Making(r, at)
      PROVE  making' \in [Room -> Ended \cup Creation]
  <2>1. making[r] \in Creation
    BY <1>2, UnderWay
  <2>2. [making[r] EXCEPT !.at = at] \in Creation
    BY <2>1 DEF Creation, CreationStep
  <2> QED BY <1>2, <2>2 DEF TypeOK, Making
<1> QED BY <1>1, <1>2

\* A failure counts up to the bound.
LEMMA FailureType ==
    ASSUME TypeOK, Works \/ Fails PROVE failures' \in 0 .. MaxFailure
BY LifecycleAssumption DEF TypeOK, Works, Fails

\* A directory that has one of the two files is a directory with files.
Stores ==
    /\ dir \in [Root -> {"absent", "empty", "filled"}]
    /\ json \in [Root -> Json \cup {Torn, None}] /\ md \in [Root -> Md \cup {Torn, None}]
    /\ \A d \in Root : json[d] # None \/ md[d] # None => dir[d] = "filled"

\* A step on the files of a row.
Writes(r, w) == WriteJson(r, w) \/ JsonFails(w) \/ WriteMd(r, w) \/ MdFails(w)

\* Only the files of directory d may change.
OnlyIn(d) == \A e \in Root \ {d} : json'[e] = json[e] /\ md'[e] = md[e]

\* Writing the files of a row keeps the stores so, removes no directory, and leaves
\* the others alone.
LEMMA WriteType ==
    ASSUME TypeOK, NEW r \in Room, NEW w \in Row, Writes(r, w)
    PROVE  /\ Stores' /\ failures' \in 0 .. MaxFailure /\ OnlyIn(w.root)
           /\ \A d \in Root : dir[d] # "absent" => dir'[d] # "absent"
<1>1. failures' \in 0 .. MaxFailure
  BY FailureType DEF Writes, WriteJson, JsonFails, WriteMd, MdFails
<1>2. w.root \in Root /\ JsonOf(r, w) \in Json /\ MdOf(r, w) \in Md
  BY DEF Row, JsonOf, MdOf, Json, Md
<1>3. CASE WriteJson(r, w)
  BY <1>1, <1>2, <1>3 DEF WriteJson, TypeOK, Stores, OnlyIn
<1>4. CASE JsonFails(w)
  BY <1>1, <1>2, <1>4 DEF JsonFails, TypeOK, Stores, OnlyIn
<1>5. CASE WriteMd(r, w)
  BY <1>1, <1>2, <1>5 DEF WriteMd, TypeOK, Stores, OnlyIn
<1>6. CASE MdFails(w)
  BY <1>1, <1>2, <1>6 DEF MdFails, TypeOK, Stores, OnlyIn
<1> QED BY <1>3, <1>4, <1>5, <1>6 DEF Writes

\* So does removing an empty directory.
LEMMA RemoveEmptyType ==
    ASSUME TypeOK, NEW r \in Room, making[r].at \notin {"idle", "done"},
           RemoveEmpty(r), UNCHANGED <<json, md>>
    PROVE  Stores'
<1>1. making[r].row.root \in Root
  BY UnderWay DEF Creation, Row
<1> QED BY <1>1 DEF RemoveEmpty, TypeOK, Stores

\* The rooms a step crosses are rooms.
LEMMA CrossedType ==
    ASSUME NEW r, NEW d PROVE Crossed(r, d) \subseteq Room
BY DEF Crossed, Registered

\* The steps of create_room and delete_room keep the types.
LEMMA CreateType ==
    ASSUME TypeOK, NEW r \in Room, CreateStep(r) \/ DeleteRoom(r)
    PROVE  TypeOK'
<1>1. CASE MakeRoot(r)
  <2>1. making' \in [Room -> Ended \cup Creation] /\ failures' \in 0 .. MaxFailure
    BY <1>1, MakingType, FailureType DEF MakeRoot, CreationStep
  <2>2. making[r].row.root \in Root
    BY <1>1, UnderWay DEF MakeRoot, Creation, Row
  <2>3. Stores'
    BY <1>1, <2>2 DEF MakeRoot, TypeOK, Stores
  <2> QED BY <1>1, <2>1, <2>3 DEF MakeRoot, creating, TypeOK, Stores
<1>2. CASE CheckRows(r)
  <2>1. making' \in [Room -> Ended \cup Creation] /\ failures' \in 0 .. MaxFailure
    BY <1>2, MakingType, FailureType DEF CheckRows, CreationStep
  <2>2. Stores'
    BY <1>2, RemoveEmptyType DEF CheckRows, TypeOK, Stores
  <2> QED BY <1>2, <2>1, <2>2 DEF CheckRows, creating, TypeOK, Stores
<1>3. CASE InsertRow(r)
  <2>1. making' \in [Room -> Ended \cup Creation] /\ failures' \in 0 .. MaxFailure
    BY <1>3, MakingType, FailureType DEF InsertRow, CreationStep
  <2>2. Stores'
    BY <1>3, RemoveEmptyType DEF InsertRow, TypeOK, Stores
  <2>3. making[r].row \in Row
    BY <1>3, UnderWay DEF InsertRow, Creation
  <2>4. row' \in [Room -> Row \cup {None}]
    BY <1>3, <2>3 DEF InsertRow, TypeOK
  <2> QED BY <1>3, <2>1, <2>2, <2>4 DEF InsertRow, creating, TypeOK, Stores
<1>4. CASE WriteStore(r)
  <2>1. making' \in [Room -> Ended \cup Creation]
    BY <1>4, MakingType DEF WriteStore, CreationStep
  <2>2. making[r].row \in Row
    BY <1>4, UnderWay DEF WriteStore, Creation
  <2>3. Writes(r, making[r].row)
    BY <1>4 DEF WriteStore, Writes
  <2>4. Stores' /\ failures' \in 0 .. MaxFailure
    BY <2>2, <2>3, WriteType
  <2>5. strayed' \subseteq Room
    BY <1>4, CrossedType DEF WriteStore, TypeOK
  <2> QED BY <1>4, <2>1, <2>4, <2>5 DEF WriteStore, creating, TypeOK, Stores
<1>5. CASE FinishStore(r)
  <2>1. making' \in [Room -> Ended \cup Creation] /\ failures' \in 0 .. MaxFailure
    BY <1>5, MakingType, FailureType DEF FinishStore, RestWorks, RestFails, CreationStep
  <2> QED BY <1>5, <2>1 DEF FinishStore, creating, disk, TypeOK
<1>6. CASE UndoRow(r)
  <2>1. making' \in [Room -> Ended \cup Creation] /\ failures' \in 0 .. MaxFailure
    BY <1>6, MakingType, FailureType DEF UndoRow, CreationStep
  <2>2. row' \in [Room -> Row \cup {None}] /\ strayed' \subseteq Room
    BY <1>6 DEF UndoRow, TypeOK
  <2> QED BY <1>6, <2>1, <2>2 DEF UndoRow, creating, disk, TypeOK
<1>7. CASE RemoveStore(r)
  <2>1. making' \in [Room -> Ended \cup Creation] /\ failures' \in 0 .. MaxFailure
    BY <1>7, MakingType, FailureType DEF RemoveStore
  <2>2. making[r].row.root \in Root
    BY <1>7, UnderWay DEF RemoveStore, Creation, Row
  <2>3. Stores'
    BY <1>7, <2>2 DEF RemoveStore, disk, TypeOK, Stores
  <2>4. strayed' \subseteq Room
    BY <1>7, CrossedType DEF RemoveStore, TypeOK
  <2> QED BY <1>7, <2>1, <2>3, <2>4 DEF RemoveStore, creating, TypeOK, Stores
<1>8. CASE DeleteRoom(r)
  BY <1>8 DEF DeleteRoom, disk, TypeOK
<1> QED BY <1>1, <1>2, <1>3, <1>4, <1>5, <1>6, <1>7, <1>8 DEF CreateStep

\* So does preparing the directory.
LEMMA PrepareType ==
    ASSUME TypeOK, NEW r \in Room, NEW w \in Row, NEW allowed \in BOOLEAN,
           PrepareRoot(r, w, allowed)
    PROVE  TypeOK'
<1>1. [at |-> "mkdir", row |-> w, created |-> TRUE] \in Creation
      /\ [at |-> "check", row |-> w, created |-> FALSE] \in Creation
  BY DEF Creation
<1>2. making' \in [Room -> Ended \cup Creation]
  <2>1. \/ making' = [making EXCEPT ![r] = [at |-> "mkdir", row |-> w, created |-> TRUE]]
        \/ making' = [making EXCEPT ![r] = [at |-> "check", row |-> w, created |-> FALSE]]
        \/ Made(r)
    BY DEF PrepareRoot
  <2> QED BY <1>1, <2>1, MakingType DEF TypeOK
<1>3. failures' \in 0 .. MaxFailure
  BY FailureType DEF PrepareRoot
<1> QED BY <1>2, <1>3 DEF PrepareRoot, creating, disk, TypeOK

\* What starts a job.
Begins(r) ==
    \/ InitializeRoom(r) \/ Upgrade(r)
    \/ \E n \in Name : UpdateProfile(r, n)
    \/ \E s \in Site0 : UpdateConnection(r, s)

\* A job that starts has a type.
LEMMA ChangeType ==
    ASSUME TypeOK, NEW r \in Room, NEW w \in Row,
           NEW kind \in {"initialize", "profile", "connection", "upgrade"}, Change(kind, r, w)
    PROVE  TypeOK'
<1>1. row[r] \in Row
  BY DEF Change, TypeOK
<1>2. job' \in Job /\ strayed' \subseteq Room
  BY <1>1 DEF Change, Start, Job, TypeOK
<1>3. updates' \in 0 .. MaxUpdate
  BY LifecycleAssumption DEF Change, TypeOK
<1> QED BY <1>2, <1>3 DEF Change, disk, TypeOK

\* Starting a job keeps the types.
LEMMA BeginsType ==
    ASSUME TypeOK, NEW r \in Room, Begins(r)
    PROVE  TypeOK'
<1>1. CASE InitializeRoom(r)
  <2>1. row[r] \in Row
    BY <1>1 DEF InitializeRoom, Change, TypeOK
  <2> QED BY <1>1, <2>1, ChangeType DEF InitializeRoom
<1>2. CASE Upgrade(r)
  <2>1. job' \in Job /\ strayed' \subseteq Room
    BY <1>2 DEF Upgrade, Start, TypeOK, Job
  <2> QED BY <1>2, <2>1 DEF Upgrade, disk, TypeOK
<1>3. ASSUME NEW n \in Name, UpdateProfile(r, n) PROVE TypeOK'
  <2>1. [row[r] EXCEPT !.name = n] \in Row
    BY <1>3 DEF UpdateProfile, Change, TypeOK, Row
  <2> QED BY <1>3, <2>1, ChangeType DEF UpdateProfile
<1>4. ASSUME NEW s \in Site0, UpdateConnection(r, s) PROVE TypeOK'
  <2>1. [row[r] EXCEPT !.site = s] \in Row
    BY <1>4 DEF UpdateConnection, Change, TypeOK, Row
  <2> QED BY <1>4, <2>1, ChangeType DEF UpdateConnection
<1> QED BY <1>1, <1>2, <1>3, <1>4 DEF Begins

\* Where a job goes on.
LEMMA JobAt ==
    ASSUME TypeOK, job \in Job,
           JobFails \/ \E at \in {"md", "finish"} : JobGoesOn(at)
    PROVE  job' \in {Idle} \cup Job /\ strayed' \subseteq Room
<1>1. \A at \in {"md", "finish", "restore"} : [job EXCEPT !.at = at] \in Job
  BY DEF Job
<1>2. job.room \in Room
  BY DEF Job
<1> QED BY <1>1, <1>2, CrossedType DEF JobFails, JobGoesOn, TypeOK

\* The steps of the holder of SYNC_LOCK keep the types.
LEMMA JobType ==
    ASSUME TypeOK, JobStep
    PROVE  TypeOK'
<1>0. job \in Job
  BY UnderWay DEF JobStep, JobWrite, JobFinish, JobRestore
<1>1. job.room \in Room /\ job.row \in Row /\ job.old \in Row
  BY <1>0 DEF Job
<1>2. CASE JobWrite
  <2>1. job' \in {Idle} \cup Job /\ strayed' \subseteq Room
    BY <1>0, <1>2, JobAt DEF JobWrite
  <2>2. CASE Works /\ UNCHANGED disk
    BY <1>2, <2>1, <2>2 DEF JobWrite, Works, working, disk, TypeOK
  <2>3. CASE Writes(job.room, job.row)
    <3>1. Stores' /\ failures' \in 0 .. MaxFailure
      BY <1>1, <2>3, WriteType
    <3> QED BY <1>2, <2>1, <3>1 DEF JobWrite, working, TypeOK, Stores
  <2> QED BY <1>2, <2>2, <2>3 DEF JobWrite, Writes
<1>3. CASE JobFinish
  <2>1. failures' \in 0 .. MaxFailure
    BY <1>3, FailureType DEF JobFinish, RestWorks, RestFails
  <2>2. job' \in {Idle} \cup Job /\ strayed' \subseteq Room
    BY <1>0, <1>3, JobAt DEF JobFinish, TypeOK
  <2>3. row' \in [Room -> Row \cup {None}]
    <3>1. \A w \in Row : [w EXCEPT !.version = Current] \in Row
      BY DEF Row
    <3> QED BY <1>1, <1>3, <3>1 DEF JobFinish, Upgraded, TypeOK
  <2> QED BY <1>3, <2>1, <2>2, <2>3 DEF JobFinish, working, disk, TypeOK
<1>4. CASE JobRestore
  <2>1. failures' \in 0 .. MaxFailure
    BY <1>4, FailureType DEF JobRestore
  <2>2. CASE row[job.room] # None /\ UNCHANGED strayed
    <3> DEFINE undone == IF job.kind = "profile"
                         THEN [row[job.room] EXCEPT !.name = job.old.name]
                         ELSE [row[job.room] EXCEPT !.site = job.old.site]
    <3>1. undone \in Row
      BY <1>1, <2>2 DEF TypeOK, Row
    <3>2. [job EXCEPT !.at = "json", !.kind = "back", !.row = undone] \in Job
      BY <1>0, <3>1 DEF Job
    <3>3. row' = [row EXCEPT ![job.room] = undone] \/ UNCHANGED row
      BY <1>4 DEF JobRestore
    <3>4. job' = Idle \/ job' = [job EXCEPT !.at = "json", !.kind = "back", !.row = undone]
      BY <1>4 DEF JobRestore
    <3> HIDE DEF undone
    <3>5. row' \in [Room -> Row \cup {None}] /\ job' \in {Idle} \cup Job
      BY <3>1, <3>2, <3>3, <3>4 DEF TypeOK
    <3> QED BY <1>4, <2>1, <2>2, <3>5 DEF JobRestore, working, disk, TypeOK
  <2>3. CASE job' = Idle /\ strayed' = strayed \cup {job.room} /\ UNCHANGED row
    BY <1>1, <1>4, <2>1, <2>3 DEF JobRestore, working, disk, TypeOK
  <2> QED BY <1>4, <2>2, <2>3 DEF JobRestore
<1> QED BY <1>2, <1>3, <1>4 DEF JobStep

\* No step leaves the types.
LEMMA NextType == TypeOK /\ [Next]_vars => TypeOK'
<1> SUFFICES ASSUME TypeOK, [Next]_vars PROVE TypeOK'
  OBVIOUS
<1>1. CASE UNCHANGED vars
  BY <1>1 DEF vars, disk, TypeOK
<1>2. CASE LoopRead
  BY <1>2 DEF LoopRead, disk, TypeOK
<1>3. ASSUME NEW r \in Room, NEW w \in First, NEW allowed \in BOOLEAN, PrepareRoot(r, w, allowed)
      PROVE  TypeOK'
  BY <1>3, PrepareType DEF First
<1> QED BY <1>1, <1>2, <1>3, CreateType, BeginsType, JobType DEF Next, Begins

\* The types hold at the start.
LEMMA InitType == Init => TypeOK
<1> SUFFICES ASSUME Init PROVE TypeOK
  OBVIOUS
<1>1. row \in [Room -> Row \cup {None}]
  BY DEF Init, First
<1>2. making \in [Room -> Ended \cup Creation]
  BY DEF Init, Ended, Idle
<1>3. updates \in 0 .. MaxUpdate /\ failures \in 0 .. MaxFailure
  BY LifecycleAssumption DEF Init
<1>4. \A d \in Root : json[d] # None \/ md[d] # None => dir[d] = "filled"
  BY DEF Init
<1>5. /\ json \in [Root -> Json \cup {Torn, None}] /\ md \in [Root -> Md \cup {Torn, None}]
      /\ dir \in [Root -> {"absent", "empty", "filled"}]
  BY DEF Init
<1> QED BY <1>1, <1>2, <1>3, <1>4, <1>5 DEF Init, NoRows, TypeOK

\* The types hold in every state: among them, that the files of a room are only
\* ever in a directory that counts as filled, which create_room never removes with
\* remove_dir.
THEOREM Types == Spec => []TypeOK
BY InitType, NextType, PTL DEF Spec

-----------------------------------------------------------------------------
(* The invariant.                                                          *)

\* A directory has one room: local_root is unique.
OneRoom ==
    \A r, o \in Room : row[r] # None /\ row[o] # None /\ row[r].root = row[o].root => r = o

JobOn(r) == job # Idle /\ job.room = r
Repeats == job.kind \in {"initialize", "upgrade"}

\* Before its row is inserted nobody knows a room.
Unknown ==
    \A r \in Room : making[r].at \in {"idle", "mkdir", "check", "insert"} =>
        row[r] = None /\ cycle[r] = None /\ ~JobOn(r)

\* A creation has made its directory if it says so, the row that it inserted is its
\* own as long as nothing else works on the room, and it removes a store only after
\* the row.
Creations ==
    \A r \in Room : making[r].at \notin {"idle", "done"} =>
        /\ making[r].row.version = Old
        /\ making[r].created => making[r].row.root \notin owned
        /\ row[r] # None => row[r].root = making[r].row.root
        /\ row[r] # None /\ r \notin strayed => row[r] = making[r].row /\ ~JobOn(r)
        /\ making[r].at = "remove" => row[r] = None /\ making[r].created

\* Rows that were read earlier are of the same directory.
Roots ==
    /\ \A r \in Room : row[r] # None /\ cycle[r] # None => cycle[r].root = row[r].root
    /\ job # Idle => job.row.root = job.old.root
    /\ job # Idle /\ row[job.room] # None => job.row.root = row[job.room].root

\* SYNC_LOCK keeps the row of an update as the update made it, and an update changes
\* one part of the row.
JobRow ==
    job # Idle =>
        /\ job.at = "restore" => Compensates
        /\ row[job.room] # None /\ job.room \notin strayed => row[job.room] = job.row
        /\ job.kind = "profile" => job.row.site = job.old.site /\ job.row.version = job.old.version
        /\ job.kind = "connection" => job.row.name = job.old.name /\ job.row.version = job.old.version
        /\ job.at = "md" => job.row.version # Newer

\* Which row the files of a room repeat: while a job is under way the one it
\* began with until it has written them, the one it made afterwards.  Nothing is
\* known when a connection is restored: either file may have been written.
Agrees(r) ==
    /\ making[r].at = "md" => json[row[r].root] = JsonOf(r, row[r])
    /\ making[r].at \in {"finish", "done"} /\ ~JobOn(r) => Says(r, row[r])
    /\ JobOn(r) /\ job.at = "json" /\ Compensates => Says(r, job.old)
    /\ JobOn(r) /\ job.at = "json" /\ Repeats => Says(r, row[r])
    /\ JobOn(r) /\ job.at = "md" =>
        /\ json[row[r].root] = JsonOf(r, row[r])
        /\ Repeats => md[row[r].root] = MdOf(r, row[r])
    /\ JobOn(r) /\ job.at = "finish" => Says(r, row[r])
    /\ JobOn(r) /\ job.at = "restore" /\ job.kind = "profile" => Says(r, job.old)
Agreement ==
    \A r \in Room : row[r] # None /\ row[r].version # Newer /\ r \notin strayed => Agrees(r)

RoomInv ==
    /\ TypeOK /\ OneRoom /\ Unknown /\ Creations /\ Roots /\ JobRow /\ Agreement
    /\ UserFilesKept

\* The invariant holds at the start.
LEMMA InitRoom == Init => RoomInv
<1> SUFFICES ASSUME Init PROVE RoomInv
  OBVIOUS
<1>1. TypeOK
  BY InitType
<1>2. OneRoom /\ UserFilesKept
  BY DEF Init, OneRoom, UserFilesKept
<1>3. \A r \in Room : making[r].at \in {"idle", "done"} /\ (making[r].at = "idle" => row[r] = None)
  BY DEF Init, Idle
<1>4. Unknown /\ Creations /\ Roots /\ JobRow
  BY <1>3 DEF Init, NoRows, Unknown, Creations, Roots, JobRow, JobOn
<1>5. Agreement
  BY <1>3 DEF Init, Agreement, Agrees, JobOn
<1> QED BY <1>1, <1>2, <1>4, <1>5 DEF RoomInv

-----------------------------------------------------------------------------
(* What agreement of a room depends on.                                    *)

\* A room agrees as before where its row, its creation and its two files stay, and
\* the job is that of another room or stays too.
LEMMA OthersAgree ==
    ASSUME RoomInv, NEW o \in Room, row'[o] # None, row'[o].version # Newer, o \notin strayed',
           strayed \subseteq strayed',
           row'[o] = row[o], making'[o] = making[o],
           (~JobOn(o) /\ ~JobOn(o)') \/ UNCHANGED job,
           json'[row[o].root] = json[row[o].root], md'[row[o].root] = md[row[o].root]
    PROVE  Agrees(o)'
<1>1. Agrees(o)
  BY DEF RoomInv, Agreement
<1>2. CASE JobOn(o)
  <2>1. UNCHANGED job
    BY <1>2
  <2>2. job.old.root = row[o].root
    BY <1>2 DEF RoomInv, Roots, JobOn
  <2> QED BY <1>1, <1>2, <2>1, <2>2 DEF Agrees, Says, JobOn, Compensates, Repeats
<1>3. CASE ~JobOn(o)
  <2>1. ~JobOn(o)'
    BY <1>3 DEF JobOn
  <2> QED BY <1>1, <1>3, <2>1 DEF Agrees, Says
<1> QED BY <1>2, <1>3

\* The files of a room that a step of another room does not cross stay.
LEMMA NotCrossed ==
    ASSUME RoomInv, NEW r \in Room, NEW d \in Root, OnlyIn(d),
           Crossed(r, d) \subseteq strayed',
           NEW o \in Room \ {r}, row[o] # None, o \notin strayed'
    PROVE  json'[row[o].root] = json[row[o].root] /\ md'[row[o].root] = md[row[o].root]
<1>1. row[o].root \in Root
  BY DEF RoomInv, TypeOK, Row
<1>2. CASE disk' = disk
  BY <1>2 DEF disk
<1>3. CASE disk' # disk
  BY <1>1, <1>3 DEF Crossed, Registered, OnlyIn
<1> QED BY <1>2, <1>3

-----------------------------------------------------------------------------
(* create_room and delete_room.                                            *)

\* What the end of a creation does to the creations ...
LEMMA MadeFacts ==
    ASSUME TypeOK, NEW r \in Room, Made(r)
    PROVE  /\ making'[r] = [at |-> "done"] /\ making'[r].at = "done"
           /\ \A o \in Room \ {r} : making'[o] = making[o]
BY DEF TypeOK, Made

\* ... and what a step of one does.
LEMMA MakingFacts ==
    ASSUME TypeOK, NEW r \in Room, making[r].at \notin {"idle", "done"}, NEW at, Making(r, at)
    PROVE  /\ making'[r].at = at /\ making'[r].row = making[r].row
           /\ making'[r].created = making[r].created
           /\ \A o \in Room \ {r} : making'[o] = making[o]
<1>1. making[r] \in Creation
  BY UnderWay
<1> QED BY <1>1 DEF TypeOK, Making, Creation

\* Removing the empty directory of a failed creation leaves the user's.
LEMMA RemoveEmptyKeeps ==
    ASSUME RoomInv, NEW r \in Room, making[r].at \notin {"idle", "done"},
           RemoveEmpty(r), UNCHANGED owned
    PROVE  UserFilesKept'
BY DEF RoomInv, TypeOK, Creations, UserFilesKept, RemoveEmpty

\* A step of a creation before its row is inserted, or of one that ends without,
\* leaves the invariant to the other rooms.
LEMMA EarlyCreation ==
    ASSUME RoomInv, TypeOK', NEW r \in Room, row[r] = None,
           \A o \in Room \ {r} : making'[o] = making[o],
           \/ making'[r].at = "done"
           \/ /\ making'[r].at \in {"mkdir", "check", "insert"}
              /\ making[r].at \in {"idle", "mkdir", "check", "insert"}
              /\ making'[r].row.version = Old
              /\ making'[r].created => making'[r].row.root \notin owned,
           UserFilesKept', UNCHANGED <<row, json, md, creating>>, strayed \subseteq strayed'
    PROVE  RoomInv'
<1> USE DEF RoomInv
<1>1. UNCHANGED <<row, json, md, job, cycle, owned>>
  BY DEF creating
<1>2. OneRoom'
  BY <1>1 DEF OneRoom
<1>3. Unknown'
  BY <1>1 DEF Unknown, JobOn
<1>4. Creations'
  BY <1>1 DEF Creations, JobOn
<1>5. Roots' /\ JobRow'
  BY <1>1 DEF Roots, JobRow, Compensates
<1>6. Agreement'
  <2> SUFFICES ASSUME NEW o \in Room, row'[o] # None, row'[o].version # Newer, o \notin strayed'
               PROVE  Agrees(o)'
    BY DEF Agreement
  <2> QED BY <1>1, OthersAgree
<1> QED BY <1>2, <1>3, <1>4, <1>5, <1>6

\* Preparing a directory keeps the invariant.
LEMMA PrepareRoom ==
    ASSUME RoomInv, NEW r \in Room, NEW w \in Row, NEW allowed \in BOOLEAN,
           w.version = Old, PrepareRoot(r, w, allowed)
    PROVE  RoomInv'
<1>1. TypeOK'
  BY PrepareType DEF RoomInv
<1>2. making[r].at = "idle" /\ row[r] = None
  BY DEF RoomInv, Unknown, PrepareRoot, Idle
<1>3. w.root \in Root
  BY DEF Row
<1>4. UserFilesKept' /\ UNCHANGED <<row, json, md, creating, strayed>>
  BY DEF RoomInv, UserFilesKept, PrepareRoot, creating, disk
<1>5. CASE Made(r)
  BY <1>1, <1>2, <1>4, <1>5, MadeFacts, EarlyCreation DEF RoomInv
<1>6. CASE /\ dir[w.root] = "absent"
           /\ making' = [making EXCEPT ![r] = [at |-> "mkdir", row |-> w, created |-> TRUE]]
  <2>1. /\ making'[r] = [at |-> "mkdir", row |-> w, created |-> TRUE]
        /\ \A o \in Room \ {r} : making'[o] = making[o]
    BY <1>6 DEF RoomInv, TypeOK
  <2>2. w.root \notin owned
    BY <1>6 DEF RoomInv, UserFilesKept
  <2> QED BY <1>1, <1>2, <1>4, <2>1, <2>2, EarlyCreation
<1>7. CASE making' = [making EXCEPT ![r] = [at |-> "check", row |-> w, created |-> FALSE]]
  <2>1. /\ making'[r] = [at |-> "check", row |-> w, created |-> FALSE]
        /\ \A o \in Room \ {r} : making'[o] = making[o]
    BY <1>7 DEF RoomInv, TypeOK
  <2>2. making'[r].at = "check" /\ making'[r].row = w /\ making'[r].created = FALSE
    BY <2>1
  <2> QED BY <1>1, <1>2, <1>4, <2>1, <2>2, EarlyCreation
<1> QED BY <1>5, <1>6, <1>7 DEF PrepareRoot

\* So do the steps until the row is inserted.
LEMMA InsertRoom ==
    ASSUME RoomInv, NEW r \in Room, MakeRoot(r) \/ CheckRows(r) \/ InsertRow(r)
    PROVE  RoomInv'
<1> USE DEF RoomInv
<1>1. TypeOK'
  BY CreateType DEF CreateStep
<1>2. /\ row[r] = None /\ cycle[r] = None /\ ~JobOn(r)
      /\ making[r].at \in {"mkdir", "check", "insert"} /\ making[r] \in Creation
      /\ making[r].row.root \in Root
  BY UnderWay DEF Unknown, MakeRoot, CheckRows, InsertRow, Creation, Row
<1>3. UNCHANGED <<json, md, creating, strayed>>
  BY DEF MakeRoot, CheckRows, InsertRow
<1>4. UserFilesKept'
  <2>1. CASE MakeRoot(r)
    BY <1>2, <2>1 DEF MakeRoot, creating, UserFilesKept, TypeOK
  <2>2. CASE CheckRows(r) \/ InsertRow(r)
    BY <1>2, <2>2, RemoveEmptyKeeps DEF CheckRows, InsertRow, creating, UserFilesKept
  <2> QED BY <2>1, <2>2
<1>5. CASE Made(r) /\ UNCHANGED row
  BY <1>1, <1>2, <1>3, <1>4, <1>5, MadeFacts, EarlyCreation
<1>6. ASSUME NEW at \in {"check", "insert"}, Making(r, at), UNCHANGED row
      PROVE  RoomInv'
  <2>1. /\ making'[r].at = at /\ making'[r].row = making[r].row
        /\ making'[r].created = making[r].created
        /\ \A o \in Room \ {r} : making'[o] = making[o]
    BY <1>2, <1>6, MakingFacts
  <2>2. /\ making'[r].row.version = Old
        /\ making'[r].created => making'[r].row.root \notin owned
    BY <1>2, <2>1 DEF Creations
  <2> QED BY <1>1, <1>2, <1>3, <1>4, <1>6, <2>1, <2>2, EarlyCreation
<1>7. CASE /\ Registered(making[r].row.root) = {}
           /\ row' = [row EXCEPT ![r] = making[r].row] /\ Making(r, "json")
  <2>1. /\ making'[r].at = "json" /\ making'[r].row = making[r].row
        /\ making'[r].created = making[r].created
        /\ \A o \in Room \ {r} : making'[o] = making[o]
    BY <1>2, <1>7, MakingFacts
  <2>2. row'[r] = making[r].row /\ \A o \in Room \ {r} : row'[o] = row[o]
    BY <1>7 DEF TypeOK
  <2>3. UNCHANGED <<json, md, job, cycle, owned, strayed>>
    BY <1>3 DEF creating
  <2>4. OneRoom'
    BY <1>7, <2>2 DEF OneRoom, Registered
  <2>5. Unknown'
    BY <1>2, <2>1, <2>2, <2>3 DEF Unknown, JobOn
  <2>6. Creations'
    BY <1>2, <2>1, <2>2, <2>3 DEF Creations, JobOn
  <2>7. Roots' /\ JobRow'
    BY <1>2, <2>2, <2>3, UnderWay DEF Roots, JobRow, JobOn, Compensates, Job
  <2>8. Agrees(r)'
    BY <1>2, <2>1, <2>3 DEF Agrees, JobOn
  <2>9. Agreement'
    <3> SUFFICES ASSUME NEW o \in Room \ {r}, row'[o] # None, row'[o].version # Newer,
                        o \notin strayed'
                 PROVE  Agrees(o)'
      BY <2>8 DEF Agreement
    <3> QED BY <2>1, <2>2, <2>3, OthersAgree
  <2> QED BY <1>1, <1>4, <2>4, <2>5, <2>6, <2>7, <2>9
<1> QED BY <1>5, <1>6, <1>7 DEF MakeRoot, CheckRows, InsertRow

\* Writing the two files of a new room keeps the invariant.
LEMMA WriteRoom ==
    ASSUME RoomInv, NEW r \in Room, WriteStore(r)
    PROVE  RoomInv'
<1> USE DEF RoomInv
<1> DEFINE w == making[r].row
<1>1. TypeOK'
  BY CreateType DEF CreateStep
<1>2. making[r].at \in {"json", "md"} /\ w \in Row /\ w.root \in Root
  BY UnderWay DEF WriteStore, Creation, Row
<1>3. UNCHANGED <<row, job, cycle, owned>> /\ Writes(r, w)
  BY DEF WriteStore, creating, Writes
<1>4. PICK at \in {"md", "finish", "undo"} : Making(r, at)
  BY DEF WriteStore
<1>5. /\ making'[r].at = at /\ making'[r].row = making[r].row
      /\ making'[r].created = making[r].created
      /\ \A o \in Room \ {r} : making'[o] = making[o]
  BY <1>2, <1>4, MakingFacts
<1>6. strayed \subseteq strayed' /\ Crossed(r, w.root) \subseteq strayed'
  BY DEF WriteStore
<1>7. OnlyIn(w.root) /\ \A d \in Root : dir[d] # "absent" => dir'[d] # "absent"
  BY <1>2, <1>3, WriteType
<1>8. OneRoom' /\ Unknown' /\ Creations'
  <2>1. OneRoom' /\ Unknown'
    BY <1>2, <1>3, <1>5 DEF OneRoom, Unknown, JobOn
  <2>2. Creations'
    BY <1>2, <1>3, <1>5, <1>6 DEF Creations, JobOn
  <2> QED BY <2>1, <2>2
<1>9. Roots' /\ JobRow'
  BY <1>3, <1>6 DEF Roots, JobRow, Compensates
<1>10. UserFilesKept'
  BY <1>3, <1>7 DEF UserFilesKept, TypeOK
<1>11. ASSUME row'[r] # None, r \notin strayed' PROVE Agrees(r)'
  <2>1. row[r] = w /\ ~JobOn(r)
    BY <1>2, <1>3, <1>6, <1>11 DEF Creations
  <2>2. CASE making[r].at = "json" /\ WriteJson(r, w) /\ Making(r, "md")
    <3>1. json'[w.root] = JsonOf(r, w)
      BY <1>2, <2>2 DEF WriteJson, TypeOK
    <3>2. making'[r].at = "md"
      BY <1>2, <2>2, MakingFacts
    <3> QED BY <1>3, <2>1, <3>1, <3>2 DEF Agrees, JobOn
  <2>3. CASE making[r].at = "md" /\ WriteMd(r, w) /\ Making(r, "finish")
    <3>1. making'[r].at = "finish"
      BY <1>2, <2>3, MakingFacts
    <3>2. row[r].version # Newer
      BY <1>2, <2>1 DEF Creations, Old, Newer
    <3>3. json[w.root] = JsonOf(r, w)
      BY <1>3, <1>6, <1>11, <2>1, <2>3, <3>2 DEF Agreement, Agrees
    <3>4. Says(r, w)'
      BY <1>2, <1>5, <2>3, <3>3 DEF WriteMd, TypeOK, Says, JsonOf, MdOf
    <3> QED BY <1>3, <1>5, <2>1, <3>1, <3>4 DEF Agrees, JobOn
  <2>4. CASE Making(r, "undo")
    <3>1. making'[r].at = "undo"
      BY <1>2, <2>4, MakingFacts
    <3> QED BY <1>3, <2>1, <3>1 DEF Agrees, JobOn
  <2> QED BY <2>2, <2>3, <2>4 DEF WriteStore
<1>12. Agreement'
  <2> SUFFICES ASSUME NEW o \in Room \ {r}, row'[o] # None, row'[o].version # Newer,
                      o \notin strayed'
               PROVE  Agrees(o)'
    BY <1>11 DEF Agreement
  <2>1. json'[row[o].root] = json[row[o].root] /\ md'[row[o].root] = md[row[o].root]
    BY <1>2, <1>3, <1>6, <1>7, NotCrossed
  <2> QED BY <1>3, <1>5, <1>6, <2>1, OthersAgree
<1> QED BY <1>1, <1>8, <1>9, <1>10, <1>12

\* So does the rest of a creation: the other files, and undoing it.
LEMMA FinishRoom ==
    ASSUME RoomInv, NEW r \in Room, FinishStore(r) \/ UndoRow(r)
    PROVE  RoomInv'
<1> USE DEF RoomInv
<1>1. TypeOK'
  BY CreateType DEF CreateStep
<1>2. making[r].at \in {"finish", "undo"}
  BY DEF FinishStore, UndoRow
<1>3. UNCHANGED <<dir, json, md, job, cycle, owned>> /\ strayed \subseteq strayed'
  BY DEF FinishStore, UndoRow, creating, disk
<1>4. /\ making'[r].at \in {"undo", "done", "remove"}
      /\ making'[r].at # "done" => /\ making'[r].row = making[r].row
                                   /\ making'[r].created = making[r].created
      /\ \A o \in Room \ {r} : making'[o] = making[o]
  <2>1. Made(r) \/ Making(r, "undo") \/ Making(r, "remove")
    BY DEF FinishStore, UndoRow
  <2> QED BY <1>2, <2>1, MadeFacts, MakingFacts
<1>5. row' = row \/ row' = [row EXCEPT ![r] = None]
  BY DEF FinishStore, UndoRow
<1>6. row'[r] \in {row[r], None} /\ \A o \in Room \ {r} : row'[o] = row[o]
  BY <1>5 DEF TypeOK
<1>7. making'[r].at = "remove" => making[r].created /\ row'[r] = None
  <2>1. CASE Made(r)
    BY <2>1, MadeFacts
  <2>2. CASE Making(r, "undo")
    BY <1>2, <2>2, MakingFacts
  <2>3. CASE UndoRow(r) /\ row' = [row EXCEPT ![r] = None] /\ making[r].created
    BY <2>3 DEF TypeOK
  <2> QED BY <2>1, <2>2, <2>3 DEF FinishStore, UndoRow
<1>8. OneRoom' /\ Unknown' /\ Roots' /\ JobRow' /\ UserFilesKept'
  <2>1. OneRoom' /\ UserFilesKept'
    BY <1>3, <1>6 DEF OneRoom, UserFilesKept
  <2>2. Unknown'
    BY <1>3, <1>4, <1>6 DEF Unknown, JobOn
  <2>3. Roots' /\ JobRow'
    BY <1>3, <1>6, UnderWay DEF Roots, JobRow, Compensates, Job
  <2> QED BY <2>1, <2>2, <2>3
<1>9. Creations'
  BY <1>2, <1>3, <1>4, <1>6, <1>7 DEF Creations, JobOn
<1>10. Agreement'
  <2>1. ASSUME NEW o \in Room \ {r}, row'[o] # None, row'[o].version # Newer, o \notin strayed'
        PROVE  Agrees(o)'
    BY <1>3, <1>4, <1>6, <2>1, OthersAgree
  <2>2. ASSUME row'[r] # None, row'[r].version # Newer, r \notin strayed' PROVE Agrees(r)'
    <3>1. row'[r] = row[r] /\ ~JobOn(r) /\ Agrees(r)
      BY <1>2, <1>3, <1>6, <2>2 DEF Agreement, Creations
    <3>2. CASE FinishStore(r)
      BY <1>3, <1>4, <2>2, <3>1, <3>2 DEF FinishStore, Agrees, Says, JobOn
    <3>3. CASE UndoRow(r)
      BY <1>6, <2>2, <3>3 DEF UndoRow, TypeOK
    <3> QED BY <3>2, <3>3
  <2> QED BY <2>1, <2>2 DEF Agreement
<1> QED BY <1>1, <1>8, <1>9, <1>10

\* So does removing a store, or a registration.
LEMMA RemoveRoom ==
    ASSUME RoomInv, NEW r \in Room, RemoveStore(r) \/ DeleteRoom(r)
    PROVE  RoomInv'
<1> USE DEF RoomInv
<1>1. TypeOK'
  BY CreateType DEF CreateStep
<1>2. CASE RemoveStore(r)
  <2> DEFINE d == making[r].row.root
  <2>1. row[r] = None /\ d \in Root /\ d \notin owned
    BY <1>2, UnderWay DEF RemoveStore, Creations, Creation, Row
  <2>2. making'[r].at = "done" /\ \A o \in Room \ {r} : making'[o] = making[o]
    BY <1>2, MadeFacts DEF RemoveStore
  <2>3. /\ UNCHANGED <<row, job, cycle, owned>> /\ strayed \subseteq strayed'
        /\ Crossed(r, d) \subseteq strayed'
    BY <1>2 DEF RemoveStore, creating
  <2>4. OneRoom' /\ Unknown' /\ Creations' /\ Roots' /\ JobRow'
    BY <2>2, <2>3 DEF OneRoom, Unknown, Creations, Roots, JobRow, JobOn, Compensates
  <2>5. UserFilesKept'
    BY <1>2, <2>1, <2>3 DEF RemoveStore, UserFilesKept, TypeOK, disk
  <2>6. OnlyIn(d)
    BY <1>2, <2>1 DEF RemoveStore, OnlyIn, TypeOK, disk
  <2>7. Agreement'
    <3> SUFFICES ASSUME NEW o \in Room, row'[o] # None, row'[o].version # Newer, o \notin strayed'
                 PROVE  Agrees(o)'
      BY DEF Agreement
    <3>1. o # r /\ row[o] # None
      BY <2>1, <2>3
    <3>2. json'[row[o].root] = json[row[o].root] /\ md'[row[o].root] = md[row[o].root]
      BY <2>1, <2>3, <2>6, <3>1, NotCrossed
    <3> QED BY <2>2, <2>3, <3>1, <3>2, OthersAgree
  <2> QED BY <1>1, <2>4, <2>5, <2>7
<1>3. CASE DeleteRoom(r)
  <2>1. row'[r] = None /\ \A o \in Room \ {r} : row'[o] = row[o]
    BY <1>3 DEF DeleteRoom, TypeOK
  <2>2. UNCHANGED <<dir, json, md, making, job, cycle, owned, strayed>>
    BY <1>3 DEF DeleteRoom, disk
  <2>3. OneRoom' /\ Unknown' /\ Creations' /\ Roots' /\ JobRow' /\ UserFilesKept'
    BY <2>1, <2>2, UnderWay DEF OneRoom, Unknown, Creations, Roots, JobRow, UserFilesKept, JobOn,
                                Compensates, Job
  <2>4. Agreement'
    <3> SUFFICES ASSUME NEW o \in Room, row'[o] # None, row'[o].version # Newer, o \notin strayed'
                 PROVE  Agrees(o)'
      BY DEF Agreement
    <3> QED BY <2>1, <2>2, OthersAgree
  <2> QED BY <1>1, <2>3, <2>4
<1> QED BY <1>2, <1>3
-----------------------------------------------------------------------------
(* The holder of SYNC_LOCK, and the loop.                                  *)

\* A change of a row that starts a job keeps the invariant.
LEMMA ChangeRoom ==
    ASSUME RoomInv, NEW r \in Room, NEW w \in Row,
           NEW kind \in {"initialize", "profile", "connection"}, Change(kind, r, w),
           w.root = row[r].root, w.version = row[r].version,
           kind = "profile" => w.site = row[r].site,
           kind = "connection" => w.name = row[r].name,
           kind = "initialize" => w = row[r]
    PROVE  RoomInv'
<1> USE DEF RoomInv
<1>1. TypeOK'
  BY ChangeType
<1>2. row[r] # None /\ row[r] \in Row /\ job = Idle
  BY DEF Change, TypeOK
<1>3. row'[r] = w /\ \A o \in Room \ {r} : row'[o] = row[o]
  BY DEF Change, TypeOK
<1>4. UNCHANGED <<dir, json, md, making, cycle, owned>>
  BY DEF Change, disk
<1>5. /\ job' # Idle /\ job'.at = "json" /\ job'.kind = kind /\ job'.room = r
      /\ job'.row = w /\ job'.old = row[r]
  BY DEF Change, Start, Idle
<1>6. strayed \subseteq strayed' /\ (r \notin strayed' => making[r].at = "done")
  BY DEF Change, Start
<1>7. OneRoom' /\ UserFilesKept'
  BY <1>2, <1>3, <1>4 DEF OneRoom, UserFilesKept
<1>8. Unknown'
  BY <1>2, <1>3, <1>4, <1>5 DEF Unknown, JobOn
<1>9. Creations'
  BY <1>2, <1>3, <1>4, <1>5, <1>6 DEF Creations, JobOn
<1>10. Roots' /\ JobRow'
  BY <1>2, <1>3, <1>4, <1>5 DEF Roots, JobRow, Compensates
<1>11. Agreement'
  <2>1. ASSUME NEW o \in Room \ {r}, row'[o] # None, row'[o].version # Newer, o \notin strayed'
        PROVE  Agrees(o)'
    <3>1. ~JobOn(o) /\ ~JobOn(o)'
      BY <1>2, <1>5, <2>1 DEF JobOn
    <3> QED BY <1>3, <1>4, <1>6, <2>1, <3>1, OthersAgree
  <2>2. ASSUME row'[r].version # Newer, r \notin strayed' PROVE Agrees(r)'
    <3>1. Says(r, row[r]) /\ making'[r].at = "done"
      BY <1>2, <1>3, <1>4, <1>6, <2>2 DEF Agreement, Agrees, JobOn
    <3>2. CASE kind = "initialize"
      BY <1>3, <1>4, <1>5, <3>1, <3>2 DEF Agrees, Says, JobOn, Compensates
    <3>3. CASE kind # "initialize"
      BY <1>3, <1>4, <1>5, <3>1, <3>3 DEF Agrees, Says, JobOn, Compensates, Repeats
    <3> QED BY <3>2, <3>3
  <2> QED BY <2>1, <2>2 DEF Agreement
<1> QED BY <1>1, <1>7, <1>8, <1>9, <1>10, <1>11

\* Starting a job keeps the invariant.
LEMMA BeginsRoom ==
    ASSUME RoomInv, NEW r \in Room, Begins(r)
    PROVE  RoomInv'
<1> USE DEF RoomInv
<1>1. CASE InitializeRoom(r)
  <2>1. row[r] \in Row
    BY <1>1 DEF InitializeRoom, Change, TypeOK
  <2> QED BY <1>1, <2>1, ChangeRoom DEF InitializeRoom
<1>2. CASE Upgrade(r)
  <2>1. TypeOK'
    BY <1>2, BeginsType DEF Begins
  <2>2. cycle[r] # None /\ cycle[r] \in Row /\ job = Idle
    BY <1>2 DEF Upgrade, TypeOK
  <2>3. cycle'[r] = None /\ \A o \in Room \ {r} : cycle'[o] = cycle[o]
    BY <1>2 DEF Upgrade, TypeOK
  <2>4. UNCHANGED <<row, dir, json, md, making, owned>>
    BY <1>2 DEF Upgrade, disk
  <2>5. /\ job' # Idle /\ job'.at = "json" /\ job'.kind = "upgrade" /\ job'.room = r
        /\ job'.row = cycle[r] /\ job'.old = cycle[r]
    BY <1>2 DEF Upgrade, Start, Idle
  <2>6. /\ strayed \subseteq strayed'
        /\ r \notin strayed' => making[r].at = "done" /\ row[r] = cycle[r]
    BY <1>2 DEF Upgrade, Start
  <2>7. OneRoom' /\ UserFilesKept'
    BY <2>4 DEF OneRoom, UserFilesKept
  <2>8. Unknown'
    BY <2>2, <2>3, <2>4, <2>5 DEF Unknown, JobOn
  <2>9. Creations'
    BY <2>2, <2>4, <2>5, <2>6 DEF Creations, JobOn
  <2>10. Roots' /\ JobRow'
    BY <2>2, <2>3, <2>4, <2>5, <2>6 DEF Roots, JobRow, Compensates
  <2>11. ASSUME NEW o \in Room \ {r}, row'[o] # None, row'[o].version # Newer, o \notin strayed'
         PROVE  Agrees(o)'
    <3>1. ~JobOn(o) /\ ~JobOn(o)'
      BY <2>2, <2>5, <2>11 DEF JobOn
    <3> QED BY <2>4, <2>6, <2>11, <3>1, OthersAgree
  <2>12. ASSUME row'[r] # None, row'[r].version # Newer, r \notin strayed' PROVE Agrees(r)'
    <3>1. Says(r, row[r]) /\ making'[r].at = "done"
      BY <2>2, <2>4, <2>6, <2>12 DEF Agreement, Agrees, JobOn
    <3> QED BY <2>4, <2>5, <3>1 DEF Agrees, Says, JobOn, Compensates
  <2>13. Agreement'
    BY <2>11, <2>12 DEF Agreement
  <2> QED BY <2>1, <2>7, <2>8, <2>9, <2>10, <2>13
<1>3. ASSUME NEW n \in Name, UpdateProfile(r, n) PROVE RoomInv'
  <2>1. row[r] \in Row
    BY <1>3 DEF UpdateProfile, Change, TypeOK
  <2>2. /\ [row[r] EXCEPT !.name = n] \in Row
        /\ [row[r] EXCEPT !.name = n].root = row[r].root
        /\ [row[r] EXCEPT !.name = n].version = row[r].version
        /\ [row[r] EXCEPT !.name = n].site = row[r].site
    BY <2>1 DEF Row
  <2> QED BY <1>3, <2>2, ChangeRoom DEF UpdateProfile
<1>4. ASSUME NEW s \in Site0, UpdateConnection(r, s) PROVE RoomInv'
  <2>1. row[r] \in Row
    BY <1>4 DEF UpdateConnection, Change, TypeOK
  <2>2. /\ [row[r] EXCEPT !.site = s] \in Row
        /\ [row[r] EXCEPT !.site = s].root = row[r].root
        /\ [row[r] EXCEPT !.site = s].version = row[r].version
        /\ [row[r] EXCEPT !.site = s].name = row[r].name
    BY <2>1 DEF Row
  <2> QED BY <1>4, <2>2, ChangeRoom DEF UpdateConnection
<1> QED BY <1>1, <1>2, <1>3, <1>4 DEF Begins

\* What the steps of a job leave alone, and what the job is.
LEMMA JobFacts ==
    ASSUME RoomInv, JobStep
    PROVE  /\ UNCHANGED working /\ strayed \subseteq strayed' /\ TypeOK'
           /\ job \in Job /\ job # Idle /\ job.room \in Room /\ job.row \in Row
           /\ job.old \in Row /\ job.row.root \in Root
           /\ making[job.room].at \notin {"idle", "mkdir", "check", "insert"}
           /\ OnlyIn(job.row.root) /\ UserFilesKept'
<1> USE DEF RoomInv
<1>1. job \in Job
  BY UnderWay DEF JobStep, JobWrite, JobFinish, JobRestore
<1>2. job # Idle /\ job.room \in Room /\ job.row \in Row /\ job.old \in Row /\ job.row.root \in Root
  BY <1>1 DEF Job, Idle, Row
<1>3. making[job.room].at \notin {"idle", "mkdir", "check", "insert"}
  BY <1>2 DEF Unknown, JobOn
<1>4. UNCHANGED working /\ strayed \subseteq strayed'
  BY DEF JobStep, JobWrite, JobFinish, JobRestore, JobFails, JobGoesOn
<1>5. UNCHANGED disk \/ Writes(job.room, job.row)
  BY DEF JobStep, JobWrite, JobFinish, JobRestore, Writes
<1>6. OnlyIn(job.row.root) /\ UserFilesKept'
  <2>1. CASE UNCHANGED disk
    BY <1>4, <2>1 DEF OnlyIn, UserFilesKept, disk, working
  <2>2. CASE Writes(job.room, job.row)
    <3>1. OnlyIn(job.row.root) /\ \A d \in Root : dir[d] # "absent" => dir'[d] # "absent"
      BY <1>2, <2>2, WriteType
    <3> QED BY <1>4, <3>1 DEF UserFilesKept, TypeOK, working
  <2> QED BY <1>5, <2>1, <2>2
<1> QED BY <1>1, <1>2, <1>3, <1>4, <1>6, JobType

\* The other rooms agree as before after a step of a job that leaves their rows.
LEMMA JobOthers ==
    ASSUME RoomInv, JobStep, job' = Idle \/ job'.room = job.room,
           Crossed(job.room, job.row.root) \subseteq strayed',
           NEW o \in Room \ {job.room}, row'[o] = row[o],
           row'[o] # None, row'[o].version # Newer, o \notin strayed'
    PROVE  Agrees(o)'
<1>1. /\ UNCHANGED making /\ strayed \subseteq strayed'
      /\ job.room \in Room /\ job.row.root \in Root /\ OnlyIn(job.row.root)
  BY JobFacts DEF working
<1>2. json'[row[o].root] = json[row[o].root] /\ md'[row[o].root] = md[row[o].root]
  BY <1>1, NotCrossed
<1>3. ~JobOn(o) /\ ~JobOn(o)'
  BY DEF JobOn
<1> QED BY <1>1, <1>2, <1>3, OthersAgree

\* A job that leaves the rows alone, and ends or goes on, keeps all but agreement.
LEMMA JobKeeps ==
    ASSUME RoomInv, JobStep, UNCHANGED row,
           \/ job' = Idle
           \/ /\ \E at \in {"md", "finish", "restore"} : job' = [job EXCEPT !.at = at]
              /\ job'.at = "restore" => Compensates
              /\ job'.at = "md" => job.row.version # Newer
    PROVE  /\ TypeOK' /\ OneRoom' /\ Unknown' /\ Creations' /\ Roots' /\ JobRow'
           /\ UserFilesKept'
<1> USE DEF RoomInv
<1>1. /\ UNCHANGED <<making, cycle, owned>> /\ strayed \subseteq strayed' /\ TypeOK'
      /\ job \in Job /\ job # Idle /\ job.room \in Room /\ UserFilesKept'
  BY JobFacts DEF working
<1>2. OneRoom'
  BY DEF OneRoom
<1>3. CASE job' = Idle
  BY <1>1, <1>2, <1>3 DEF Unknown, Creations, Roots, JobRow, JobOn
<1>4. ASSUME NEW at \in {"md", "finish", "restore"}, job' = [job EXCEPT !.at = at],
             job'.at = "restore" => Compensates,
             job'.at = "md" => job.row.version # Newer
      PROVE  Unknown' /\ Creations' /\ Roots' /\ JobRow'
  <2>1. /\ job'.at = at /\ job'.kind = job.kind /\ job'.room = job.room
        /\ job'.row = job.row /\ job'.old = job.old
    BY <1>1, <1>4 DEF Job
  <2>2. Unknown' /\ Creations' /\ Roots'
    BY <1>1, <2>1 DEF Unknown, Creations, Roots, JobOn
  <2>3. JobRow'
    BY <1>1, <1>4, <2>1 DEF JobRow, Compensates
  <2> QED BY <2>2, <2>3
<1> QED BY <1>1, <1>2, <1>3, <1>4

\* What is known of a job's room that is not recorded as strayed.
LEMMA JobRoom ==
    ASSUME RoomInv, job # Idle, job.room \in Room, row[job.room] # None,
           row[job.room].version # Newer, job.room \notin strayed
    PROVE  /\ Agrees(job.room) /\ JobOn(job.room)
           /\ row[job.room] = job.row /\ making[job.room].at = "done"
           /\ job.row.root = job.old.root
<1>1. Agrees(job.room) /\ JobOn(job.room) /\ row[job.room] = job.row
  BY DEF RoomInv, Agreement, JobOn, JobRow
<1>2. making[job.room].at = "done"
  BY <1>1 DEF RoomInv, Unknown, Creations
<1> QED BY <1>1, <1>2 DEF RoomInv, Roots

\* A step that fails keeps the agreement of the room it was on.
LEMMA JobFailsRoom ==
    ASSUME RoomInv, JobStep, UNCHANGED row, JobFails,
           job.at \in {"json", "md", "finish"}, NEW r \in Room, r = job.room,
           row'[r] # None, row'[r].version # Newer, r \notin strayed'
    PROVE  Agrees(r)'
<1>1. /\ job \in Job /\ job # Idle /\ UNCHANGED making /\ strayed \subseteq strayed'
  BY JobFacts DEF working
<1>2. Agrees(r) /\ JobOn(r) /\ row[r] = job.row /\ making[r].at = "done" /\ ~HalfWay
      /\ row[r].root = job.old.root
  BY <1>1, JobRoom DEF JobFails
<1>3. CASE job.kind = "connection"
  <2>1. job'.at = "restore" /\ job'.kind = job.kind /\ job'.room = r
    BY <1>1, <1>3 DEF JobFails, Compensates, Job
  <2> QED BY <1>1, <1>2, <1>3, <2>1 DEF Agrees, JobOn, Idle
<1>4. CASE job.kind = "profile"
  <2>1. job'.at = "restore" /\ job'.kind = job.kind /\ job'.room = r /\ job'.old = job.old
    BY <1>1, <1>4 DEF JobFails, Compensates, Job
  <2>2. job.at = "json" /\ UNCHANGED <<json, md>>
    BY <1>2, <1>4 DEF HalfWay
  <2>3. Says(r, job.old)
    BY <1>2, <1>4, <2>2 DEF Agrees, Compensates
  <2> QED BY <1>1, <1>2, <2>1, <2>2, <2>3 DEF Agrees, JobOn, Says, Idle
<1>5. CASE ~Compensates
  <2>1. job' = Idle /\ UNCHANGED <<json, md>> /\ Repeats
    BY <1>1, <1>2, <1>5 DEF JobFails, HalfWay, Compensates, Repeats, Job
  <2>2. Says(r, row[r])
    BY <1>2, <2>1 DEF Agrees, Says
  <2>3. Says(r, row[r])' /\ ~JobOn(r)' /\ making'[r].at = "done"
    BY <1>1, <1>2, <2>1, <2>2 DEF JobOn, Says
  <2> QED BY <2>3 DEF Agrees
<1> QED BY <1>3, <1>4, <1>5 DEF Compensates

\* Writing the two files under SYNC_LOCK keeps the invariant.
LEMMA JobWriteRoom ==
    ASSUME RoomInv, JobWrite
    PROVE  RoomInv'
<1> USE DEF RoomInv
<1>0. PICK r \in Room, w \in Row : r = job.room /\ w = job.row
  BY JobFacts DEF JobStep
<1>1. /\ UNCHANGED making /\ strayed \subseteq strayed' /\ JobStep
      /\ job \in Job /\ job # Idle /\ w.root \in Root
  BY <1>0, JobFacts DEF JobStep, working
<1>2. UNCHANGED row /\ job.at \in {"json", "md"}
  BY DEF JobWrite
<1>3. CASE JobFails
  <2>1. job' # Idle => job' = [job EXCEPT !.at = "restore"] /\ Compensates /\ job'.room = job.room
                       /\ job'.at = "restore"
    BY <1>1, <1>3 DEF JobFails, Job
  <2>2. Crossed(job.room, job.row.root) \subseteq strayed'
    BY <1>3 DEF JobFails
  <2>3. /\ TypeOK' /\ OneRoom' /\ Unknown' /\ Creations' /\ Roots' /\ JobRow' /\ UserFilesKept'
    BY <1>1, <1>2, <2>1, JobKeeps
  <2>4. Agreement'
    <3>1. ASSUME NEW o \in Room \ {r}, row'[o] # None, row'[o].version # Newer, o \notin strayed'
          PROVE  Agrees(o)'
      BY <1>0, <1>1, <1>2, <2>1, <2>2, <3>1, JobOthers
    <3>2. ASSUME row'[r] # None, row'[r].version # Newer, r \notin strayed' PROVE Agrees(r)'
      BY <1>0, <1>1, <1>2, <1>3, <3>2, JobFailsRoom
    <3> QED BY <3>1, <3>2 DEF Agreement
  <2> QED BY <2>3, <2>4
<1>4. ASSUME NEW at \in {"md", "finish"}, JobGoesOn(at),
             \/ /\ job.at = "json" /\ at = "finish" /\ w.version = Newer /\ UNCHANGED disk
             \/ job.at = "json" /\ at = "md" /\ WriteJson(r, w)
             \/ job.at = "md" /\ at = "finish" /\ WriteMd(r, w)
      PROVE  RoomInv'
  <2>1. /\ job' = [job EXCEPT !.at = at] /\ job' # Idle
        /\ job'.at = at /\ job'.kind = job.kind /\ job'.room = job.room
        /\ job'.row = job.row /\ job'.old = job.old
    BY <1>1, <1>4 DEF JobGoesOn, Job, Idle
  <2>2. Crossed(job.room, job.row.root) \subseteq strayed'
    BY <1>4 DEF JobGoesOn
  <2>3. at = "md" => job.row.version # Newer
    BY <1>0, <1>4 DEF WriteJson
  <2>4. /\ TypeOK' /\ OneRoom' /\ Unknown' /\ Creations' /\ Roots' /\ JobRow' /\ UserFilesKept'
    BY <1>1, <1>2, <2>1, <2>3, JobKeeps
  <2>5. ASSUME NEW o \in Room \ {r}, row'[o] # None, row'[o].version # Newer, o \notin strayed'
        PROVE  Agrees(o)'
    BY <1>0, <1>1, <1>2, <2>1, <2>2, <2>5, JobOthers
  <2>6. ASSUME row'[r] # None, row'[r].version # Newer, r \notin strayed' PROVE Agrees(r)'
    <3>1. Agrees(r) /\ JobOn(r) /\ row[r] = w /\ making[r].at = "done"
      BY <1>0, <1>1, <1>2, <2>6, JobRoom
    <3>2. CASE job.at = "json" /\ at = "md" /\ WriteJson(r, w)
      <4>1. json'[w.root] = JsonOf(r, w) /\ UNCHANGED md
        BY <1>1, <3>2 DEF WriteJson, TypeOK
      <4>2. Repeats => md[w.root] = MdOf(r, w)
        BY <3>1, <3>2 DEF Agrees, Says
      <4> QED BY <1>1, <1>2, <2>1, <3>1, <3>2, <4>1, <4>2 DEF Agrees, JobOn, Repeats, JsonOf, MdOf
    <3>3. CASE job.at = "md" /\ at = "finish" /\ WriteMd(r, w)
      <4>1. Says(r, w)'
        <5>1. json[w.root] = JsonOf(r, w)
          BY <3>1, <3>3 DEF Agrees
        <5>2. md'[w.root] = MdOf(r, w) /\ UNCHANGED json
          BY <1>1, <3>3 DEF WriteMd, TypeOK
        <5> QED BY <5>1, <5>2 DEF Says, JsonOf, MdOf
      <4> QED BY <1>1, <1>2, <2>1, <3>1, <3>3, <4>1 DEF Agrees, JobOn
    <3> QED BY <1>2, <1>4, <2>6, <3>1, <3>2, <3>3
  <2> QED BY <2>4, <2>5, <2>6 DEF Agreement
<1> QED BY <1>0, <1>3, <1>4 DEF JobWrite

\* The end of a job keeps it.
LEMMA JobFinishRoom ==
    ASSUME RoomInv, JobFinish
    PROVE  RoomInv'
<1> USE DEF RoomInv
<1>0. PICK r \in Room : r = job.room
  BY JobFacts DEF JobStep
<1>1. /\ UNCHANGED <<making, cycle, owned>> /\ strayed \subseteq strayed' /\ TypeOK' /\ JobStep
      /\ job \in Job /\ job # Idle /\ UserFilesKept'
      /\ making[r].at \notin {"idle", "mkdir", "check", "insert"}
  BY <1>0, JobFacts DEF JobStep, working
<1>2. job.at = "finish" /\ UNCHANGED <<json, md>>
  BY DEF JobFinish, disk
<1>3. CASE JobFails /\ UNCHANGED row
  <2>1. job' # Idle => job' = [job EXCEPT !.at = "restore"] /\ Compensates /\ job'.room = job.room
                       /\ job'.at = "restore"
    BY <1>1, <1>3 DEF JobFails, Job
  <2>2. Crossed(job.room, job.row.root) \subseteq strayed'
    BY <1>3 DEF JobFails
  <2>3. /\ TypeOK' /\ OneRoom' /\ Unknown' /\ Creations' /\ Roots' /\ JobRow' /\ UserFilesKept'
    BY <1>1, <1>3, <2>1, JobKeeps
  <2>4. Agreement'
    <3>1. ASSUME NEW o \in Room \ {r}, row'[o] # None, row'[o].version # Newer, o \notin strayed'
          PROVE  Agrees(o)'
      BY <1>0, <1>1, <1>3, <2>1, <2>2, <3>1, JobOthers
    <3>2. ASSUME row'[r] # None, row'[r].version # Newer, r \notin strayed' PROVE Agrees(r)'
      BY <1>0, <1>1, <1>2, <1>3, <3>2, JobFailsRoom
    <3> QED BY <3>1, <3>2 DEF Agreement
  <2> QED BY <2>3, <2>4
<1>4. CASE job' = Idle /\ (Upgraded(r) \/ UNCHANGED row) /\ UNCHANGED strayed
  <2>1. \A w \in Row : /\ [w EXCEPT !.version = Current].root = w.root
                       /\ [w EXCEPT !.version = Current].name = w.name
                       /\ [w EXCEPT !.version = Current].site = w.site
                       /\ [w EXCEPT !.version = Current].version = Current
    BY DEF Row
  <2>2. /\ row[r] = None => row'[r] = None
        /\ row[r] # None => /\ row'[r].root = row[r].root
                            /\ JsonOf(r, row'[r]) = JsonOf(r, row[r])
                            /\ MdOf(r, row'[r]) = MdOf(r, row[r])
                            /\ row[r].version = Newer => row'[r].version = Newer
        /\ \A o \in Room \ {r} : row'[o] = row[o]
    <3>1. row[r] \in Row \cup {None} /\ \A o \in Room \ {r} : row'[o] = row[o]
      BY <1>4 DEF Upgraded, TypeOK
    <3>2. \/ row'[r] = row[r]
          \/ /\ row[r] # None /\ row[r].version < Current
             /\ row'[r] = [row[r] EXCEPT !.version = Current]
      <4>1. row[r] # None => row[r].version \in {Old, Current, Newer}
        BY <3>1 DEF Row
      <4> QED BY <1>4, <4>1 DEF Upgraded, TypeOK, Old, Current, Newer
    <3>3. row[r] # None /\ row[r].version = Newer => row'[r] = row[r]
      BY <3>2 DEF Current, Newer
    <3> QED BY <2>1, <3>1, <3>2, <3>3 DEF JsonOf, MdOf
  <2>3. \A o \in Room : /\ row'[o] # None => row[o] # None /\ row'[o].root = row[o].root
                        /\ row[o] = None => row'[o] = None
    BY <2>2
  <2>4. OneRoom'
    BY <2>3 DEF OneRoom
  <2>5. Creations'
    <3>1. row[r] # None /\ r \notin strayed => making[r].at = "done"
      BY <1>0, <1>1 DEF Creations, Unknown, JobOn
    <3> QED BY <1>1, <1>4, <2>2, <2>3, <3>1 DEF Creations, JobOn
  <2>6. Unknown' /\ Roots' /\ JobRow'
    BY <1>1, <1>4, <2>3 DEF Unknown, Roots, JobRow, JobOn
  <2>7. ASSUME NEW o \in Room \ {r}, row'[o] # None, row'[o].version # Newer, o \notin strayed'
        PROVE  Agrees(o)'
    <3>1. Crossed(job.room, job.row.root) \subseteq strayed'
      BY DEF JobFinish, Crossed
    <3> QED BY <1>0, <1>1, <1>4, <2>2, <2>7, <3>1, JobOthers
  <2>8. ASSUME row'[r] # None, row'[r].version # Newer, r \notin strayed' PROVE Agrees(r)'
    <3>1. Says(r, row[r]) /\ making[r].at = "done"
      BY <1>0, <1>1, <1>2, <2>2, <2>8, JobRoom DEF Agrees
    <3>2. Says(r, row[r])'
      BY <1>2, <2>2, <2>8, <3>1 DEF Says
    <3> QED BY <1>1, <1>4, <3>1, <3>2 DEF Agrees, JobOn
  <2> QED BY <1>1, <2>4, <2>5, <2>6, <2>7, <2>8 DEF Agreement
<1> QED BY <1>0, <1>3, <1>4 DEF JobFinish

\* Undoing an update in the row keeps it.
LEMMA JobRestoreRoom ==
    ASSUME RoomInv, JobRestore
    PROVE  RoomInv'
<1> USE DEF RoomInv
<1>0. PICK r \in Room : r = job.room
  BY JobFacts DEF JobStep
<1> DEFINE undone == IF job.kind = "profile" THEN [row[r] EXCEPT !.name = job.old.name]
                     ELSE [row[r] EXCEPT !.site = job.old.site]
<1>1. /\ UNCHANGED <<making, cycle, owned>> /\ strayed \subseteq strayed' /\ TypeOK' /\ JobStep
      /\ job \in Job /\ job # Idle /\ job.old \in Row /\ UserFilesKept'
      /\ making[r].at \notin {"idle", "mkdir", "check", "insert"}
  BY <1>0, JobFacts DEF JobStep, working
<1>2. job.at = "restore" /\ UNCHANGED <<json, md>> /\ Compensates
  BY <1>1 DEF JobRestore, disk, JobRow
<1>3. Crossed(job.room, job.row.root) \subseteq strayed'
  BY DEF JobRestore, Crossed
<1>4. CASE /\ row[r] # None /\ row' = [row EXCEPT ![r] = undone] /\ UNCHANGED strayed
           /\ job' = IF job.kind = "profile" THEN Idle
                     ELSE [job EXCEPT !.at = "json", !.kind = "back", !.row = undone]
  <2>1. row[r] \in Row /\ row[r].root = job.old.root /\ (r \notin strayed => row[r] = job.row)
    BY <1>0, <1>1, <1>4 DEF TypeOK, JobRow, Roots
  <2>2. /\ undone.root = row[r].root /\ undone.version = row[r].version
        /\ job.kind = "profile" => undone.name = job.old.name /\ undone.site = row[r].site
    BY <1>1, <1>2, <2>1 DEF Row, Compensates
  <2>3. row'[r] = undone /\ \A o \in Room \ {r} : row'[o] = row[o]
    BY <1>1, <1>4 DEF TypeOK
  <2>4. job.kind # "profile" =>
            /\ job' # Idle /\ job'.at = "json" /\ job'.kind = "back" /\ job'.room = r
            /\ job'.row = undone /\ job'.old = job.old
    BY <1>0, <1>1, <1>2, <1>4 DEF Job, Idle, Compensates
  <2> HIDE DEF undone
  <2>5. \A o \in Room : /\ row'[o] # None => row[o] # None /\ row'[o].root = row[o].root
                        /\ row[o] = None => row'[o] = None
    BY <1>4, <2>2, <2>3
  <2>6. OneRoom'
    BY <2>5 DEF OneRoom
  <2>7. Unknown'
    BY <1>0, <1>1, <1>4, <2>4, <2>5 DEF Unknown, JobOn
  <2>8. Creations'
    <3>1. row[r] # None /\ r \notin strayed => making[r].at = "done"
      BY <1>0, <1>1 DEF Creations, Unknown, JobOn
    <3>2. \A o \in Room \ {r} : ~JobOn(o)'
      BY <1>4, <2>4 DEF JobOn
    <3> QED BY <1>0, <1>1, <1>4, <2>3, <2>5, <3>1, <3>2 DEF Creations
  <2>9. Roots'
    BY <1>1, <1>4, <2>1, <2>2, <2>3, <2>4, <2>5 DEF Roots
  <2>10. JobRow'
    <3>1. CASE job.kind = "profile"
      BY <1>4, <3>1 DEF JobRow
    <3>2. CASE job.kind # "profile"
      BY <2>3, <2>4, <3>2 DEF JobRow, Compensates
    <3> QED BY <3>1, <3>2
  <2>11. ASSUME NEW o \in Room \ {r}, row'[o] # None, row'[o].version # Newer, o \notin strayed'
         PROVE  Agrees(o)'
    BY <1>0, <1>1, <1>3, <1>4, <2>3, <2>4, <2>11, JobOthers
  <2>12. ASSUME row'[r] # None, row'[r].version # Newer, r \notin strayed' PROVE Agrees(r)'
    <3>1. Agrees(r) /\ JobOn(r) /\ row[r] = job.row /\ making[r].at = "done"
      BY <1>0, <1>1, <1>4, <2>2, <2>3, <2>12, JobRoom
    <3>2. CASE job.kind = "profile"
      <4>1. Says(r, job.old)
        BY <1>2, <3>1, <3>2 DEF Agrees
      <4>2. row[r].site = job.old.site
        BY <1>1, <3>1, <3>2 DEF JobRow
      <4>3. Says(r, row[r])'
        BY <1>2, <2>1, <2>2, <2>3, <3>2, <4>1, <4>2 DEF Says, JsonOf, MdOf
      <4> QED BY <1>1, <1>4, <3>1, <3>2, <4>3 DEF Agrees, JobOn
    <3>3. CASE job.kind # "profile"
      BY <1>1, <2>4, <3>1, <3>3 DEF Agrees, JobOn, Compensates, Repeats
    <3> QED BY <3>2, <3>3
  <2> QED BY <1>1, <2>6, <2>7, <2>8, <2>9, <2>10, <2>11, <2>12 DEF Agreement
<1>5. CASE job' = Idle /\ strayed' = strayed \cup {r} /\ UNCHANGED row
  <2>1. /\ TypeOK' /\ OneRoom' /\ Unknown' /\ Creations' /\ Roots' /\ JobRow' /\ UserFilesKept'
    BY <1>1, <1>5, JobKeeps
  <2>2. ASSUME NEW o \in Room \ {r}, row'[o] # None, row'[o].version # Newer, o \notin strayed'
        PROVE  Agrees(o)'
    BY <1>0, <1>1, <1>3, <1>5, <2>2, JobOthers
  <2> QED BY <1>5, <2>1, <2>2 DEF Agreement
<1> QED BY <1>0, <1>4, <1>5 DEF JobRestore

\* Reading the rows that are behind keeps it.
LEMMA LoopRoom ==
    ASSUME RoomInv, LoopRead
    PROVE  RoomInv'
<1>1. TypeOK'
  BY NextType DEF Next, RoomInv
<1>2. \A r \in Room : cycle'[r] = row[r] \/ cycle'[r] = None
  BY DEF LoopRead
<1>3. UNCHANGED <<row, dir, json, md, making, job, owned, strayed>>
  BY DEF LoopRead, disk
<1> QED BY <1>1, <1>2, <1>3 DEF RoomInv, OneRoom, Unknown, Creations, Roots, JobRow, Agreement,
                                Agrees, Says, JobOn, Compensates, Repeats, UserFilesKept

-----------------------------------------------------------------------------
(* The theorems.                                                           *)

\* No step leaves the invariant.
LEMMA NextRoom == RoomInv /\ [Next]_vars => RoomInv'
<1> SUFFICES ASSUME RoomInv, [Next]_vars PROVE RoomInv'
  OBVIOUS
<1>1. CASE UNCHANGED vars
  BY <1>1 DEF vars, disk, RoomInv, TypeOK, OneRoom, Unknown, Creations, Roots, JobRow, Agreement,
              Agrees, Says, JobOn, Compensates, Repeats, UserFilesKept
<1>2. ASSUME NEW r \in Room, CreateStep(r) \/ DeleteRoom(r) PROVE RoomInv'
  BY <1>2, InsertRoom, WriteRoom, FinishRoom, RemoveRoom DEF CreateStep
<1>3. CASE JobStep
  BY <1>3, JobWriteRoom, JobFinishRoom, JobRestoreRoom DEF JobStep
<1>4. ASSUME NEW r \in Room, NEW w \in First, NEW allowed \in BOOLEAN, w.version = Old,
             PrepareRoot(r, w, allowed)
      PROVE  RoomInv'
  BY <1>4, PrepareRoom DEF First
<1> QED BY <1>1, <1>2, <1>3, <1>4, BeginsRoom, LoopRoom DEF Next, Begins

\* The inductive invariant holds in every state.
THEOREM Invariance == Spec => []RoomInv
BY InitRoom, NextRoom, PTL DEF Spec

\* However many creations run in one directory and undo each other, and whatever
\* fails, no directory that was there before is removed: a creation removes only
\* what it has made itself.
THEOREM KeepsFiles == Spec => []UserFilesKept
<1>1. RoomInv => UserFilesKept
  BY DEF RoomInv
<1> QED BY <1>1, Invariance, PTL

\* Once the requests for a room have ended room.json and ROOM.md both say what its
\* row says, whichever step failed, apart from the ways recorded in strayed:
\* SYNC_LOCK keeps the updates of a room from one another, an upgrade or a changed
\* connection that fails between the two files leaves or restores what they said,
\* and creations, which take no lock, meet an update only where that is recorded.
THEOREM Agreed == Spec => []StoreAgrees
<1>1. RoomInv => StoreAgrees
  BY DEF RoomInv, StoreAgrees, Agreement, Agrees, JobOn
<1> QED BY <1>1, Invariance, PTL

=============================================================================
