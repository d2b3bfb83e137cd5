--------------------------- MODULE RoomLifecycle ---------------------------
(***************************************************************************)
(* Registration of AI rooms: create, initialize, rename, reconnect and     *)
(* delete, and the upgrade of instructions by the automatic loop           *)
(* (crates/server/src/routes/ai_rooms.rs, crates/db/src/models/ai_room.rs).*)
(*                                                                         *)
(* A room is a row of the database and a store, a directory in which       *)
(* room.json repeats the room's id and name and ROOM.md the connection     *)
(* too.  Renaming, reconnecting and upgrading hold SYNC_LOCK; creating and *)
(* deleting do not.  The loop works on the rows it read at its start.      *)
(* Every await on the database or on one of the two files separates steps. *)
(***************************************************************************)
EXTENDS Integers

CONSTANTS
    Room, Root, Name,
    Site,            \* servers a room may be connected to
    FirstName, FirstSite,    \* names and connections given at creation
    MaxUpdate,       \* renames, connections and initializations
    MaxFailure,      \* writes, queries and preparations that fail
    None

Old == 1
Current == 2         \* INSTRUCTION_VERSION
Newer == 3           \* a database that a later version of the program used

ASSUME LifecycleAssumption ==
    /\ MaxUpdate \in Nat /\ MaxFailure \in Nat 
    /\ FirstName \subseteq Name /\ FirstSite \subseteq Site \cup {None}
    /\ None \notin Room \cup Root \cup Name \cup Site

VARIABLES
    row,                 \* the table ai_rooms
    dir, json, md,       \* directories, and the room.json and the ROOM.md in them
    making,              \* create_room, per room
    job,                 \* what the holder of SYNC_LOCK does
    cycle,               \* the rows the loop has yet to look at
    updates, failures,
    owned,               \* directories that hold files of the user
    strayed              \* rooms whose store something else worked on, or whose
                         \* request stopped half way: see Crossed and HalfWay

disk == <<dir, json, md>>
vars == <<row, disk, making, job, cycle, updates, failures, owned, strayed>>

Site0 == Site \cup {None}
Row == [root : Root, name : Name, site : Site0, version : {Old, Current, Newer}]
First == {w \in Row : w.name \in FirstName /\ w.site \in FirstSite}
Json == [room : Room, name : Name]
Md == [room : Room, name : Name, site : Site0]
Idle == [at |-> "idle"]
Ended == [at : {"idle", "done"}]
Creation == [at : {"mkdir", "check", "insert", "json", "md", "finish", "undo", "remove"},
             row : Row, created : BOOLEAN]
Job == [at : {"json", "md", "finish", "restore"},
        kind : {"initialize", "profile", "connection", "back", "upgrade"},
        room : Room, row : Row, old : Row]

\* A write that failed may have cut the file short.
Torn == [room |-> None, name |-> None]

TypeOK ==
    /\ row \in [Room -> Row \cup {None}]
    /\ dir \in [Root -> {"absent", "empty", "filled"}]
    /\ json \in [Root -> Json \cup {Torn, None}] /\ md \in [Root -> Md \cup {Torn, None}]
    /\ \A d \in Root : json[d] # None \/ md[d] # None => dir[d] = "filled"
    /\ making \in [Room -> Ended \cup Creation]
    /\ job \in {Idle} \cup Job
    /\ cycle \in [Room -> Row \cup {None}]
    /\ updates \in 0 .. MaxUpdate /\ failures \in 0 .. MaxFailure
    /\ owned \subseteq Root /\ strayed \subseteq Room

NoRows == [r \in Room |-> None]
JsonOf(r, w) == [room |-> r, name |-> w.name]
MdOf(r, w) == [room |-> r, name |-> w.name, site |-> w.site]
Says(r, w) == json[w.root] = JsonOf(r, w) /\ md[w.root] = MdOf(r, w)

Registered(d) == {r \in Room : row[r] # None /\ row[r].root = d}

\* Rooms registered earlier have a complete store; a directory of the user may
\* be empty.
Init ==
    /\ row \in [Room -> First \cup {None}]
    /\ \A r, o \in Room : row[r] # None /\ row[o] # None /\ row[r].root = row[o].root => r = o
    /\ dir \in [Root -> {"absent", "empty", "filled"}]
    /\ \A d \in Root : Registered(d) # {} => dir[d] = "filled"
    /\ json \in [Root -> Json \cup {None}] /\ md \in [Root -> Md \cup {None}]
    /\ \A d \in Root : Registered(d) = {} => json[d] = None /\ md[d] = None
    /\ \A r \in Room : row[r] # None => Says(r, row[r])
    /\ making = [r \in Room |-> IF row[r] = None THEN Idle ELSE [at |-> "done"]]
    /\ owned = {d \in Root : dir[d] # "absent"}
    /\ job = Idle /\ cycle = NoRows
    /\ updates = 0 /\ failures = 0 /\ strayed = {}

Fails == failures < MaxFailure /\ failures' = failures + 1
Works == UNCHANGED failures

-----------------------------------------------------------------------------
(* initialize_local, called with a row w of room r: nothing for a row newer *)
(* than the program; else the directories, room.json, ROOM.md and the rest. *)

\* In a directory that is gone the first write fails.
WriteJson(r, w) ==
    /\ w.version # Newer /\ dir[w.root] # "absent"
    /\ dir' = [dir EXCEPT ![w.root] = "filled"]
    /\ json' = [json EXCEPT ![w.root] = JsonOf(r, w)]
    /\ Works /\ UNCHANGED md

\* An error before room.json is written, or of that write itself
JsonFails(w) ==
    /\ w.version # Newer
    /\ \/ dir[w.root] = "absent" /\ Works /\ UNCHANGED <<dir, json>>
       \/ /\ dir[w.root] # "absent" /\ Fails
          /\ \/ dir' \in {dir, [dir EXCEPT ![w.root] = "filled"]} /\ UNCHANGED json
             \/ /\ dir' = [dir EXCEPT ![w.root] = "filled"]
                /\ json' = [json EXCEPT ![w.root] = Torn]
    /\ UNCHANGED md

\* The directory may have been removed since.
WriteMd(r, w) ==
    /\ dir[w.root] = "filled"
    /\ md' = [md EXCEPT ![w.root] = MdOf(r, w)]
    /\ Works /\ UNCHANGED <<dir, json>>

MdFails(w) ==
    /\ IF dir[w.root] = "filled" THEN Fails /\ md' \in {md, [md EXCEPT ![w.root] = Torn]}
       ELSE Works /\ UNCHANGED md
    /\ UNCHANGED <<dir, json>>

RestWorks(w) == Works /\ (w.version # Newer => dir[w.root] = "filled")
RestFails(w) == IF w.version # Newer /\ dir[w.root] # "filled" THEN Works ELSE Fails

\* A step of room r in directory d changes the store of a room registered there.
Crossed(r, d) == IF disk' = disk THEN {} ELSE Registered(d) \ {r}

-----------------------------------------------------------------------------
(* create_room                                                             *)

Making(r, at) == making' = [making EXCEPT ![r].at = at]
Made(r) == making' = [making EXCEPT ![r] = [at |-> "done"]]
\* Mutant: remove_dir_all.
RemoveAny(r) ==
    LET d == making[r].row.root IN
    dir' = IF making[r].created THEN [dir EXCEPT ![d] = "absent"] ELSE dir

\* fs::remove_dir succeeds on an empty directory only
RemoveEmpty(r) ==
    LET d == making[r].row.root IN
    dir' = IF making[r].created /\ dir[d] = "empty" THEN [dir EXCEPT ![d] = "absent"] ELSE dir

creating == <<job, cycle, updates, owned>>

\* Mutant: every directory that is accepted counts as created.
PrepareRootCreated(r, w, allowed) ==
    /\ making[r] = Idle
    /\ dir[w.root] = "filled" => json[w.root] = None /\ allowed
    /\ making' = [making EXCEPT ![r] = [at |-> "mkdir", row |-> w, created |-> TRUE]]
    /\ UNCHANGED <<row, disk, creating, failures, strayed>>

\* prepare_local_root: only room.json tells that there is an installation.
PrepareRoot(r, w, allowed) ==
    LET d == w.root
        accepted == dir[d] = "filled" => json[d] = None /\ allowed
        Go(at, created) ==
            making' = [making EXCEPT ![r] = [at |-> at, row |-> w, created |-> created]]
    IN
    /\ making[r] = Idle
    /\ \/ dir[d] = "absent" /\ Go("mkdir", TRUE) /\ Works
       \/ dir[d] # "absent" /\ accepted /\ Go("check", FALSE) /\ Works
       \/ dir[d] # "absent" /\ Made(r) /\ IF accepted THEN Fails ELSE Works
    /\ UNCHANGED <<row, disk, creating, strayed>>

\* create_dir_all, whoever made the directory meanwhile; its path may turn out not to
\* be accessible.
MakeRoot(r) ==
    LET d == making[r].row.root
        made == [dir EXCEPT ![d] = IF @ = "absent" THEN "empty" ELSE @]
    IN
    /\ making[r].at = "mkdir"
    /\ \/ dir' = made /\ Making(r, "check") /\ Works
       \/ dir' \in {dir, made} /\ Made(r) /\ Fails
    /\ UNCHANGED <<row, json, md, creating, strayed>>

CheckRows(r) ==
    /\ making[r].at = "check"
    /\ \/ Registered(making[r].row.root) # {} /\ Made(r) /\ RemoveEmpty(r) /\ Works
       \/ /\ Registered(making[r].row.root) = {}
          /\ Making(r, "insert")
          /\ Works /\ UNCHANGED dir
       \/ Made(r) /\ Fails /\ UNCHANGED dir
    /\ UNCHANGED <<row, json, md, creating, strayed>>

\* AiRoom::create: local_root is unique
InsertRow(r) ==
    /\ making[r].at = "insert"
    /\ \/ /\ Registered(making[r].row.root) = {}
          /\ row' = [row EXCEPT ![r] = making[r].row]
          /\ Making(r, "json")
          /\ Works /\ UNCHANGED dir
       \/ /\ IF Registered(making[r].row.root) # {} THEN Works ELSE Fails
          /\ Made(r) /\ RemoveEmpty(r)
          /\ UNCHANGED row
    /\ UNCHANGED <<json, md, creating, strayed>>

WriteStore(r) ==
    LET w == making[r].row IN
    /\ \/ /\ making[r].at = "json"
          /\ \/ WriteJson(r, w) /\ Making(r, "md")
             \/ JsonFails(w) /\ Making(r, "undo")
       \/ /\ making[r].at = "md"
          /\ \/ WriteMd(r, w) /\ Making(r, "finish")
             \/ MdFails(w) /\ Making(r, "undo")
    /\ strayed' = strayed \cup Crossed(r, w.root)
    /\ UNCHANGED <<row, creating>>

\* The other instructions, and the local worksite.
FinishStore(r) ==
    /\ making[r].at = "finish"
    /\ \/ Made(r) /\ RestWorks(making[r].row)
       \/ Making(r, "undo") /\ RestFails(making[r].row)
    /\ UNCHANGED <<row, disk, creating, strayed>>

\* A registration that cannot be removed, or is gone, keeps the store.
UndoRow(r) ==
    /\ making[r].at = "undo"
    /\ \/ /\ row[r] # None
          /\ row' = [row EXCEPT ![r] = None]
          /\ IF making[r].created THEN Making(r, "remove") ELSE Made(r)
          /\ Works /\ UNCHANGED strayed
       \/ /\ IF row[r] = None THEN Works ELSE Fails
          /\ Made(r)
          /\ strayed' = strayed \cup {r}
          /\ UNCHANGED row
    /\ UNCHANGED <<disk, creating>>

\* remove_dir_all, whatever the directory holds by now
RemoveStore(r) ==
    LET d == making[r].row.root IN
    /\ making[r].at = "remove"
    /\ Made(r)
    /\ \/ /\ Works
          /\ dir' = [dir EXCEPT ![d] = "absent"]
          /\ json' = [json EXCEPT ![d] = None] /\ md' = [md EXCEPT ![d] = None]
       \/ Fails /\ UNCHANGED disk
    /\ strayed' = strayed \cup Crossed(r, d)
    /\ UNCHANGED <<row, creating>>

CreateStep(r) ==
    \/ MakeRoot(r) \/ CheckRows(r) \/ InsertRow(r) \/ WriteStore(r) \/ FinishStore(r)
    \/ UndoRow(r) \/ RemoveStore(r)

DeleteRoom(r) ==
    /\ row[r] # None
    /\ row' = [row EXCEPT ![r] = None]
    /\ UNCHANGED <<disk, making, job, cycle, updates, failures, owned, strayed>>

-----------------------------------------------------------------------------
(* SYNC_LOCK: initialize_room, update_room_profile, update_room_connection *)
(* and the upgrade of one room by the loop.                                *)

\* create_room holds no lock and may not be through; the loop may have an older row.
Start(kind, r, w, old) ==
    /\ job' = [at |-> "json", kind |-> kind, room |-> r, row |-> w, old |-> old]
    /\ strayed' = IF making[r].at = "done" /\ old = row[r] THEN strayed ELSE strayed \cup {r}
Change(kind, r, w) ==
    /\ job = Idle /\ row[r] # None /\ updates < MaxUpdate
    /\ updates' = updates + 1
    /\ row' = [row EXCEPT ![r] = w]
    /\ Start(kind, r, w, row[r])
    /\ UNCHANGED <<disk, making, cycle, failures, owned>>

InitializeRoom(r) == Change("initialize", r, row[r])
UpdateProfile(r, n) == Change("profile", r, [row[r] EXCEPT !.name = n])
\* The sync of the old connection comes first; its failure ends the request
\* unless the change is forced.
UpdateConnection(r, s) == row[r] # None /\ row[r].site # s
                          /\ Change("connection", r, [row[r] EXCEPT !.site = s])

\* The loop upgrades the row it has read.
Upgrade(r) ==
    /\ job = Idle /\ cycle[r] # None
    /\ Start("upgrade", r, cycle[r], cycle[r])
    /\ cycle' = [cycle EXCEPT ![r] = None]
    /\ UNCHANGED <<row, disk, making, updates, failures, owned>>

Compensates == job.kind \in {"profile", "connection"}
working == <<making, cycle, updates, owned>>

\* A failed rename or connection goes back, the others end.  The files are left as
\* they are: half way if one of them was cut short and nothing writes it again, if a
\* rename had written one, or if it was the return to the old connection that failed.
HalfWay ==
    \/ job.kind = "back"
    \/ job.kind = "profile" /\ job.at # "json"
    \/ job.kind # "connection" /\ <<json, md>>' # <<json, md>>
JobFails ==
    /\ job' = IF Compensates THEN [job EXCEPT !.at = "restore"] ELSE Idle
    /\ strayed' = strayed \cup Crossed(job.room, job.row.root)
                          \cup {r \in {job.room} : HalfWay}
JobGoesOn(at) ==
    /\ job' = [job EXCEPT !.at = at]
    /\ strayed' = strayed \cup Crossed(job.room, job.row.root)

JobWrite ==
    /\ \/ /\ job.at = "json"
          /\ \/ job.row.version = Newer /\ Works /\ UNCHANGED disk /\ JobGoesOn("finish")
             \/ WriteJson(job.room, job.row) /\ JobGoesOn("md")
             \/ JsonFails(job.row) /\ JobFails
       \/ /\ job.at = "md"
          /\ \/ WriteMd(job.room, job.row) /\ JobGoesOn("finish")
             \/ MdFails(job.row) /\ JobFails
    /\ UNCHANGED <<row, working>>

\* set_instruction_version
Upgraded(r) == row' = [row EXCEPT ![r] = IF @ = None \/ @.version >= Current THEN @
                                         ELSE [@ EXCEPT !.version = Current]]

\* The rest of initialize_local, and the preparation of the worksite, whose
\* failure a rename only logs.
JobFinish ==
    /\ job.at = "finish"
    /\ UNCHANGED <<disk, working>>
    /\ \/ /\ RestWorks(job.row)
          /\ IF job.kind \in {"initialize", "upgrade"} THEN Upgraded(job.room) ELSE UNCHANGED row
          /\ job' = Idle
          /\ UNCHANGED strayed
       \/ /\ job.kind = "profile" => job.row.version # Newer
          /\ RestFails(job.row) /\ JobFails
          /\ UNCHANGED row

\* Mutant: the instructions stay as they were written for the new connection.
JobRestoreRow ==
    /\ job.at = "restore"
    /\ row' = [row EXCEPT ![job.room] =
                IF @ = None THEN None
                ELSE [@ EXCEPT !.name = job.old.name, !.site = job.old.site]]
    /\ job' = Idle
    /\ Works
    /\ UNCHANGED <<disk, strayed, working>>

\* The previous profile or connection goes back to the row; only for a connection
\* is initialize_local called again.
JobRestore ==
    LET r == job.room
        undone == IF job.kind = "profile" THEN [row[r] EXCEPT !.name = job.old.name]
                  ELSE [row[r] EXCEPT !.site = job.old.site]
    IN
    /\ job.at = "restore"
    /\ \/ /\ row[r] # None
          /\ row' = [row EXCEPT ![r] = undone]
          /\ job' = IF job.kind = "profile" THEN Idle
                    ELSE [job EXCEPT !.at = "json", !.kind = "back", !.row = undone]
          /\ Works /\ UNCHANGED strayed
       \/ /\ IF row[r] = None THEN Works ELSE Fails
          /\ job' = Idle
          /\ strayed' = strayed \cup {r}
          /\ UNCHANGED row
    /\ UNCHANGED <<disk, working>>

JobStep == JobWrite \/ JobFinish \/ JobRestore

-----------------------------------------------------------------------------
(* spawn_auto_sync: the rows that are behind.                              *)

\* Mutant: the versions are compared the wrong way round.
LoopReadNewer ==
    /\ cycle = NoRows /\ (job # Idle => job.kind # "upgrade")
    /\ cycle' = [r \in Room |-> IF row[r] # None /\ row[r].version > Current THEN row[r]
                                ELSE None]
    /\ UNCHANGED <<row, disk, making, job, updates, failures, owned, strayed>>

LoopRead ==
    /\ cycle = NoRows /\ (job # Idle => job.kind # "upgrade")
    /\ cycle' = [r \in Room |-> IF row[r] # None /\ row[r].version < Current THEN row[r]
                                ELSE None]
    /\ UNCHANGED <<row, disk, making, job, updates, failures, owned, strayed>>

Next ==
    \/ \E r \in Room :
        \/ \E w \in First, allowed \in BOOLEAN : w.version = Old /\ PrepareRoot(r, w, allowed)
        \/ CreateStep(r) \/ DeleteRoom(r) \/ InitializeRoom(r) \/ Upgrade(r)
        \/ \E n \in Name : UpdateProfile(r, n)
        \/ \E s \in Site0 : UpdateConnection(r, s)
    \/ JobStep \/ LoopRead

Spec == Init /\ [][Next]_vars

\* The loop and the holder of SYNC_LOCK go on.
FairSpec ==
    /\ Spec
    /\ \A r \in Room : WF_vars(Upgrade(r))
    /\ WF_vars(JobStep) /\ WF_vars(LoopRead)

-----------------------------------------------------------------------------
(* Properties.                                                             *)

\* A directory that was there before is never removed, whichever creations of
\* rooms in it fail and undo each other.
UserFilesKept == \A d \in owned : dir[d] # "absent"

\* room.json and ROOM.md of a registered room say what its row says once the requests
\* for it have ended, whichever of their steps failed, for a row that this program
\* writes.  Not covered are the rooms in strayed: a request of another room worked in
\* the directory, an update began while create_room was not through, the loop upgraded
\* from a row that had changed, a rename failed after it wrote a file, or a write cut
\* short or a failed compensation was the last word.
StoreAgrees ==
    \A r \in Room :
        /\ row[r] # None /\ row[r].version # Newer
        /\ making[r].at = "done" /\ (job = Idle \/ job.room # r)
        /\ r \notin strayed
        => Says(r, row[r])

\* "restore the previous profile so the database and the on-disk instruction cannot
\* diverge permanently": after a failed rename they agree again (update_room_profile).
RenameReverts ==
    \A r \in Room :
        (job # Idle /\ job.room = r /\ job.kind = "profile" /\ job.at = "restore")
            ~> (row[r] = None \/ Says(r, row[r]))

\* "Keep retrying old registered rooms until the generated current files ... are
\* actually installed": a row that is behind is upgraded, unless its directory is
\* gone or the room is deleted.
UpgradeCompletes ==
    \A r \in Room :
        (row[r] # None /\ row[r].version = Old)
            ~> (row[r] = None \/ row[r].version # Old \/ dir[row[r].root] = "absent")
=============================================================================
