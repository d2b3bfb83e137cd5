---------------------------- MODULE SessionUnion ----------------------------
(***************************************************************************)
(* The files of one AI Room and the pure part of its synchronization:      *)
(* plan_session_union and the create-only application of its plan          *)
(* (crates/server/src/routes/ai_rooms.rs).                                 *)
(*                                                                         *)
(* A side of the room (the local store, the server) is a function from     *)
(* room-relative paths to contents, None where there is no file.  Contents *)
(* are the versions 0 .. MaxVersion: every write of an author is a version *)
(* of its own, so two files are equal exactly when they hold the same      *)
(* version.                                                                *)
(***************************************************************************)
EXTENDS Integers

CONSTANTS
    Name,            \* session record paths the agents choose themselves
    LibraryPath,     \* library/*.md, the owner rules excepted
    Rules,           \* library/<owner rules>, where the local copy rules
    Context,         \* context.md
    Decisions,       \* decisions.md
    MaxVersion,      \* bound: how many versions the authors may write
    None,            \* no file
    CopyPath(_, _)   \* session_union_copy_path(original, content)

Version == 0 .. MaxVersion
SessionPath == Name \cup {CopyPath(n, v) : n \in Name, v \in Version}
LibraryDoc == LibraryPath \cup {Rules}
DocPath == LibraryDoc \cup {Context, Decisions}
Path == SessionPath \cup DocPath
Content == Version \cup {None}
Files == [Path -> Content]
NoFiles == [p \in Path |-> None]

ASSUME VersionAssumption == MaxVersion \in Nat /\ None \notin Version

ASSUME PathAssumption ==
    /\ SessionPath \cap DocPath = {}
    /\ Rules \notin LibraryPath
    /\ Context \notin LibraryDoc
    /\ Decisions \notin LibraryDoc \cup {Context}

(***************************************************************************)
(* A union copy is stored under a name made of a hash of its content, so   *)
(* two contents never share one; agents do not choose such names.          *)
(***************************************************************************)
ASSUME CopyAssumption ==
    /\ \A n \in Name, v \in Version : CopyPath(n, v) \notin Name
    /\ \A n, m \in Name, v, w \in Version :
          CopyPath(n, v) = CopyPath(m, w) => v = w

-----------------------------------------------------------------------------
\* Records both sides have with different content.
Conflicts(l, r) ==
    {p \in SessionPath : l[p] # None /\ r[p] # None /\ l[p] # r[p]}

\* Mutant: the two copies are stored under each other's path.
UnionCopiesSwapped(l, r) ==
    {<<CopyPath(p, l[p]), r[p]>> : p \in Conflicts(l, r)}
      \cup {<<CopyPath(p, r[p]), l[p]>> : p \in Conflicts(l, r)}

\* Mutant: only the local version of a conflicting record is copied.
UnionCopiesLocal(l, r) == {<<CopyPath(p, l[p]), l[p]>> : p \in Conflicts(l, r)}

\* Both versions of every conflicting record, each under its own copy path.
UnionCopies(l, r) ==
    {<<CopyPath(p, l[p]), l[p]>> : p \in Conflicts(l, r)}
      \cup {<<CopyPath(p, r[p]), r[p]>> : p \in Conflicts(l, r)}

\* Records only the first side has.
Only(l, r) ==
    {<<p, l[p]>> : p \in {q \in SessionPath : l[q] # None /\ r[q] = None}}

\* Mutant: conflicting records are reported but not copied to the server.
DesiredRemoteMissingOnly(l, r) == Only(l, r)

\* The two maps plan_session_union returns, as sets of <<path, content>>.
DesiredLocal(l, r) ==
    Only(r, l) \cup {c \in UnionCopies(l, r) : l[c[1]] # c[2]}

DesiredRemote(l, r) ==
    Only(l, r) \cup {c \in UnionCopies(l, r) : r[c[1]] # c[2]}

\* Mutant: records are written, not linked.
CreateOverwriting(f, want) ==
    [p \in Path |->
        IF \E v \in Version : <<p, v>> \in want
          THEN CHOOSE v \in Version : <<p, v>> \in want
          ELSE f[p]]

(***************************************************************************)
(* Records are created with a hard link: a path that already exists is     *)
(* left as it is, whatever it holds.                                       *)
(***************************************************************************)
CreateOnly(f, want) ==
    [p \in Path |->
        IF f[p] = None /\ \E v \in Version : <<p, v>> \in want
          THEN CHOOSE v \in Version : <<p, v>> \in want
          ELSE f[p]]

\* The session contents one side holds.
Records(f) == {f[p] : p \in SessionPath} \ {None}

\* A file stored under the copy path of a version holds that version.
CopiesIntact(f) ==
    \A n \in Name, v \in Version : f[CopyPath(n, v)] \in {v, None}

\* Every record of the one side is in the other, under its path.
KeepsRecords(f, g) == \A p \in SessionPath : f[p] # None => g[p] = f[p]
=============================================================================
