------------------------- MODULE SessionUnionProofs -------------------------
(***************************************************************************)
(* Facts about the plan of a session union and about applying it, for      *)
(* every set of record names and every number of versions.                 *)
(***************************************************************************)
EXTENDS SessionUnion, TLAPS

USE VersionAssumption, PathAssumption

\* Writing one content to a file leaves a set of files.
LEMMA WriteType ==
    ASSUME NEW f \in Files, NEW q, NEW v \in Content
    PROVE  [f EXCEPT ![q] = v] \in Files
BY DEF Files

\* The empty side is a set of files.
LEMMA NoFilesType == NoFiles \in Files
BY DEF NoFiles, Files, Content

\* Creating records leaves a set of files, whatever is to be created.
LEMMA CreateOnlyType ==
    ASSUME NEW f \in Files, NEW want
    PROVE  CreateOnly(f, want) \in Files
<1> DEFINE g(p) == IF f[p] = None /\ \E v \in Version : <<p, v>> \in want
                     THEN CHOOSE v \in Version : <<p, v>> \in want
                     ELSE f[p]
<1>1. ASSUME NEW p \in Path PROVE g(p) \in Content
  <2>1. CASE \E v \in Version : <<p, v>> \in want
    <3>1. (CHOOSE v \in Version : <<p, v>> \in want) \in Version
      BY <2>1
    <3>2. QED BY <3>1 DEF Files, Content
  <2>2. CASE ~\E v \in Version : <<p, v>> \in want
    BY <2>2 DEF Files, Content
  <2>3. QED BY <2>1, <2>2
<1>2. QED BY <1>1 DEF CreateOnly, Files

\* The content of an existing file is a version.
LEMMA PresentIsVersion ==
    ASSUME NEW f \in Files, NEW q \in Path, f[q] # None
    PROVE  f[q] \in Version
BY DEF Files, Content

\* A copy path is a session path.
LEMMA CopyPathType ==
    \A n \in Name, v \in Version :
        CopyPath(n, v) \in SessionPath /\ CopyPath(n, v) \in Path
BY DEF SessionPath, Path

\* A document is not a record, nor is a record of an agent a copy.
LEMMA NotACopy ==
    ASSUME NEW q \in Name \cup DocPath, NEW n \in Name, NEW v \in Version
    PROVE  CopyPath(n, v) # q
BY CopyAssumption DEF SessionPath

\* Writing a record of an agent, or a document, leaves the copies alone.
LEMMA WriteKeepsCopies ==
    ASSUME NEW f \in Files, CopiesIntact(f), NEW q \in Name \cup DocPath, NEW v
    PROVE  CopiesIntact([f EXCEPT ![q] = v])
BY NotACopy, CopyPathType DEF CopiesIntact, Files

\* Removing a file leaves the other copies alone.
LEMMA RemoveKeepsCopies ==
    ASSUME NEW f \in Files, CopiesIntact(f), NEW q \in Path
    PROVE  CopiesIntact([f EXCEPT ![q] = None])
BY CopyPathType DEF CopiesIntact, Files

\* The empty side has no copy that could be wrong.
LEMMA NoFilesIntact == CopiesIntact(NoFiles)
BY CopyPathType DEF CopiesIntact, NoFiles

\* A set of files to create that respects the copy paths.
PlanIntact(want) ==
    \A n \in Name, v, w \in Version : <<CopyPath(n, v), w>> \in want => w = v

\* Creating files from a plan that respects the copy paths keeps the copies.
LEMMA CreateKeepsCopies ==
    ASSUME NEW f \in Files, CopiesIntact(f), NEW want, PlanIntact(want)
    PROVE  CopiesIntact(CreateOnly(f, want))
<1> SUFFICES ASSUME NEW n \in Name, NEW v \in Version
             PROVE  CreateOnly(f, want)[CopyPath(n, v)] \in {v, None}
  BY DEF CopiesIntact
<1> DEFINE q == CopyPath(n, v)
<1>1. q \in Path /\ f[q] \in {v, None} BY CopyPathType DEF CopiesIntact
<1>2. CASE f[q] = None /\ \E w \in Version : <<q, w>> \in want
  <2>1. PICK w \in Version : /\ <<q, w>> \in want
                             /\ w = CHOOSE x \in Version : <<q, x>> \in want
    BY <1>2
  <2>2. w = v BY <2>1 DEF PlanIntact
  <2>3. QED BY <1>1, <1>2, <2>1, <2>2 DEF CreateOnly
<1>3. CASE ~(f[q] = None /\ \E w \in Version : <<q, w>> \in want)
  BY <1>1, <1>3 DEF CreateOnly
<1>4. QED BY <1>2, <1>3

\* Only records the agents named can be in conflict.
LEMMA ConflictsAreNames ==
    ASSUME NEW l \in Files, NEW r \in Files, CopiesIntact(l), CopiesIntact(r)
    PROVE  \A p \in Conflicts(l, r) : p \in Name /\ l[p] \in Version /\ r[p] \in Version
<1> SUFFICES ASSUME NEW p \in Conflicts(l, r)
             PROVE  p \in Name /\ l[p] \in Version /\ r[p] \in Version
  OBVIOUS
<1>1. p \in SessionPath /\ l[p] # None /\ r[p] # None /\ l[p] # r[p]
  BY DEF Conflicts
<1>2. p \in Name
  <2>1. ASSUME NEW n \in Name, NEW v \in Version, p = CopyPath(n, v) PROVE FALSE
    BY <1>1, <2>1 DEF CopiesIntact
  <2>2. QED BY <1>1, <2>1 DEF SessionPath
<1>3. QED BY <1>1, <1>2, PresentIsVersion DEF Path

\* The copies of a conflict are stored under their own paths.
LEMMA UnionCopiesIntact ==
    ASSUME NEW l \in Files, NEW r \in Files, CopiesIntact(l), CopiesIntact(r)
    PROVE  PlanIntact(UnionCopies(l, r))
<1> SUFFICES ASSUME NEW n \in Name, NEW v \in Version, NEW w \in Version,
                    <<CopyPath(n, v), w>> \in UnionCopies(l, r)
             PROVE  w = v
  BY DEF PlanIntact
<1>1. \/ \E p \in Conflicts(l, r) : CopyPath(n, v) = CopyPath(p, l[p]) /\ w = l[p]
      \/ \E p \in Conflicts(l, r) : CopyPath(n, v) = CopyPath(p, r[p]) /\ w = r[p]
  BY DEF UnionCopies
<1>2. QED BY <1>1, ConflictsAreNames, CopyAssumption

\* So are the records only one side has.
LEMMA OnlyIntact ==
    ASSUME NEW l \in Files, NEW r \in Files, CopiesIntact(l)
    PROVE  PlanIntact(Only(l, r))
BY DEF PlanIntact, Only, CopiesIntact

\* The two plans of plan_session_union respect the copy paths.
LEMMA DesiredIntact ==
    ASSUME NEW l \in Files, NEW r \in Files, CopiesIntact(l), CopiesIntact(r)
    PROVE  PlanIntact(DesiredLocal(l, r)) /\ PlanIntact(DesiredRemote(l, r))
BY UnionCopiesIntact, OnlyIntact DEF PlanIntact, DesiredLocal, DesiredRemote

\* Creating files replaces no record (create_session_record_at).
LEMMA CreateKeepsRecords ==
    ASSUME NEW f \in Files, NEW want
    PROVE  KeepsRecords(f, CreateOnly(f, want))
BY DEF KeepsRecords, CreateOnly, Path

\* Writing a document replaces no record.
LEMMA WriteKeepsRecords ==
    ASSUME NEW f \in Files, NEW q \in DocPath, NEW v
    PROVE  KeepsRecords(f, [f EXCEPT ![q] = v])
BY DEF KeepsRecords, Files, Path

\* Doing nothing replaces no record.
LEMMA SameKeepsRecords == \A f : KeepsRecords(f, f)
BY DEF KeepsRecords
-----------------------------------------------------------------------------
(* One pass settles the union.                                             *)

\* What the store gets is what the server would get with the sides swapped.
LEMMA DesiredSymmetric ==
    ASSUME NEW l, NEW r
    PROVE  DesiredRemote(l, r) = DesiredLocal(r, l)
<1>1. Conflicts(l, r) = Conflicts(r, l) BY DEF Conflicts
<1>2. UnionCopies(l, r) = UnionCopies(r, l) BY <1>1 DEF UnionCopies
<1>3. QED BY <1>2 DEF DesiredRemote, DesiredLocal

\* Creating one wanted file of a path that has one wanted content.
LEMMA CreateValue ==
    ASSUME NEW f \in Files, NEW want, NEW q \in Path, NEW v \in Version,
           f[q] = None, <<q, v>> \in want,
           \A w \in Version : <<q, w>> \in want => w = v
    PROVE  CreateOnly(f, want)[q] = v
<1>1. (CHOOSE w \in Version : <<q, w>> \in want) = v OBVIOUS
<1>2. QED BY <1>1 DEF CreateOnly

\* The copies of a conflict are versions of one of its sides, kept under
\* session paths.
LEMMA UnionCopiesType ==
    ASSUME NEW l \in Files, NEW r \in Files, CopiesIntact(l), CopiesIntact(r),
           NEW c \in UnionCopies(l, r)
    PROVE  /\ c = <<c[1], c[2]>>
           /\ \E n \in Name : c[1] = CopyPath(n, c[2])
           /\ c[1] \in SessionPath /\ c[2] \in Version
           /\ c[2] \in Records(l) \cup Records(r)
<1>1. PICK p \in Conflicts(l, r) : \/ c = <<CopyPath(p, l[p]), l[p]>>
                                   \/ c = <<CopyPath(p, r[p]), r[p]>>
  BY DEF UnionCopies
<1>2. p \in SessionPath /\ p \in Name /\ l[p] \in Version /\ r[p] \in Version
  BY ConflictsAreNames DEF Conflicts
<1>3. QED BY <1>1, <1>2, CopyPathType DEF Records

\* The side a pass leaves, path by path.
LEMMA SettledSide ==
    ASSUME NEW l \in Files, NEW r \in Files, CopiesIntact(l), CopiesIntact(r),
           NEW q \in SessionPath
    PROVE  LET s == CreateOnly(l, DesiredLocal(l, r)) IN
           /\ l[q] # None => s[q] = l[q]
           /\ l[q] = None /\ r[q] # None => s[q] = r[q]
           /\ \A v \in Version : <<q, v>> \in UnionCopies(l, r) => s[q] = v
           /\ \/ l[q] # None \/ r[q] # None
              \/ \E v \in Version : <<q, v>> \in UnionCopies(l, r)
              \/ s[q] = None
<1> DEFINE want == DesiredLocal(l, r)
           s == CreateOnly(l, want)
<1>0. q \in Path BY DEF Path
<1>1. l[q] # None => s[q] = l[q] BY <1>0 DEF CreateOnly
<1>2. \A v, w \in Version : <<q, v>> \in UnionCopies(l, r) /\ l[q] = w => w = v
  <2> SUFFICES ASSUME NEW v \in Version, NEW w \in Version,
                      <<q, v>> \in UnionCopies(l, r), l[q] = w
               PROVE  w = v
    OBVIOUS
  <2>1. \E n \in Name : q = CopyPath(n, v) BY UnionCopiesType
  <2>2. QED BY <2>1 DEF CopiesIntact
<1>3. \A v, w \in Version : <<q, v>> \in UnionCopies(l, r) /\ r[q] = w => w = v
  <2> SUFFICES ASSUME NEW v \in Version, NEW w \in Version,
                      <<q, v>> \in UnionCopies(l, r), r[q] = w
               PROVE  w = v
    OBVIOUS
  <2>1. \E n \in Name : q = CopyPath(n, v) BY UnionCopiesType
  <2>2. QED BY <2>1 DEF CopiesIntact
<1>4. \A v, w \in Version :
          <<q, v>> \in UnionCopies(l, r) /\ <<q, w>> \in UnionCopies(l, r) => w = v
  <2> SUFFICES ASSUME NEW v \in Version, NEW w \in Version,
                      <<q, v>> \in UnionCopies(l, r), <<q, w>> \in UnionCopies(l, r)
               PROVE  w = v
    OBVIOUS
  <2>1. \E n \in Name : q = CopyPath(n, v) BY UnionCopiesType
  <2>2. QED BY <2>1, UnionCopiesIntact DEF PlanIntact
<1>5. \A w \in Version :
          <<q, w>> \in want <=> \/ l[q] = None /\ w = r[q]
                                \/ <<q, w>> \in UnionCopies(l, r) /\ l[q] # w
  <2> SUFFICES ASSUME NEW w \in Version
               PROVE  <<q, w>> \in want <=>
                         \/ l[q] = None /\ w = r[q]
                         \/ <<q, w>> \in UnionCopies(l, r) /\ l[q] # w
    OBVIOUS
  <2>1. <<q, w>> \in Only(r, l) <=> l[q] = None /\ w = r[q]
    BY DEF Only
  <2>2. <<q, w>> \in {c \in UnionCopies(l, r) : l[c[1]] # c[2]}
           <=> <<q, w>> \in UnionCopies(l, r) /\ l[q] # w
    OBVIOUS
  <2>3. QED BY <2>1, <2>2 DEF DesiredLocal
<1>6. ASSUME l[q] = None, r[q] # None PROVE s[q] = r[q]
  <2>1. r[q] \in Version BY <1>0, <1>6, PresentIsVersion
  <2>2. <<q, r[q]>> \in want BY <1>5, <1>6, <2>1
  <2>3. \A w \in Version : <<q, w>> \in want => w = r[q]
    BY <1>3, <1>5, <2>1
  <2>4. QED BY <1>0, <1>6, <2>1, <2>2, <2>3, CreateValue
<1>7. ASSUME NEW v \in Version, <<q, v>> \in UnionCopies(l, r) PROVE s[q] = v
  <2>1. CASE l[q] # None
    BY <1>0, <1>1, <1>2, <1>7, <2>1, PresentIsVersion
  <2>2. CASE l[q] = None /\ r[q] # None
    BY <1>0, <1>3, <1>6, <1>7, <2>2, PresentIsVersion
  <2>3. CASE l[q] = None /\ r[q] = None
    <3>1. <<q, v>> \in want BY <1>5, <1>7, <2>3
    <3>2. \A w \in Version : <<q, w>> \in want => w = v
      BY <1>4, <1>5, <1>7, <2>3
    <3>3. QED BY <1>0, <2>3, <3>1, <3>2, CreateValue
  <2>4. QED BY <2>1, <2>2, <2>3
<1>8. ASSUME l[q] = None, r[q] = None,
             \A v \in Version : <<q, v>> \notin UnionCopies(l, r)
      PROVE  s[q] = None
  <2>1. \A w \in Version : <<q, w>> \notin want BY <1>5, <1>8
  <2>2. QED BY <1>0, <1>8, <2>1 DEF CreateOnly
<1>9. QED BY <1>1, <1>6, <1>7, <1>8

\* What a pass leaves on one side holds the contents of both.
LEMMA SettledRecords ==
    ASSUME NEW l \in Files, NEW r \in Files, CopiesIntact(l), CopiesIntact(r)
    PROVE  Records(CreateOnly(l, DesiredLocal(l, r))) = Records(l) \cup Records(r)
<1> DEFINE s == CreateOnly(l, DesiredLocal(l, r))
<1> HIDE DEF s
<1>0. \A q \in SessionPath :
         /\ l[q] # None => s[q] = l[q]
         /\ l[q] = None /\ r[q] # None => s[q] = r[q]
         /\ \A v \in Version : <<q, v>> \in UnionCopies(l, r) => s[q] = v
         /\ \/ l[q] # None \/ r[q] # None
            \/ \E v \in Version : <<q, v>> \in UnionCopies(l, r)
            \/ s[q] = None
  BY SettledSide DEF s
<1>1. ASSUME NEW q \in SessionPath, s[q] # None
      PROVE  s[q] \in Records(l) \cup Records(r)
  <2>1. CASE l[q] # None BY <1>0, <2>1 DEF Records
  <2>2. CASE l[q] = None /\ r[q] # None BY <1>0, <2>2 DEF Records
  <2>3. CASE l[q] = None /\ r[q] = None
    <3>1. PICK v \in Version : <<q, v>> \in UnionCopies(l, r) /\ s[q] = v
      BY <1>0, <1>1, <2>3
    <3>2. QED BY <3>1, UnionCopiesType
  <2>4. QED BY <2>1, <2>2, <2>3
<1>2. ASSUME NEW q \in SessionPath, l[q] # None PROVE l[q] \in Records(s)
  BY <1>0, <1>2 DEF Records
<1>3. ASSUME NEW q \in SessionPath, r[q] # None PROVE r[q] \in Records(s)
  <2>1. CASE l[q] = None BY <1>0, <1>3, <2>1 DEF Records
  <2>2. CASE l[q] = r[q] BY <1>0, <1>3, <2>2 DEF Records
  <2>3. CASE l[q] # None /\ l[q] # r[q]
    <3>1. q \in Conflicts(l, r) BY <1>3, <2>3 DEF Conflicts
    <3>2. <<CopyPath(q, r[q]), r[q]>> \in UnionCopies(l, r)
      BY <3>1 DEF UnionCopies
    <3>3. CopyPath(q, r[q]) \in SessionPath /\ r[q] \in Version
      BY <3>1, ConflictsAreNames, CopyPathType
    <3>4. s[CopyPath(q, r[q])] = r[q] BY <1>0, <3>2, <3>3
    <3>5. QED BY <1>3, <3>3, <3>4 DEF Records
  <2>4. QED BY <2>1, <2>2, <2>3
<1>4. Records(s) \subseteq Records(l) \cup Records(r) BY <1>1 DEF Records
<1>5. Records(l) \subseteq Records(s) BY <1>2 DEF Records
<1>6. Records(r) \subseteq Records(s) BY <1>3 DEF Records
<1>7. QED BY <1>4, <1>5, <1>6 DEF s

\* After a pass over undisturbed sides the next plan has nothing for the store.
LEMMA SettledPlan ==
    ASSUME NEW l \in Files, NEW r \in Files, CopiesIntact(l), CopiesIntact(r)
    PROVE  DesiredLocal(CreateOnly(l, DesiredLocal(l, r)),
                        CreateOnly(r, DesiredLocal(r, l))) = {}
<1> DEFINE s == CreateOnly(l, DesiredLocal(l, r))
           t == CreateOnly(r, DesiredLocal(r, l))
<1> HIDE DEF s, t
<1>a. UnionCopies(r, l) = UnionCopies(l, r)
  <2>1. Conflicts(l, r) = Conflicts(r, l) BY DEF Conflicts
  <2>2. QED BY <2>1 DEF UnionCopies
<1>0. \A q \in SessionPath :
         /\ l[q] # None => s[q] = l[q]
         /\ l[q] = None /\ r[q] # None => s[q] = r[q]
         /\ \A v \in Version : <<q, v>> \in UnionCopies(l, r) => s[q] = v
         /\ \/ l[q] # None \/ r[q] # None
            \/ \E v \in Version : <<q, v>> \in UnionCopies(l, r)
            \/ s[q] = None
  BY SettledSide DEF s
<1>1. \A q \in SessionPath :
         /\ r[q] # None => t[q] = r[q]
         /\ r[q] = None /\ l[q] # None => t[q] = l[q]
         /\ \A v \in Version : <<q, v>> \in UnionCopies(l, r) => t[q] = v
         /\ \/ r[q] # None \/ l[q] # None
            \/ \E v \in Version : <<q, v>> \in UnionCopies(l, r)
            \/ t[q] = None
  <2>1. \A q \in SessionPath :
         /\ r[q] # None => t[q] = r[q]
         /\ r[q] = None /\ l[q] # None => t[q] = l[q]
         /\ \A v \in Version : <<q, v>> \in UnionCopies(r, l) => t[q] = v
         /\ \/ r[q] # None \/ l[q] # None
            \/ \E v \in Version : <<q, v>> \in UnionCopies(r, l)
            \/ t[q] = None
    BY SettledSide DEF t
  <2>2. QED BY <1>a, <2>1
<1>2. \A q \in SessionPath : t[q] # None => s[q] # None
  BY <1>0, <1>1
<1>3. \A q \in SessionPath :
         q \in Conflicts(s, t) => q \in Conflicts(l, r) /\ s[q] = l[q] /\ t[q] = r[q]
  BY <1>0, <1>1 DEF Conflicts
<1>4. Only(t, s) = {} BY <1>2 DEF Only
<1>5. ASSUME NEW c \in UnionCopies(s, t) PROVE s[c[1]] = c[2]
  <2>1. c \in UnionCopies(l, r)
    <3>1. PICK p \in Conflicts(s, t) : \/ c = <<CopyPath(p, s[p]), s[p]>>
                                       \/ c = <<CopyPath(p, t[p]), t[p]>>
      BY <1>5 DEF UnionCopies
    <3>2. p \in Conflicts(l, r) /\ s[p] = l[p] /\ t[p] = r[p]
      BY <1>3, <3>1 DEF Conflicts
    <3>3. QED BY <3>1, <3>2 DEF UnionCopies
  <2>2. QED BY <1>0, <2>1, UnionCopiesType
<1>6. QED BY <1>4, <1>5 DEF DesiredLocal, s, t

\* One pass of plan_session_union over any two sides leaves the contents of
\* both on each and leaves nothing to do for a second pass.
THEOREM UnionSettles ==
    ASSUME NEW l \in Files, NEW r \in Files, CopiesIntact(l), CopiesIntact(r)
    PROVE  LET s == CreateOnly(l, DesiredLocal(l, r))
               t == CreateOnly(r, DesiredRemote(l, r))
           IN  /\ Records(s) = Records(l) \cup Records(r)
               /\ Records(t) = Records(s)
               /\ DesiredLocal(s, t) = {}
               /\ DesiredRemote(s, t) = {}
BY DesiredSymmetric, SettledRecords, SettledPlan
=============================================================================
