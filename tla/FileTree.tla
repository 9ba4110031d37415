------------------------------ MODULE FileTree ------------------------------
(***************************************************************************)
(* mockfs.go: the tree of a MockFS and what each operation does to it while *)
(* it holds the file system's lock.                                        *)
(*                                                                         *)
(* The tree is a flat map from paths to entries; nothing but the code of   *)
(* the operations ties an entry to its parent.  A path is the sequence of  *)
(* its elements, and the root "." is <<Dot>>.  Every operation is one step, *)
(* except for Rename of a directory, whose loop ranges over the map it     *)
(* inserts into: the order of the visits, and whether an entry inserted by *)
(* the loop is visited, are Go's choice.                                   *)
(*                                                                         *)
(* A definition called "wrong" in its comment is not part of the model: it *)
(* is the next one with a mistake in it, which some property must notice.  *)
(***************************************************************************)
EXTENDS Integers, Sequences

Seqs == INSTANCE SequencesExt

CONSTANTS
  Names,            \* path elements
  Dot,              \* the element "."
  MaxDepth,         \* bound: elements of the longest path
  MaxSize,          \* bound: bytes of the largest file
  None,             \* "the map has no such key"
  CreateIfMissing,  \* WithCreateIfMissing
  WriteMode         \* "readOnly", "overwrite" or "append"

ASSUME TreeAssumption ==
  /\ Dot \notin Names
  /\ MaxDepth \in Nat \ {0}
  /\ MaxSize \in Nat
  /\ None \notin [dir : BOOLEAN, size : Nat]
  /\ CreateIfMissing \in BOOLEAN
  /\ WriteMode \in {"readOnly", "overwrite", "append"}

Root == <<Dot>>

\* The paths that fs.ValidPath accepts.
Paths == {Root} \cup (Seqs!BoundedSeq(Names, MaxDepth) \ {<<>>})

\* The keys of the map: a Rename of a directory to "." makes keys like "./a",
\* that no caller can name.
Keys == Paths \cup {Root \o s : s \in Seqs!BoundedSeq(Names, MaxDepth - 1)}

Entries == [dir : BOOLEAN, size : 0 .. MaxSize]
Trees   == [Keys -> Entries \cup {None}]

\* The tree kept by a Rename inside of its loop is told from none.
ASSUME NoneAssumption == None \notin Trees

VARIABLES
  files,  \* MockFS.files
  moving  \* the Rename that is inside its loop, or NoMove

vars == <<files, moving>>

NoMove == [from |-> Root, to |-> Root, todo |-> {}, added |-> {}, before |-> None]

-----------------------------------------------------------------------------
(* Paths *)

\* path.Dir of a path that is not ".".
Parent(p) == IF Len(p) = 1 THEN Root ELSE Seqs!Front(p)

\* The paths q with strings.HasPrefix(q, d + "/"), for a key d.  Nothing that a
\* caller can name is below ".".
Under == [d \in Keys |-> {q \in Keys : Seqs!IsStrictPrefix(d, q)}]

Below(q, d) == q \in Under[d]

\* newPrefix + p[len(oldPrefix):]
Rebase(q, o, n) == n \o SubSeq(q, Len(o) + 1, Len(q))

\* The prefixes that mkdirAll goes through, the path included.
Steps(p) == {SubSeq(p, 1, k) : k \in 1 .. Len(p)}

-----------------------------------------------------------------------------
(* What the operations do to a tree f: the error they return, "nil" for    *)
(* none, and the tree they leave.                                          *)

Exists(f, p) == f[p] # None
IsDir(f, p)  == Exists(f, p) /\ f[p].dir
IsFile(f, p) == Exists(f, p) /\ ~f[p].dir

Dir     == [dir |-> TRUE, size |-> 0]
File(n) == [dir |-> FALSE, size |-> n]

Without(f, S) == [p \in Keys |-> IF p \in S THEN None ELSE f[p]]

\* Wrong: the parent is not looked up.
MkdirErrNoParent(f, p) ==
  IF p = Root THEN "ErrInvalid" ELSE IF Exists(f, p) THEN "ErrExist" ELSE "nil"

\* Mkdir refuses "."; mkdir looks at the parent only, and not at ".".
MkdirErr(f, p) ==
  CASE p = Root                                -> "ErrInvalid"
    [] p # Root /\ Exists(f, p)                -> "ErrExist"
    [] p # Root /\ ~Exists(f, p)               ->
         IF Parent(p) = Root \/ IsDir(f, Parent(p)) THEN "nil"
         ELSE IF Exists(f, Parent(p)) THEN "ErrNotDir" ELSE "ErrNotExist"

MkdirTree(f, p) == IF MkdirErr(f, p) = "nil" THEN [f EXCEPT ![p] = Dir] ELSE f

\* mkdirAll, from the shortest prefix to the longest: the directories created
\* before a file that blocks the way stay.
Blocked(f, p) == {q \in Steps(p) : IsFile(f, q)}

MkdirAllErr(f, p) == IF Blocked(f, p) = {} THEN "nil" ELSE "ErrNotDir"

MkdirAllTree(f, p) ==
  LET reached == {q \in Steps(p) : \A b \in Blocked(f, p) : Len(q) < Len(b)}
  IN [q \in Keys |-> IF q \in reached /\ ~Exists(f, q) THEN Dir ELSE f[q]]

\* ensureParentDirs: nothing to do for "." and for a path directly under it.
WithParents(f, p) == IF Len(p) > 1 THEN MkdirAllTree(f, Parent(p)) ELSE f
ParentsErr(f, p)  == IF Len(p) > 1 THEN MkdirAllErr(f, Parent(p)) ELSE "nil"

AddFileErr(f, p) ==
  IF ParentsErr(f, p) # "nil" THEN ParentsErr(f, p)
  ELSE IF IsDir(f, p) THEN "ErrIsDir" ELSE "nil"

AddFileTree(f, p, n) ==
  IF AddFileErr(f, p) = "nil" THEN [WithParents(f, p) EXCEPT ![p] = File(n)]
  ELSE WithParents(f, p)

RemoveErr(f, p) ==
  IF ~Exists(f, p) THEN "ErrNotExist"
  ELSE IF IsDir(f, p) /\ \E q \in Under[p] : Exists(f, q)
    THEN "ErrNotEmpty" ELSE "nil"

RemoveTree(f, p) == IF RemoveErr(f, p) = "nil" THEN Without(f, {p}) ELSE f

\* RemoveAll and RemoveEntry never fail.
RemoveAllTree(f, p) == Without(f, {p} \cup Under[p])

WriteFileErr(f, p) ==
  IF WriteMode = "readOnly" THEN "ErrPermission"
  ELSE IF ~Exists(f, p) /\ ~CreateIfMissing THEN "ErrNotExist" ELSE "nil"

\* Wrong: overwriting adds to the data.
WriteFileTreeAppending(f, p, n) ==
  IF WriteFileErr(f, p) # "nil" THEN f
  ELSE IF ~Exists(f, p) THEN [f EXCEPT ![p] = File(n)]
  ELSE [f EXCEPT ![p].size = @ + n]

\* A new entry is a file, whatever its parent is; an existing one, a directory
\* too, keeps its mode.
WriteFileTree(f, p, n) ==
  IF WriteFileErr(f, p) # "nil" THEN f
  ELSE IF ~Exists(f, p) THEN [f EXCEPT ![p] = File(n)]
  ELSE IF WriteMode = "append" THEN [f EXCEPT ![p].size = @ + n]
  ELSE [f EXCEPT ![p].size = n]

\* Pass 1 of collectDirEntries: the names that follow d in the paths below it,
\* or the first names of all paths but "." for ".".
ChildNames(f, d) ==
  LET at == IF d = Root THEN 1 ELSE Len(d) + 1
  IN {q[at] : q \in {q \in Keys : Exists(f, q) /\ q # d /\ (d = Root \/ Below(q, d))}}

Child(d, x) == IF d = Root THEN <<x>> ELSE Append(d, x)

\* Wrong: names are listed without a look-up.
ListDirOnePass(f, d) == ChildNames(f, d)

\* Pass 2: only the names that have an entry of their own.
ListDir(f, d) == {x \in ChildNames(f, d) : Exists(f, Child(d, x))}

\* Wrong: the directories of the subtree are left empty.
SubTreeShallow(f, d) ==
  [q \in Keys |-> IF q = Root THEN [f[d] EXCEPT !.size = 0]
                  ELSE IF Len(q) = 1 /\ d \o q \in Keys THEN f[d \o q] ELSE None]

\* Sub of a directory d other than ".": a file system of its own.
SubTree(f, d) ==
  [q \in Keys |-> IF q = Root THEN [f[d] EXCEPT !.size = 0]
                  ELSE IF d \o q \in Keys THEN f[d \o q] ELSE None]

-----------------------------------------------------------------------------
(* The operations, under the write lock.  Rename keeps the lock to its end. *)

Unlocked == moving = NoMove

\* Only the change that an operation makes to the map, not its error.
Change(f) == Unlocked /\ files' = f /\ UNCHANGED moving

Mkdir(p)        == Change(MkdirTree(files, p))
MkdirAll(p)     == Change(MkdirAllTree(files, p))
AddFile(p, n)   == Change(AddFileTree(files, p, n))
Remove(p)       == Change(RemoveTree(files, p))
RemoveAll(p)    == Change(RemoveAllTree(files, p))
WriteFile(p, n) ==
  /\ WriteMode = "append" /\ Exists(files, p) => files[p].size + n <= MaxSize
  /\ Change(WriteFileTree(files, p, n))

\* What the loop of Rename(o, n) will visit, from the map f it starts with.
ToVisit(f, o) == {q \in Under[o] : Exists(f, q)}

\* Rename of a file, or of a directory with nothing below it.
RenameOne(o, n) ==
  LET f == [files EXCEPT ![n] = files[o]]
  IN /\ Exists(files, o)
     /\ IsDir(files, o) => ToVisit(f, o) = {}
     /\ Change(Without(f, {o}))

\* Rename of a directory up to its loop: the entry is copied over what is at n.
RenameBegin(o, n) ==
  LET f == [files EXCEPT ![n] = files[o]]
  IN /\ Unlocked
     /\ IsDir(files, o)
     /\ ToVisit(f, o) # {}
     /\ \A q \in ToVisit(f, o) : Rebase(q, o, n) \in Keys
     /\ files' = f
     /\ moving' = [from |-> o, to |-> n, todo |-> ToVisit(f, o), added |-> {}, before |-> files]

\* Wrong: the entry is not deleted from where it was.
RenameVisitCopying(q) ==
  LET m  == moving
      nq == Rebase(q, m.from, m.to)
  IN /\ q \in m.todo \cup m.added
     /\ nq \in Keys
     /\ files' = [files EXCEPT ![nq] = files[q]]
     /\ moving' = [m EXCEPT !.todo = @ \ {q}, !.added = @ \ {q}]

\* One iteration: q moves to its place below the new path; what is inserted
\* below the old path may be visited later, or not.
RenameVisit(q) ==
  LET m  == moving
      nq == Rebase(q, m.from, m.to)
  IN /\ q \in m.todo \cup m.added
     /\ nq \in Keys
     /\ files' = [[files EXCEPT ![nq] = files[q]] EXCEPT ![q] = None]
     /\ moving' = [m EXCEPT
          !.todo  = @ \ {q},
          !.added = (IF Below(nq, m.from) /\ ~Exists(files, nq) THEN @ \cup {nq} ELSE @) \ {q}]

\* The loop has visited every entry that was there when it started.
RenameEnd ==
  /\ ~Unlocked
  /\ moving.todo = {}
  /\ files' = Without(files, {moving.from})
  /\ moving' = NoMove

Init ==
  /\ files = [p \in Keys |-> IF p = Root THEN Dir ELSE None]
  /\ moving = NoMove

Next ==
  \/ \E p \in Paths : Mkdir(p) \/ MkdirAll(p) \/ Remove(p) \/ RemoveAll(p)
  \/ \E p \in Paths, n \in 0 .. MaxSize : AddFile(p, n) \/ WriteFile(p, n)
  \/ \E o, n \in Paths : RenameOne(o, n) \/ RenameBegin(o, n)
  \/ \E q \in Keys : RenameVisit(q)
  \/ RenameEnd

Spec == Init /\ [][Next]_vars

-----------------------------------------------------------------------------
(* Properties *)

\* Types; the loop of a Rename has only existing entries left to visit.
TypeOK ==
  /\ files \in Trees
  /\ \/ moving = NoMove
     \/ /\ moving \in [from : Paths, to : Paths, todo : SUBSET Keys, added : SUBSET Keys,
                       before : Trees]
        /\ \A q \in moving.todo \cup moving.added : Exists(files, q) /\ Below(q, moving.from)

\* The tree that a caller sees: the one before a Rename until the Rename ends.
tree == IF Unlocked THEN files ELSE moving.before

\* An entry whose parent, other than ".", is not a directory of the map.
Orphan(f, p) == Len(p) > 1 /\ Exists(f, p) /\ ~IsDir(f, Parent(p))

\* A Rename of o to n moves it, with no orphan below it, to a place in an existing
\* directory that is not inside of o and has nothing below it.
FreePlace(o, n) ==
  /\ ~Below(n, o)
  /\ \A q \in Under[o] : ~Orphan(tree, q)
  /\ Parent(n) = Root \/ IsDir(tree, Parent(n))
  /\ \A q \in Under[n] : ~Exists(tree, q)

\* Whatever the order of the calls, an entry is left without its parent only by
\* a WriteFile that creates it there, and by a Rename whose new path is not a
\* free place in an existing directory.  The other operations, and Renames to a
\* free place whatever order their loop takes, keep the flat map a tree.
OrphanSources ==
  [][(\E p \in Keys : Orphan(tree', p) /\ ~Orphan(tree, p)) =>
       \/ ~Unlocked /\ ~FreePlace(moving.from, moving.to)
       \/ \E o, n \in Paths : ~FreePlace(o, n) /\ RenameOne(o, n)
       \/ CreateIfMissing /\ \E p \in Paths, n \in 0 .. MaxSize :
            ~Exists(files, p) /\ WriteFile(p, n)]_vars

\* What ReadDir lists, computed from a scan over all paths, is the names of the
\* entries directly in the directory, also in a map with orphans; at ".", the
\* directory itself may be listed, when a Rename to it has left keys like "./a".
ListsChildren == \A d \in Paths :
  Len(d) < MaxDepth =>
    ListDir(files, d) \ {Dot} = {x \in Names : Exists(files, Child(d, x))}

\* In the file system that Sub returns, every directory lists what it lists in
\* the parent file system, the directory that became its root included.
SubListsTheSame == \A d \in Paths \ {Root} :
  Unlocked /\ IsDir(files, d) =>
    /\ ListDir(SubTree(files, d), Root) = ListDir(files, d)
    /\ \A q \in Paths \ {Root} :
         d \o q \in Keys => ListDir(SubTree(files, d), q) = ListDir(files, d \o q)

\* The prefix of what is below "." is "./", which is in front of no path that a
\* caller can name: "." is removed alone, with all that is in it left in place.
RootGoesAlone ==
  /\ Remove(Root) \/ RemoveAll(Root)
  /\ tree' = [q \in Keys |-> IF q \in Paths \ {Root} THEN tree[q] ELSE None]

\* Seen from outside of the lock, the tree changes as AbstractTree says: every
\* call, a Rename and its loop included, is one step.  The exception is the
\* removal of ".", which may leave what is in it, against the promise.
Abstract    == INSTANCE AbstractTree
RefinesTree == Abstract!Init /\ [][Abstract!Next \/ RootGoesAlone]_tree

\* DECISIONS.md and the comment in collectDirEntries: no operation leaves a name
\* below a directory without an entry of its own.
EveryNameHasEntry == \A d \in Paths :
  Unlocked /\ IsDir(files, d) => ListDir(files, d) = ChildNames(files, d)

\* The doc comment of Rename: it renames the entry, so that an entry is at the
\* new path afterwards.
RenamedEntryExists ==
  [][\A o, n \in Paths : RenameOne(o, n) => Exists(files', n)]_vars

\* The doc comments of Remove and RemoveAll: a directory must be empty to be
\* removed, or is removed with all its children, so that nothing is listed in it
\* afterwards.
EmptiedWhenRemoved ==
  [][\A p \in Paths :
       (Remove(p) \/ RemoveAll(p)) /\ IsDir(files, p) /\ ~Exists(files', p)
         => ListDir(files', p) = {}]_vars
=============================================================================
