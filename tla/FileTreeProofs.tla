-------------------------- MODULE FileTreeProofs --------------------------
(***************************************************************************)
(* Proofs about FileTree, for any names, depth and sizes.                  *)
(***************************************************************************)
EXTENDS FileTree, SequenceTheorems, TLAPS

-----------------------------------------------------------------------------
(* Types *)

\* The entries that the operations make.
LEMMA EntryTypes ==
  /\ Root \in Paths /\ Paths \subseteq Keys
  /\ Dir \in Entries
  /\ \A n \in 0 .. MaxSize : File(n) \in Entries
  /\ \A e \in Entries : e # None
BY TreeAssumption DEF Keys, Paths, Entries, Dir, File

\* The trees that the operations leave.
LEMMA WithoutType ==
  ASSUME NEW f \in Trees, NEW S
  PROVE  Without(f, S) \in Trees
BY DEF Trees, Without

\* An entry put at a key.
LEMMA PutType ==
  ASSUME NEW f \in Trees, NEW p, NEW e \in Entries \cup {None}
  PROVE  [f EXCEPT ![p] = e] \in Trees
BY DEF Trees

\* The directories that mkdirAll leaves, also when a file stops it.
LEMMA MkdirAllType ==
  ASSUME NEW f \in Trees, NEW p
  PROVE  MkdirAllTree(f, p) \in Trees
BY EntryTypes DEF Trees, MkdirAllTree

\* The parents that createIfMissing makes.
LEMMA WithParentsType ==
  ASSUME NEW f \in Trees, NEW p
  PROVE  WithParents(f, p) \in Trees
BY MkdirAllType DEF WithParents

\* AddFile, whatever its parents are.
LEMMA AddFileType ==
  ASSUME NEW f \in Trees, NEW p, NEW n \in 0 .. MaxSize
  PROVE  AddFileTree(f, p, n) \in Trees
BY EntryTypes, WithParentsType, PutType DEF AddFileTree

\* An append that fits.
LEMMA WriteFileType ==
  ASSUME NEW f \in Trees, NEW p \in Keys, NEW n \in 0 .. MaxSize,
         WriteMode = "append" /\ Exists(f, p) => f[p].size + n <= MaxSize
  PROVE  WriteFileTree(f, p, n) \in Trees
<1>1. CASE WriteFileErr(f, p) # "nil"
  BY <1>1 DEF WriteFileTree
<1>2. CASE WriteFileErr(f, p) = "nil" /\ ~Exists(f, p)
  BY <1>2, EntryTypes, PutType DEF WriteFileTree
<1>3. CASE WriteFileErr(f, p) = "nil" /\ Exists(f, p)
  <2>1. f[p] \in Entries
    BY <1>3 DEF Trees, Exists
  <2>2. [f[p] EXCEPT !.size = n] \in Entries
    BY <2>1 DEF Entries
  <2>3. ASSUME WriteMode = "append" PROVE [f[p] EXCEPT !.size = f[p].size + n] \in Entries
    <3>1. f[p].size \in 0 .. MaxSize /\ f[p].size + n <= MaxSize
      BY <1>3, <2>1, <2>3 DEF Entries
    <3>2. f[p].size + n \in 0 .. MaxSize
      BY <3>1, TreeAssumption
    <3> QED
      BY <2>1, <3>2 DEF Entries
  <2>4. \/ WriteFileTree(f, p, n) = [f EXCEPT ![p] = [f[p] EXCEPT !.size = n]]
        \/ /\ WriteMode = "append"
           /\ WriteFileTree(f, p, n) = [f EXCEPT ![p] = [f[p] EXCEPT !.size = f[p].size + n]]
    BY <1>3 DEF WriteFileTree
  <2>5. \A e \in Entries : [f EXCEPT ![p] = e] \in Trees
    BY PutType
  <2> QED
    BY <2>2, <2>3, <2>4, <2>5
<1> QED
  BY <1>1, <1>2, <1>3

\* The initial tree is well typed.
LEMMA InitTreeType == Init => TypeOK
BY EntryTypes DEF Init, TypeOK, Trees

\* An operation that is one step.
LEMMA ChangeType ==
  ASSUME NEW f \in Trees, Change(f)
  PROVE  TypeOK'
BY DEF Change, Unlocked, TypeOK

\* The loop of a Rename moves entries that exist, and has such entries left.
LEMMA VisitType ==
  ASSUME TypeOK, NEW q \in Keys, RenameVisit(q)
  PROVE  TypeOK'
<1> DEFINE nq == Rebase(q, moving.from, moving.to)
           S  == moving.todo \cup moving.added
<1>1. q \in S /\ nq \in Keys
  BY DEF RenameVisit
<1>2. moving # NoMove
  BY <1>1 DEF NoMove
<1>3. /\ files \in Trees
      /\ moving \in [from : Paths, to : Paths, todo : SUBSET Keys, added : SUBSET Keys,
                     before : Trees]
      /\ \A r \in S : Exists(files, r) /\ Below(r, moving.from)
  BY <1>2 DEF TypeOK
<1>4. /\ files' = [[files EXCEPT ![nq] = files[q]] EXCEPT ![q] = None]
      /\ moving'.from = moving.from
      /\ moving'.todo \cup moving'.added \subseteq (S \cup {nq}) \ {q}
      /\ moving'.todo \subseteq S
      /\ nq \in moving'.added => nq \in S \/ Below(nq, moving.from)
      /\ moving' \in [from : Paths, to : Paths, todo : SUBSET Keys, added : SUBSET Keys,
                      before : Trees]
  BY <1>1, <1>3 DEF RenameVisit
<1> HIDE DEF nq, S
<1>5. files' \in Trees
  BY <1>1, <1>3, <1>4 DEF Trees
<1>6. ASSUME NEW r \in moving'.todo \cup moving'.added
      PROVE  Exists(files', r) /\ Below(r, moving.from)
  <2>1. r \in S \cup {nq} /\ r # q /\ r \in Keys
    BY <1>4
  <2>2. files'[r] = IF r = nq THEN files[q] ELSE files[r]
    BY <1>1, <1>3, <1>4, <2>1 DEF Trees
  <2>3. Exists(files', r)
    BY <1>1, <1>3, <2>1, <2>2 DEF Exists
  <2>4. Below(r, moving.from)
    BY <1>3, <1>4, <1>6, <2>1 DEF S
  <2> QED
    BY <2>3, <2>4
<1>7. \A r \in moving'.todo \cup moving'.added : Exists(files', r) /\ Below(r, moving'.from)
  BY <1>4, <1>6
<1> QED
  BY <1>4, <1>5, <1>7 DEF TypeOK

\* Every step keeps the types.
LEMMA NextTreeType == TypeOK /\ [Next]_vars => TypeOK'
<1> SUFFICES ASSUME TypeOK, [Next]_vars PROVE TypeOK'
  OBVIOUS
<1>1. files \in Trees
  BY DEF TypeOK
<1>2. CASE UNCHANGED vars
  BY <1>2 DEF vars, TypeOK
<1>3. ASSUME NEW p \in Paths, Mkdir(p) \/ MkdirAll(p) \/ Remove(p) \/ RemoveAll(p)
      PROVE  TypeOK'
  <2>1. MkdirTree(files, p) \in Trees
    BY <1>1, EntryTypes, PutType DEF MkdirTree
  <2>2. RemoveTree(files, p) \in Trees /\ RemoveAllTree(files, p) \in Trees
    BY <1>1, WithoutType DEF RemoveTree, RemoveAllTree
  <2> QED
    BY <1>1, <1>3, <2>1, <2>2, MkdirAllType, ChangeType DEF Mkdir, MkdirAll, Remove, RemoveAll
<1>4. ASSUME NEW p \in Paths, NEW n \in 0 .. MaxSize, AddFile(p, n) \/ WriteFile(p, n)
      PROVE  TypeOK'
  <2>1. CASE AddFile(p, n)
    BY <1>1, <2>1, AddFileType, ChangeType DEF AddFile
  <2>2. CASE WriteFile(p, n)
    BY <1>1, <2>2, EntryTypes, WriteFileType, ChangeType DEF WriteFile
  <2> QED
    BY <1>4, <2>1, <2>2
<1>5. ASSUME NEW o \in Paths, NEW n \in Paths, RenameOne(o, n) \/ RenameBegin(o, n)
      PROVE  TypeOK'
  <2> DEFINE f == [files EXCEPT ![n] = files[o]]
  <2>1. files[o] \in Entries \cup {None}
    BY <1>1, EntryTypes DEF Trees
  <2>2. f \in Trees
    BY <1>1, <2>1, PutType
  <2>3. CASE RenameOne(o, n)
    <3>1. Without(f, {o}) \in Trees
      BY <2>2, WithoutType
    <3> QED
      BY <2>3, <3>1, ChangeType DEF RenameOne
  <2>4. CASE RenameBegin(o, n)
    <3>1. /\ files' = f
          /\ moving' = [from |-> o, to |-> n, todo |-> ToVisit(f, o), added |-> {},
                        before |-> files]
      BY <2>4 DEF RenameBegin
    <3>2. ToVisit(f, o) \subseteq Keys
          /\ \A q \in ToVisit(f, o) : Exists(f, q) /\ Below(q, o)
      BY EntryTypes DEF ToVisit, Below, Under
    <3> HIDE DEF f
    <3>3. \A q \in moving'.todo \cup moving'.added : Exists(files', q) /\ Below(q, moving'.from)
      BY <3>1, <3>2
    <3>4. moving' \in [from : Paths, to : Paths, todo : SUBSET Keys, added : SUBSET Keys,
                       before : Trees]
      BY <1>1, <3>1, <3>2
    <3> QED
      BY <2>2, <3>1, <3>3, <3>4 DEF TypeOK
  <2> QED
    BY <1>5, <2>3, <2>4
<1>6. ASSUME NEW q \in Keys, RenameVisit(q) PROVE TypeOK'
  BY <1>6, VisitType
<1>7. CASE RenameEnd
  BY <1>1, <1>7, WithoutType DEF RenameEnd, TypeOK
<1> QED
  BY <1>2, <1>3, <1>4, <1>5, <1>6, <1>7 DEF Next

\* Types; the loop of a Rename has only entries left that exist and that are
\* below the old path, whatever it has inserted where.
THEOREM TreeTyped == Spec => []TypeOK
BY InitTreeType, NextTreeType, PTL DEF Spec

-----------------------------------------------------------------------------
(* Listings *)

\* Paths other than "." are sequences of names that are not too long.
LEMMA PathForm ==
  /\ \A p \in Paths \ {Root} : p \in Seq(Names) /\ Len(p) \in 1 .. MaxDepth
  /\ \A p \in Seq(Names) : Len(p) \in 1 .. MaxDepth => p \in Paths \ {Root}
<1>1. ASSUME NEW p \in Paths \ {Root} PROVE p \in Seq(Names) /\ Len(p) \in 1 .. MaxDepth
  <2>1. PICK m \in 0 .. MaxDepth : p \in [1 .. m -> Names]
    BY DEF Paths, Seqs!BoundedSeq, Seqs!SeqOf
  <2>2. m \in Nat /\ p # <<>>
    BY TreeAssumption DEF Paths
  <2>3. p \in Seq(Names) /\ Len(p) = m
    BY <2>1, <2>2
  <2> QED
    BY <2>2, <2>3, EmptySeq
<1>2. ASSUME NEW p \in Seq(Names), Len(p) \in 1 .. MaxDepth PROVE p \in Paths \ {Root}
  <2>1. p \in [1 .. Len(p) -> Names] /\ Len(p) \in 0 .. MaxDepth /\ p # <<>>
    BY <1>2, LenProperties, EmptySeq
  <2>2. p[1] \in Names
    BY <1>2, ElementOfSeq
  <2>3. p # Root
    BY <2>2, TreeAssumption DEF Root
  <2> QED
    BY <2>1, <2>3 DEF Paths, Seqs!BoundedSeq, Seqs!SeqOf
<1> QED
  BY <1>1, <1>2

\* A key is a path or begins with ".".
LEMMA KeyForm ==
  ASSUME NEW q \in Keys
  PROVE  q \in Paths \ {Root} \/ (q \in Seq(Names \cup {Dot}) /\ Len(q) > 0 /\ q[1] = Dot)
<1>1. CASE q \in Paths
  <2>1. <<Dot>> \in Seq(Names \cup {Dot}) /\ Len(<<Dot>>) = 1 /\ <<Dot>>[1] = Dot
    OBVIOUS
  <2>2. q = Root \/ q \in Paths \ {Root}
    BY <1>1
  <2>3. q = Root => q = <<Dot>>
    BY DEF Root
  <2>4. q = <<Dot>> => q \in Seq(Names \cup {Dot}) /\ Len(q) > 0 /\ q[1] = Dot
    BY <2>1
  <2> QED
    BY <2>2, <2>3, <2>4
<1>2. CASE q \notin Paths
  <2>1. PICK s \in Seqs!BoundedSeq(Names, MaxDepth - 1) : q = Root \o s
    BY <1>2 DEF Keys
  <2>2. PICK m \in 0 .. MaxDepth - 1 : s \in [1 .. m -> Names]
    BY <2>1 DEF Seqs!BoundedSeq, Seqs!SeqOf
  <2>3. m \in Nat
    BY TreeAssumption
  <2>4. s \in Seq(Names \cup {Dot}) /\ Root \in Seq(Names \cup {Dot}) /\ Len(Root) = 1
    BY <2>2, <2>3 DEF Root
  <2>5. q \in Seq(Names \cup {Dot}) /\ Len(q) = 1 + Len(s) /\ Len(s) \in Nat
        /\ q[1] = Root[1]
    BY <2>1, <2>4, ConcatProperties, LenProperties
  <2> QED
    BY <2>5 DEF Root
<1> QED
  BY <1>1, <1>2

\* A directory of the map other than ".": the key of what it lists, and that
\* key only.
LEMMA BelowForm ==
  ASSUME NEW d \in Paths \ {Root}, NEW q \in Keys
  PROVE  Below(q, d) =>
           /\ q \in Seq(Names) /\ Len(d) \in Nat /\ Len(d) < Len(q) /\ Len(q) \in Nat
           /\ Len(q) <= MaxDepth
           /\ q[Len(d) + 1] \in Names
<1> SUFFICES ASSUME Below(q, d)
             PROVE  /\ q \in Seq(Names) /\ Len(d) \in Nat /\ Len(d) < Len(q)
                    /\ Len(q) \in Nat /\ Len(q) <= MaxDepth /\ q[Len(d) + 1] \in Names
  OBVIOUS
<1>1. d \in Seq(Names) /\ Len(d) \in 1 .. MaxDepth /\ d \in Keys
  BY PathForm, EntryTypes
<1>2. Len(d) <= Len(q) /\ SubSeq(d, 1, Len(d)) = SubSeq(q, 1, Len(d)) /\ d # q
  BY <1>1 DEF Below, Under, Seqs!IsStrictPrefix, Seqs!IsPrefix
<1>3. Len(q) \in Nat /\ q \in Seq(Names \cup {Dot})
  BY KeyForm, PathForm, LenProperties, SeqMonotonic
<1>4. \A i \in 1 .. Len(d) : d[i] = q[i]
  <2>1. \A i \in 1 .. Len(d) : d[i] \in Names \cup {Dot} /\ q[i] \in Names \cup {Dot}
    BY <1>1, <1>2, <1>3, ElementOfSeq
  <2>2. \A i \in 1 .. Len(d) : SubSeq(d, 1, Len(d))[i] = d[i]
    BY <1>1, <2>1, SubSeqProperties
  <2>3. \A i \in 1 .. Len(d) : SubSeq(q, 1, Len(d))[i] = q[i]
    BY <1>1, <2>1, SubSeqProperties
  <2> QED
    BY <1>2, <2>2, <2>3
<1>5. q \in Paths \ {Root}
  <2>1. d[1] \in Names /\ d[1] = q[1]
    BY <1>1, <1>4, ElementOfSeq
  <2> QED
    BY <2>1, KeyForm, TreeAssumption
<1>6. q \in Seq(Names) /\ Len(q) <= MaxDepth
  BY <1>5, PathForm
<1>7. Len(d) # Len(q)
  BY <1>1, <1>2, <1>4, <1>6, SeqEqual
<1>8. Len(d) + 1 \in 1 .. Len(q)
  BY <1>1, <1>2, <1>3, <1>7
<1> QED
  BY <1>1, <1>2, <1>3, <1>6, <1>7, <1>8, ElementOfSeq

\* A name appended to a directory gives a path below it.
LEMMA ChildForm ==
  ASSUME NEW d \in Paths \ {Root}, NEW x \in Names, Len(d) < MaxDepth
  PROVE  /\ Append(d, x) \in Paths \ {Root} /\ Append(d, x) \in Keys
         /\ Below(Append(d, x), d) /\ Append(d, x) # d
         /\ Append(d, x)[Len(d) + 1] = x
<1> DEFINE q == Append(d, x)
<1>1. d \in Seq(Names) /\ Len(d) \in 1 .. MaxDepth /\ d \in Keys
  BY PathForm, EntryTypes
<1>2. /\ q \in Seq(Names) /\ Len(q) = Len(d) + 1 /\ q[Len(d) + 1] = x
      /\ \A i \in 1 .. Len(d) : q[i] = d[i]
  BY <1>1, AppendProperties
<1>3. Len(q) \in 1 .. MaxDepth
  BY <1>1, <1>2, TreeAssumption
<1>4. q \in Paths \ {Root} /\ q \in Keys
  BY <1>2, <1>3, PathForm, EntryTypes
<1>5. q # d /\ Len(d) <= Len(q)
  BY <1>1, <1>2
<1>6. SubSeq(d, 1, Len(d)) = SubSeq(q, 1, Len(d))
  <2>1. \A i \in 1 .. Len(d) : d[i] \in Names /\ q[i] \in Names
    BY <1>1, <1>2, ElementOfSeq
  <2>2. /\ SubSeq(d, 1, Len(d)) \in Seq(Names) /\ SubSeq(q, 1, Len(d)) \in Seq(Names)
        /\ Len(SubSeq(d, 1, Len(d))) = Len(d) /\ Len(SubSeq(q, 1, Len(d))) = Len(d)
        /\ \A i \in 1 .. Len(d) : /\ SubSeq(d, 1, Len(d))[i] = d[i]
                                  /\ SubSeq(q, 1, Len(d))[i] = q[i]
    BY <1>1, <2>1, SubSeqProperties
  <2> QED
    BY <1>2, <2>2, SeqEqual
<1>7. Below(q, d)
  BY <1>1, <1>4, <1>5, <1>6 DEF Below, Under, Seqs!IsStrictPrefix, Seqs!IsPrefix
<1> QED
  BY <1>2, <1>4, <1>5, <1>7

\* A directory other than "." lists the names that have an entry directly in it.
LEMMA ListBelow ==
  ASSUME NEW f, NEW d \in Paths \ {Root}
  PROVE  ListDir(f, d) =
           {x \in Names : Len(d) < MaxDepth /\ Exists(f, Append(d, x))}
<1>1. ASSUME NEW x \in ListDir(f, d)
      PROVE  x \in Names /\ Len(d) < MaxDepth /\ Exists(f, Append(d, x))
  <2>1. PICK q \in Keys : Exists(f, q) /\ Below(q, d) /\ x = q[Len(d) + 1]
    BY DEF ListDir, ChildNames
  <2>2. x \in Names /\ Len(d) < MaxDepth
    BY <2>1, BelowForm, TreeAssumption
  <2> QED
    BY <2>2 DEF ListDir, Child
<1>2. ASSUME NEW x \in Names, Len(d) < MaxDepth, Exists(f, Append(d, x))
      PROVE  x \in ListDir(f, d)
  <2>1. /\ Append(d, x) \in Keys /\ Below(Append(d, x), d) /\ Append(d, x) # d
        /\ Append(d, x)[Len(d) + 1] = x
    BY <1>2, ChildForm
  <2>2. x \in ChildNames(f, d)
    BY <1>2, <2>1 DEF ChildNames
  <2> QED
    BY <1>2, <2>2 DEF ListDir, Child
<1> QED
  BY <1>1, <1>2

\* So does ".", which may list "." too, when there are keys like "./a".
LEMMA ListRoot ==
  ASSUME NEW f
  PROVE  /\ ListDir(f, Root) \ {Dot} = {x \in Names : Exists(f, <<x>>)}
         /\ Dot \in ListDir(f, Root) =>
              \E q \in Keys : Exists(f, q) /\ q # Root /\ q[1] = Dot
<1>1. ASSUME NEW x \in ListDir(f, Root)
      PROVE  /\ Exists(f, <<x>>) /\ x \in Names \cup {Dot}
             /\ \E q \in Keys : Exists(f, q) /\ q # Root /\ q[1] = x
  <2>1. PICK q \in Keys : Exists(f, q) /\ q # Root /\ x = q[1]
    BY DEF ListDir, ChildNames
  <2>2. x \in Names \cup {Dot}
    <3>1. CASE q \in Paths \ {Root}
      BY <2>1, <3>1, PathForm, ElementOfSeq
    <3>2. CASE q \notin Paths \ {Root}
      BY <2>1, <3>2, KeyForm
    <3> QED
      BY <3>1, <3>2
  <2> QED
    BY <2>1, <2>2 DEF ListDir, Child
<1>2. ASSUME NEW x \in Names, Exists(f, <<x>>) PROVE x \in ListDir(f, Root) /\ x # Dot
  <2>1. <<x>> \in Seq(Names) /\ Len(<<x>>) = 1 /\ <<x>>[1] = x
    OBVIOUS
  <2>2. <<x>> \in Paths \ {Root} /\ <<x>> \in Keys
    <3>1. 1 \in 1 .. MaxDepth
      BY TreeAssumption
    <3>2. Len(<<x>>) \in 1 .. MaxDepth
      BY <2>1, <3>1
    <3> QED
      BY <2>1, <3>2, PathForm, EntryTypes
  <2> QED
    BY <1>2, <2>1, <2>2, TreeAssumption DEF ListDir, ChildNames, Child
<1> QED
  BY <1>1, <1>2

\* What ReadDir computes from a scan over all paths is right for every map.
LEMMA ListedAreChildren == ListsChildren
<1> SUFFICES ASSUME NEW d \in Paths, Len(d) < MaxDepth
             PROVE  ListDir(files, d) \ {Dot} = {x \in Names : Exists(files, Child(d, x))}
  BY DEF ListsChildren
<1>1. CASE d = Root
  BY <1>1, ListRoot DEF Child
<1>2. CASE d # Root
  BY <1>2, ListBelow, TreeAssumption DEF Child
<1> QED
  BY <1>1, <1>2

\* ReadDir lists the names of the entries directly in a directory, however many
\* names and levels there are and whatever orphans the map has.
THEOREM ListingsRight == Spec => []ListsChildren
BY ListedAreChildren, PTL

-----------------------------------------------------------------------------
(* Sub *)

\* The paths of a sub file system, as its parent names them.
LEMMA JoinForm ==
  ASSUME NEW d \in Paths \ {Root}, NEW q \in Paths \ {Root}
  PROVE  /\ d \o q \in Seq(Names) /\ Len(d \o q) = Len(d) + Len(q)
         /\ d \o q \in Keys <=> Len(d) + Len(q) <= MaxDepth
         /\ d \o q \in Keys => d \o q \in Paths \ {Root}
         /\ \A x \in Names : Append(d \o q, x) = d \o Append(q, x)
<1>1. /\ d \in Seq(Names) /\ Len(d) \in 1 .. MaxDepth
      /\ q \in Seq(Names) /\ Len(q) \in 1 .. MaxDepth
  BY PathForm
<1>2. d \o q \in Seq(Names) /\ Len(d \o q) = Len(d) + Len(q)
  BY <1>1, ConcatProperties
<1>3. ASSUME d \o q \in Keys PROVE d \o q \in Paths \ {Root}
  <2>1. (d \o q)[1] = d[1] /\ d[1] \in Names
    BY <1>1, ConcatProperties, ElementOfSeq
  <2> QED
    BY <1>3, <2>1, KeyForm, TreeAssumption
<1>4. d \o q \in Keys <=> Len(d) + Len(q) <= MaxDepth
  <2>1. ASSUME d \o q \in Keys PROVE Len(d) + Len(q) <= MaxDepth
    <3>1. Len(d \o q) \in 1 .. MaxDepth
      BY <1>3, <2>1, PathForm
    <3>2. Len(d \o q) <= MaxDepth
      BY <3>1, TreeAssumption
    <3> QED
      BY <1>2, <3>2
  <2>2. ASSUME Len(d) + Len(q) <= MaxDepth PROVE d \o q \in Keys
    <3>1. Len(d \o q) \in 1 .. MaxDepth
      BY <1>1, <1>2, <2>2, TreeAssumption
    <3> QED
      BY <1>2, <3>1, PathForm, EntryTypes
  <2> QED
    BY <2>1, <2>2
<1>5. ASSUME NEW x \in Names PROVE Append(d \o q, x) = d \o Append(q, x)
  <2>1. Append(d \o q, x) = (d \o q) \o <<x>> /\ Append(q, x) = q \o <<x>>
    BY <1>1, <1>2, AppendIsConcat
  <2>2. <<x>> \in Seq(Names)
    OBVIOUS
  <2> QED
    BY <1>1, <2>1, <2>2, ConcatAssociative
<1> QED
  BY <1>2, <1>3, <1>4, <1>5

\* The root of a sub file system lists what its directory lists.
LEMMA SubRoot ==
  ASSUME NEW f, NEW d \in Paths \ {Root}, IsDir(f, d)
  PROVE  ListDir(SubTree(f, d), Root) = ListDir(f, d)
<1> DEFINE g == SubTree(f, d)
<1>1. d \in Seq(Names) /\ Len(d) \in 1 .. MaxDepth
  BY PathForm
<1>2. Dot \notin ListDir(g, Root)
  <2> SUFFICES ASSUME NEW q \in Keys, Exists(g, q), q # Root, q[1] = Dot PROVE FALSE
    BY ListRoot
  <2>1. d \o q \in Keys
    BY DEF SubTree, Exists
  <2>2. q \in Seq(Names \cup {Dot}) /\ Len(q) > 0 /\ Len(q) \in Nat
    <3>1. q \notin Paths \ {Root}
      BY PathForm, ElementOfSeq, TreeAssumption
    <3> QED
      BY <3>1, KeyForm, LenProperties
  <2>3. d \in Seq(Names \cup {Dot})
    BY <1>1, SeqMonotonic
  <2>4. /\ (d \o q)[1] = d[1] /\ d[1] \in Names
        /\ (d \o q)[Len(d) + 1] = Dot /\ Len(d \o q) = Len(d) + Len(q)
    <3>1. /\ Len(d \o q) = Len(d) + Len(q)
          /\ \A i \in 1 .. Len(d) + Len(q) :
               (d \o q)[i] = IF i <= Len(d) THEN d[i] ELSE q[i - Len(d)]
      BY <2>2, <2>3, ConcatProperties
    <3>2. /\ 1 \in 1 .. Len(d) + Len(q) /\ Len(d) + 1 \in 1 .. Len(d) + Len(q)
          /\ 1 <= Len(d) /\ ~(Len(d) + 1 <= Len(d)) /\ Len(d) + 1 - Len(d) = 1
      BY <1>1, <2>2
    <3>3. d[1] \in Names
      BY <1>1, ElementOfSeq
    <3> QED
      BY <3>1, <3>2, <3>3
  <2>5. d \o q \in Seq(Names)
    BY <2>1, <2>4, KeyForm, PathForm, TreeAssumption
  <2>6. (d \o q)[Len(d) + 1] \in Names
    <3>1. Len(d) + 1 \in 1 .. Len(d \o q)
      BY <1>1, <2>2, <2>4
    <3> QED
      BY <2>5, <3>1, ElementOfSeq
  <2> QED
    BY <2>4, <2>6, TreeAssumption
<1>3. ASSUME NEW x \in Names
      PROVE  Exists(g, <<x>>) <=> Len(d) < MaxDepth /\ Exists(f, Append(d, x))
  <2>1. <<x>> \in Seq(Names) /\ Len(<<x>>) = 1
    OBVIOUS
  <2>2. <<x>> \in Paths \ {Root} /\ <<x>> \in Keys
    <3>1. 1 \in 1 .. MaxDepth
      BY TreeAssumption
    <3>2. Len(<<x>>) \in 1 .. MaxDepth
      BY <2>1, <3>1
    <3> QED
      BY <2>1, <3>2, PathForm, EntryTypes
  <2>3. g[<<x>>] = IF d \o <<x>> \in Keys THEN f[d \o <<x>>] ELSE None
    BY <2>2 DEF SubTree
  <2>4. d \o <<x>> = Append(d, x)
    BY <1>1, AppendIsConcat
  <2>5. d \o <<x>> \in Keys <=> Len(d) + 1 <= MaxDepth
    BY <2>1, <2>2, JoinForm
  <2>6. Len(d) + 1 <= MaxDepth <=> Len(d) < MaxDepth
    BY <1>1, TreeAssumption
  <2> HIDE DEF g
  <2> QED
    BY <2>3, <2>4, <2>5, <2>6 DEF Exists
<1>4. ListDir(g, Root) \ {Dot} = {x \in Names : Exists(g, <<x>>)}
  BY ListRoot
<1>5. ListDir(f, d) = {x \in Names : Len(d) < MaxDepth /\ Exists(f, Append(d, x))}
  BY ListBelow
<1> QED
  BY <1>2, <1>3, <1>4, <1>5

\* So does every other directory of it.
LEMMA SubBelow ==
  ASSUME NEW f, NEW d \in Paths \ {Root}, NEW q \in Paths \ {Root}, d \o q \in Keys
  PROVE  ListDir(SubTree(f, d), q) = ListDir(f, d \o q)
<1> DEFINE g == SubTree(f, d)
<1>1. /\ Len(d) \in 1 .. MaxDepth /\ Len(q) \in 1 .. MaxDepth
      /\ Len(d \o q) = Len(d) + Len(q) /\ d \o q \in Paths \ {Root}
  BY PathForm, JoinForm
<1>2. ListDir(g, q) = {x \in Names : Len(q) < MaxDepth /\ Exists(g, Append(q, x))}
  BY ListBelow
<1>3. ListDir(f, d \o q) =
        {x \in Names : Len(d \o q) < MaxDepth /\ Exists(f, Append(d \o q, x))}
  BY <1>1, ListBelow
<1>4. ASSUME NEW x \in Names, Len(q) < MaxDepth
      PROVE  Exists(g, Append(q, x)) <=>
               Len(d \o q) < MaxDepth /\ Exists(f, Append(d \o q, x))
  <2>1. Append(q, x) \in Paths \ {Root} /\ Append(q, x) \in Keys
    BY <1>4, ChildForm
  <2>2. Len(Append(q, x)) = Len(q) + 1
    BY PathForm, AppendProperties
  <2>3. Append(d \o q, x) = d \o Append(q, x)
    <3>1. \A y \in Names : Append(d \o q, y) = d \o Append(q, y)
      BY JoinForm
    <3> QED
      BY <3>1
  <2>4. d \o Append(q, x) \in Keys <=> Len(d) + (Len(q) + 1) <= MaxDepth
    BY <2>1, <2>2, JoinForm
  <2>5. Len(d) + (Len(q) + 1) <= MaxDepth <=> Len(d \o q) < MaxDepth
    BY <1>1, TreeAssumption
  <2>6. g[Append(q, x)] = IF d \o Append(q, x) \in Keys THEN f[d \o Append(q, x)] ELSE None
    BY <2>1 DEF SubTree
  <2> HIDE DEF g
  <2> QED
    BY <2>3, <2>4, <2>5, <2>6 DEF Exists
<1>5. Len(d \o q) < MaxDepth => Len(q) < MaxDepth
  BY <1>1, TreeAssumption
<1> HIDE DEF g
<1>6. ListDir(g, q) = ListDir(f, d \o q)
  BY <1>2, <1>3, <1>4, <1>5
<1> QED
  BY <1>6 DEF g

\* Every directory of the file system that Sub returns lists what it lists in
\* the parent, for any tree and any directory in it.
THEOREM SubsList == Spec => []SubListsTheSame
<1>1. SubListsTheSame
  BY SubRoot, SubBelow DEF SubListsTheSame
<1> QED
  BY <1>1, PTL

-----------------------------------------------------------------------------
(* Prefixes *)

Elements == Names \cup {Dot}

\* Every key is a sequence that is not empty.
LEMMA KeySeq ==
  ASSUME NEW q \in Keys
  PROVE  q \in Seq(Elements) /\ Len(q) \in Nat \ {0}
<1>1. CASE q \in Paths \ {Root}
  <2>1. q \in Seq(Names) /\ Len(q) \in 1 .. MaxDepth /\ MaxDepth \in Nat
    BY <1>1, PathForm, TreeAssumption
  <2>2. q \in Seq(Elements)
    BY <2>1, SeqMonotonic DEF Elements
  <2> QED
    BY <2>1, <2>2
<1>2. CASE q \notin Paths \ {Root}
  BY <1>2, KeyForm, LenProperties DEF Elements
<1> QED
  BY <1>1, <1>2

\* A prefix, element by element.
LEMMA PrefixForm ==
  ASSUME NEW d \in Keys, NEW q \in Keys
  PROVE  Seqs!IsPrefix(d, q) <=> Len(d) <= Len(q) /\ \A i \in 1 .. Len(d) : d[i] = q[i]
<1>1. /\ d \in Seq(Elements) /\ Len(d) \in Nat \ {0}
      /\ q \in Seq(Elements) /\ Len(q) \in Nat \ {0}
  BY KeySeq
<1> SUFFICES ASSUME Len(d) <= Len(q)
    PROVE  SubSeq(d, 1, Len(d)) = SubSeq(q, 1, Len(d)) <=> \A i \in 1 .. Len(d) : d[i] = q[i]
  BY DEF Seqs!IsPrefix
<1>2. \A i \in 1 .. Len(d) : d[i] \in Elements /\ q[i] \in Elements
  BY <1>1, ElementOfSeq
<1>3. /\ SubSeq(d, 1, Len(d)) \in Seq(Elements) /\ SubSeq(q, 1, Len(d)) \in Seq(Elements)
      /\ Len(SubSeq(d, 1, Len(d))) = Len(d) /\ Len(SubSeq(q, 1, Len(d))) = Len(d)
      /\ \A i \in 1 .. Len(d) : SubSeq(d, 1, Len(d))[i] = d[i] /\ SubSeq(q, 1, Len(d))[i] = q[i]
  BY <1>1, <1>2, SubSeqProperties
<1> QED
  BY <1>3, SeqEqual

\* What is below a key is longer.
LEMMA BelowPrefix ==
  ASSUME NEW d \in Keys, NEW q \in Keys
  PROVE  /\ Below(q, d) <=> Len(d) < Len(q) /\ \A i \in 1 .. Len(d) : d[i] = q[i]
         /\ Seqs!IsPrefix(d, q) <=> q = d \/ Below(q, d)
<1>1. /\ d \in Seq(Elements) /\ Len(d) \in Nat \ {0}
      /\ q \in Seq(Elements) /\ Len(q) \in Nat \ {0}
  BY KeySeq
<1>2. Below(q, d) <=> Seqs!IsPrefix(d, q) /\ d # q
  BY DEF Below, Under, Seqs!IsStrictPrefix
<1>3. Len(d) = Len(q) /\ (\A i \in 1 .. Len(d) : d[i] = q[i]) => d = q
  BY <1>1, SeqEqual
<1>4. Seqs!IsPrefix(d, d)
  BY <1>1 DEF Seqs!IsPrefix
<1> QED
  BY <1>1, <1>2, <1>3, <1>4, PrefixForm

\* Two keys above the same one are above one another.
LEMMA AboveTheSame ==
  ASSUME NEW d \in Keys, NEW e \in Keys, NEW q \in Keys,
         q = d \/ Below(q, d), q = e \/ Below(q, e)
  PROVE  d = e \/ Below(d, e) \/ Below(e, d)
<1>1. /\ d \in Seq(Elements) /\ Len(d) \in Nat \ {0}
      /\ e \in Seq(Elements) /\ Len(e) \in Nat \ {0}
  BY KeySeq
<1>2. /\ \A i \in 1 .. Len(d) : d[i] = q[i]
      /\ \A i \in 1 .. Len(e) : e[i] = q[i]
  BY BelowPrefix
<1>3. CASE Len(d) < Len(e)
  BY <1>1, <1>2, <1>3, BelowPrefix
<1>4. CASE Len(e) < Len(d)
  BY <1>1, <1>2, <1>4, BelowPrefix
<1>5. CASE Len(e) = Len(d)
  BY <1>1, <1>2, <1>5, SeqEqual
<1> QED
  BY <1>1, <1>3, <1>4, <1>5

\* "Below" is transitive.
LEMMA BelowBelow ==
  ASSUME NEW d \in Keys, NEW e \in Keys, NEW q \in Keys, Below(e, d), Below(q, e)
  PROVE  Below(q, d)
<1>1. Len(d) \in Nat /\ Len(e) \in Nat /\ Len(q) \in Nat
  BY KeySeq
<1> QED
  BY <1>1, BelowPrefix

\* No path is below itself.
LEMMA NotBelowItself ==
  ASSUME NEW d \in Keys PROVE ~Below(d, d)
<1>1. Len(d) \in Nat
  BY KeySeq
<1> QED
  BY <1>1, BelowPrefix

\* What a path below o becomes below n, element by element.
IsRebased(r, q, o, n) ==
  /\ r \in Seq(Elements) /\ Len(r) = Len(n) + (Len(q) - Len(o))
  /\ \A i \in 1 .. Len(r) : r[i] = IF i <= Len(n) THEN n[i] ELSE q[i - Len(n) + Len(o)]

\* newPrefix + p[len(oldPrefix):], element by element.
LEMMA RebaseSeq ==
  ASSUME NEW o \in Keys, NEW n \in Keys, NEW q \in Keys, q = o \/ Below(q, o)
  PROVE  IsRebased(Rebase(q, o, n), q, o, n)
<1>1. /\ o \in Seq(Elements) /\ Len(o) \in Nat \ {0}
      /\ n \in Seq(Elements) /\ Len(n) \in Nat \ {0}
      /\ q \in Seq(Elements) /\ Len(q) \in Nat \ {0} /\ Len(o) <= Len(q)
  BY KeySeq, BelowPrefix
<1> PICK s : s = SubSeq(q, Len(o) + 1, Len(q))
  OBVIOUS
<1>2. /\ s \in Seq(Elements) /\ Len(s) = Len(q) - Len(o)
      /\ \A i \in 1 .. Len(q) - Len(o) : s[i] = q[Len(o) + i]
  <2>1. \A i \in Len(o) + 1 .. Len(q) : q[i] \in Elements
    <3> SUFFICES ASSUME NEW i \in Len(o) + 1 .. Len(q) PROVE q[i] \in Elements
      OBVIOUS
    <3>1. i \in 1 .. Len(q)
      BY <1>1
    <3> QED
      BY <1>1, <3>1, ElementOfSeq
  <2>2. Len(o) + 1 \in Int /\ Len(q) \in Int
    BY <1>1
  <2>3. /\ s \in Seq(Elements)
        /\ Len(s) = IF Len(o) + 1 <= Len(q) THEN Len(q) - (Len(o) + 1) + 1 ELSE 0
        /\ \A i \in 1 .. Len(q) - (Len(o) + 1) + 1 : s[i] = q[(Len(o) + 1) + i - 1]
    BY <2>1, <2>2, SubSeqProperties
  <2> QED
    BY <1>1, <2>3
<1>3. /\ n \o s \in Seq(Elements) /\ Len(n \o s) = Len(n) + Len(s)
      /\ \A i \in 1 .. Len(n) + Len(s) : (n \o s)[i] = IF i <= Len(n) THEN n[i] ELSE s[i - Len(n)]
  BY <1>1, <1>2, ConcatProperties
<1>4. Rebase(q, o, n) = n \o s
  BY DEF Rebase
<1>5. ASSUME NEW i \in 1 .. Len(n) + Len(s)
      PROVE  (n \o s)[i] = IF i <= Len(n) THEN n[i] ELSE q[i - Len(n) + Len(o)]
  <2>1. CASE i <= Len(n)
    BY <1>3, <2>1
  <2>2. CASE ~(i <= Len(n))
    <3>1. i - Len(n) \in 1 .. Len(q) - Len(o) /\ Len(o) + (i - Len(n)) = i - Len(n) + Len(o)
      BY <1>1, <1>2, <2>2
    <3> QED
      BY <1>2, <1>3, <2>2, <3>1
  <2> QED
    BY <2>1, <2>2
<1> QED
  BY <1>2, <1>3, <1>4, <1>5 DEF IsRebased

\* A path below o goes to one below n, and nothing else goes there.
LEMMA RebaseForm ==
  ASSUME NEW o \in Keys, NEW n \in Keys, NEW q \in Keys, q = o \/ Below(q, o),
         Rebase(q, o, n) \in Keys
  PROVE  /\ q = o => Rebase(q, o, n) = n
         /\ Below(q, o) => Below(Rebase(q, o, n), n)
         /\ Rebase(Rebase(q, o, n), n, o) = q
<1> PICK r \in Keys : r = Rebase(q, o, n)
  OBVIOUS
<1>1. /\ o \in Seq(Elements) /\ Len(o) \in Nat \ {0}
      /\ n \in Seq(Elements) /\ Len(n) \in Nat \ {0}
      /\ q \in Seq(Elements) /\ Len(q) \in Nat \ {0} /\ Len(o) <= Len(q)
      /\ r \in Seq(Elements)
  BY KeySeq, BelowPrefix
<1>2. /\ Len(r) = Len(n) + (Len(q) - Len(o))
      /\ \A i \in 1 .. Len(r) : r[i] = IF i <= Len(n) THEN n[i] ELSE q[i - Len(n) + Len(o)]
  <2>1. IsRebased(r, q, o, n)
    BY RebaseSeq
  <2> QED
    BY <2>1 DEF IsRebased
<1>3. \A i \in 1 .. Len(n) : r[i] = n[i]
  BY <1>1, <1>2
<1>4. q = o => r = n
  BY <1>1, <1>2, <1>3, SeqEqual
<1>5. Below(q, o) => Below(r, n)
  <2>1. Below(q, o) => Len(n) < Len(r)
    BY <1>1, <1>2, BelowPrefix
  <2> QED
    BY <1>3, <2>1, BelowPrefix
<1>6. r = n \/ Below(r, n)
  BY <1>4, <1>5
<1> PICK b : b = Rebase(r, n, o)
  OBVIOUS
<1>7. /\ b \in Seq(Elements) /\ Len(b) = Len(o) + (Len(r) - Len(n))
      /\ \A i \in 1 .. Len(b) : b[i] = IF i <= Len(o) THEN o[i] ELSE r[i - Len(o) + Len(n)]
  <2>1. IsRebased(b, r, n, o)
    BY <1>6, RebaseSeq
  <2> QED
    BY <2>1 DEF IsRebased
<1>8. Len(b) = Len(q)
  BY <1>1, <1>2, <1>7
<1>9. ASSUME NEW i \in 1 .. Len(q) PROVE b[i] = q[i]
  <2>1. CASE i <= Len(o)
    <3>1. o[i] = q[i]
      BY <1>1, <2>1, BelowPrefix
    <3> QED
      BY <1>7, <1>8, <2>1, <3>1
  <2>2. CASE ~(i <= Len(o))
    <3>1. /\ i - Len(o) + Len(n) \in 1 .. Len(r) /\ ~(i - Len(o) + Len(n) <= Len(n))
          /\ (i - Len(o) + Len(n)) - Len(n) + Len(o) = i
      BY <1>1, <1>2, <2>2
    <3> QED
      BY <1>2, <1>7, <1>8, <2>2, <3>1
  <2> QED
    BY <2>1, <2>2
<1>10. b = q
  BY <1>1, <1>7, <1>8, <1>9, SeqEqual
<1> QED
  BY <1>4, <1>5, <1>10

-----------------------------------------------------------------------------
(* The loop of a Rename *)

Within(q, d) == q = d \/ Below(q, d)
Apart(o, n)  == ~Within(o, n) /\ ~Within(n, o)

Existing(f) == {p \in Keys : Exists(f, p)}

\* The map f when the entries at o and at the paths in done have been moved.
Moved(f, o, n, done) ==
  [p \in Keys |->
     IF p \in done THEN None
     ELSE IF Within(p, n) /\ Rebase(p, n, o) \in done \cup {o} THEN f[Rebase(p, n, o)]
     ELSE f[p]]

\* Inside of its loop, a Rename has put old entries, or nothing, below the old
\* and the new path, and has left the rest alone; unless one path is within the
\* other, just the entries that it has visited are at their new places.
LoopOf(m) ==
  /\ IsDir(m.before, m.from)
  /\ m.from = m.to => ToVisit(m.before, m.from) # {}
  /\ \A p \in Keys : files[p] \in {m.before[q] : q \in Existing(m.before)} \cup {None}
  /\ \A p \in Keys : ~Within(p, m.from) /\ ~Within(p, m.to) => files[p] = m.before[p]
  /\ Apart(m.from, m.to) =>
       /\ m.added = {} /\ m.todo \subseteq ToVisit(m.before, m.from)
       /\ files = Moved(m.before, m.from, m.to, ToVisit(m.before, m.from) \ m.todo)

LoopInv == TypeOK /\ (moving # NoMove => LoopOf(moving))

Moves == [from : Paths, to : Paths, todo : SUBSET Keys, added : SUBSET Keys, before : Trees]

\* A Rename inside of its loop is told from none.
LEMMA MoveIsNotNoMove ==
  ASSUME NEW m \in Moves PROVE m # NoMove
  BY NoneAssumption DEF Moves, NoMove

\* Callers name keys of the map.
LEMMA PathsAreKeys == Paths \subseteq Keys /\ Root \in Keys
  BY EntryTypes

\* Between paths that are apart the loop inserts nothing that it could visit.
LEMMA ApartRebase ==
  ASSUME NEW o \in Keys, NEW n \in Keys, Apart(o, n), NEW q \in Keys, Below(q, o),
         Rebase(q, o, n) \in Keys
  PROVE  ~Within(Rebase(q, o, n), o)
<1>1. Below(Rebase(q, o, n), n)
  BY RebaseForm
<1> QED
  BY <1>1, AboveTheSame DEF Apart, Within

\* The entry itself goes to the new path.
LEMMA RebaseItself ==
  ASSUME NEW o \in Keys, NEW n \in Keys
  PROVE  Rebase(o, o, n) = n
<1>1. n \in Seq(Elements) /\ Len(o) \in Nat
  BY KeySeq
<1>2. SubSeq(o, Len(o) + 1, Len(o)) = <<>>
  BY <1>1, SubSeqEmpty
<1> QED
  BY <1>1, <1>2, ConcatEmptySeq DEF Rebase

\* The loop begins with the directory itself at its new place.
LEMMA BeginLoop ==
  ASSUME TypeOK, NEW o \in Paths, NEW n \in Paths, RenameBegin(o, n)
  PROVE  LoopOf(moving)' /\ moving' \in Moves
<1> PICK g : g = files
  OBVIOUS
<1> PICK f : f = [g EXCEPT ![n] = g[o]]
  OBVIOUS
<1>1. /\ IsDir(g, o) /\ ToVisit(f, o) # {} /\ files' = f /\ g \in Trees
      /\ moving' = [from |-> o, to |-> n, todo |-> ToVisit(f, o), added |-> {}, before |-> g]
  BY DEF RenameBegin, TypeOK
<1>2. o \in Keys /\ n \in Keys /\ f \in [Keys -> Entries \cup {None}]
      /\ g \in [Keys -> Entries \cup {None}]
  BY <1>1, PathsAreKeys DEF Trees
<1>3. /\ moving'.from = o /\ moving'.to = n /\ moving'.todo = ToVisit(f, o)
      /\ moving'.added = {} /\ moving'.before = g
  BY <1>1
<1>4. moving' \in Moves
  <2>1. ToVisit(f, o) \subseteq Keys
    BY <1>2 DEF ToVisit, Under
  <2> QED
    BY <1>1, <2>1 DEF Moves
<1>5. \A p \in Keys : f[p] = IF p = n THEN g[o] ELSE g[p]
  BY <1>1, <1>2
<1>6. Exists(g, o)
  BY <1>1 DEF IsDir
<1>7. \A p \in Keys : f[p] \in {g[q] : q \in Existing(g)} \cup {None}
  BY <1>2, <1>5, <1>6 DEF Existing, Exists
<1>8. \A p \in Keys : ~Within(p, o) /\ ~Within(p, n) => f[p] = g[p]
  BY <1>5 DEF Within
<1>9. ASSUME Apart(o, n)
      PROVE  ToVisit(f, o) = ToVisit(g, o) /\ f = Moved(g, o, n, {})
  <2>1. ~Below(n, o)
    BY <1>9 DEF Apart, Within
  <2>2. ToVisit(f, o) = ToVisit(g, o)
    BY <1>2, <1>5, <2>1 DEF ToVisit, Exists, Below, Under
  <2>3. ASSUME NEW p \in Keys, Within(p, n), Rebase(p, n, o) = o PROVE p = n
    <3>1. Rebase(Rebase(p, n, o), o, n) = p
      BY <1>2, <2>3, RebaseForm DEF Within
    <3> QED
      BY <1>2, <2>3, <3>1, RebaseItself
  <2>4. \A p \in Keys : f[p] = Moved(g, o, n, {})[p]
    BY <1>2, <1>5, <2>3, RebaseItself DEF Moved, Within
  <2>5. Moved(g, o, n, {}) = [p \in Keys |-> Moved(g, o, n, {})[p]]
    BY DEF Moved
  <2> QED
    BY <1>2, <2>2, <2>4, <2>5
<1>10. ASSUME Apart(o, n)
       PROVE  /\ moving'.added = {} /\ moving'.todo \subseteq ToVisit(g, o)
              /\ files' = Moved(g, o, n, ToVisit(g, o) \ moving'.todo)
  <2>1. moving'.todo = ToVisit(g, o) /\ files' = Moved(g, o, n, {})
    BY <1>1, <1>3, <1>9, <1>10
  <2>2. ToVisit(g, o) \ moving'.todo = {}
    BY <2>1
  <2> QED
    BY <1>3, <2>1, <2>2
<1>11. /\ \A p \in Keys : files'[p] \in {g[q] : q \in Existing(g)} \cup {None}
       /\ \A p \in Keys : ~Within(p, o) /\ ~Within(p, n) => files'[p] = g[p]
  BY <1>1, <1>7, <1>8
<1>12. /\ IsDir(moving'.before, moving'.from)
       /\ moving'.from = moving'.to => ToVisit(moving'.before, moving'.from) # {}
  <2>1. ASSUME o = n PROVE f = g
    BY <1>2, <2>1
  <2> QED
    BY <1>1, <1>3, <2>1
<1>13. LoopOf(moving)'
  <2> PICK m, h : m = moving' /\ h = files'
    OBVIOUS
  <2>1. m.from = o /\ m.to = n /\ m.before = g
    BY <1>3
  <2>2. /\ IsDir(m.before, m.from)
        /\ m.from = m.to => ToVisit(m.before, m.from) # {}
        /\ \A p \in Keys : h[p] \in {m.before[q] : q \in Existing(m.before)} \cup {None}
        /\ \A p \in Keys : ~Within(p, m.from) /\ ~Within(p, m.to) => h[p] = m.before[p]
    BY <1>11, <1>12, <2>1
  <2>3. Apart(m.from, m.to) =>
          /\ m.added = {} /\ m.todo \subseteq ToVisit(m.before, m.from)
          /\ h = Moved(m.before, m.from, m.to, ToVisit(m.before, m.from) \ m.todo)
    BY <1>10, <2>1
  <2> QED
    BY <2>2, <2>3 DEF LoopOf
<1> QED
  BY <1>4, <1>13

\* One iteration, whatever it visits.
LEMMA VisitLoop ==
  ASSUME LoopInv, NEW q \in Keys, RenameVisit(q)
  PROVE  /\ moving \in Moves /\ moving' \in Moves /\ moving'.before = moving.before
         /\ LoopOf(moving)'
<1> PICK o, n, f, nq : /\ o = moving.from /\ n = moving.to /\ f = moving.before
                       /\ nq = Rebase(q, o, n)
  OBVIOUS
<1>1. /\ q \in moving.todo \cup moving.added /\ nq \in Keys
      /\ files' = [[files EXCEPT ![nq] = files[q]] EXCEPT ![q] = None]
      /\ moving' = [moving EXCEPT
           !.todo  = @ \ {q},
           !.added = (IF Below(nq, o) /\ ~Exists(files, nq) THEN @ \cup {nq} ELSE @) \ {q}]
  BY DEF RenameVisit
<1>2. moving # NoMove /\ moving \in Moves
  <2>1. moving # NoMove
    BY <1>1 DEF NoMove
  <2> QED
    BY <2>1 DEF LoopInv, TypeOK, Moves
<1>3. /\ LoopOf(moving) /\ Exists(files, q) /\ Below(q, o) /\ files \in [Keys -> Entries \cup {None}]
  BY <1>1, <1>2 DEF LoopInv, TypeOK, Trees
<1>4. o \in Keys /\ n \in Keys /\ f \in [Keys -> Entries \cup {None}]
  BY <1>2, PathsAreKeys DEF Moves, Trees
<1>5. /\ moving' \in Moves
      /\ moving'.from = o /\ moving'.to = n /\ moving'.before = f
      /\ moving'.todo = moving.todo \ {q}
      /\ moving'.added = (IF Below(nq, o) /\ ~Exists(files, nq) THEN moving.added \cup {nq}
                                                                ELSE moving.added) \ {q}
  BY <1>1, <1>2 DEF Moves
<1>6. \A p \in Keys : files'[p] = IF p = q THEN None ELSE IF p = nq THEN files[q] ELSE files[p]
  BY <1>1, <1>3
<1>7. \A p \in Keys : files'[p] \in {f[r] : r \in Existing(f)} \cup {None}
  BY <1>3, <1>6 DEF LoopOf
<1>8. Below(nq, n)
  BY <1>1, <1>3, <1>4, RebaseForm
<1>9. \A p \in Keys : ~Within(p, o) /\ ~Within(p, n) => files'[p] = f[p]
  BY <1>3, <1>6, <1>8 DEF LoopOf, Within
<1>10. ASSUME Apart(o, n)
       PROVE  /\ moving'.added = {} /\ moving'.todo \subseteq ToVisit(f, o)
              /\ files' = Moved(f, o, n, ToVisit(f, o) \ moving'.todo)
  <2>1. moving.added = {} /\ moving.todo \subseteq ToVisit(f, o)
        /\ files = Moved(f, o, n, ToVisit(f, o) \ moving.todo)
    BY <1>3, <1>10 DEF LoopOf
  <2>2. ~Within(nq, o)
    BY <1>1, <1>3, <1>4, <1>10, ApartRebase
  <2>3. moving'.added = {} /\ moving'.todo \subseteq ToVisit(f, o)
    BY <1>5, <2>1, <2>2 DEF Within
  <2> PICK done : done = ToVisit(f, o) \ moving.todo
    OBVIOUS
  <2>4. q \in ToVisit(f, o) /\ q \notin done /\ q # nq
    BY <1>1, <1>3, <2>1, <2>2 DEF Within
  <2>5. ToVisit(f, o) \ moving'.todo = done \cup {q}
    BY <1>5, <2>4
  <2>6. ~Within(q, n)
    BY <1>3, <1>4, <1>10, AboveTheSame DEF Apart, Within
  <2>7. files[q] = f[q]
    BY <2>1, <2>4, <2>6 DEF Moved
  <2>8. Rebase(nq, n, o) = q
    BY <1>1, <1>3, <1>4, RebaseForm
  <2>9. ASSUME NEW p \in Keys, p # q, p # nq, Within(p, n) PROVE Rebase(p, n, o) # q
    <3>1. Rebase(p, n, o) = q => Rebase(q, o, n) = p
      BY <1>4, <2>9, RebaseForm DEF Within
    <3> QED
      BY <2>9, <3>1
  <2>10. ASSUME NEW p \in Keys PROVE files'[p] = Moved(f, o, n, done \cup {q})[p]
    <3>1. CASE p = q
      BY <1>6, <3>1 DEF Moved
    <3>2. CASE p = nq
      <4>1. nq \notin done \cup {q}
        BY <2>2, <2>4 DEF ToVisit, Within, Below
      <4> QED
        BY <1>6, <1>8, <2>4, <2>7, <2>8, <3>2, <4>1 DEF Moved, Within
    <3>3. CASE p # q /\ p # nq
      <4>1. files'[p] = Moved(f, o, n, done)[p]
        BY <1>6, <2>1, <3>3
      <4> QED
        BY <2>9, <3>3, <4>1 DEF Moved
    <3> QED
      BY <3>1, <3>2, <3>3
  <2>11. /\ Moved(f, o, n, done \cup {q}) = [p \in Keys |-> Moved(f, o, n, done \cup {q})[p]]
         /\ files' = [p \in Keys |-> files'[p]]
    BY <1>1, <1>3 DEF Moved
  <2>12. files' = Moved(f, o, n, done \cup {q})
    BY <2>10, <2>11
  <2> QED
    BY <2>3, <2>5, <2>12
<1>11. IsDir(f, o) /\ (o = n => ToVisit(f, o) # {})
  BY <1>3 DEF LoopOf
<1>12. LoopOf(moving)'
  BY <1>5, <1>7, <1>9, <1>10, <1>11 DEF LoopOf
<1> QED
  BY <1>2, <1>5, <1>12

\* No Rename has begun.
LEMMA LoopInvInit == Init => LoopInv
  BY InitTreeType DEF Init, LoopInv

\* LoopInv is inductive.
LEMMA LoopInvNext == LoopInv /\ [Next]_vars => LoopInv'
<1> SUFFICES ASSUME LoopInv, [Next]_vars PROVE LoopInv'
  OBVIOUS
<1>1. TypeOK'
  BY NextTreeType DEF LoopInv
<1>2. ASSUME moving' = moving, files' = files PROVE LoopInv'
  BY <1>1, <1>2 DEF LoopInv, LoopOf
<1>3. ASSUME NEW o \in Paths, NEW n \in Paths, RenameBegin(o, n) PROVE LoopInv'
  BY <1>1, <1>3, BeginLoop DEF LoopInv
<1>4. ASSUME NEW q \in Keys, RenameVisit(q) PROVE LoopInv'
  BY <1>1, <1>4, VisitLoop DEF LoopInv
<1>5. ASSUME moving' = NoMove PROVE LoopInv'
  BY <1>1, <1>5 DEF LoopInv
<1>6. ASSUME NEW f, Change(f) PROVE moving' = NoMove
  BY <1>6 DEF Change, Unlocked
<1>7. ASSUME NEW p \in Paths, Mkdir(p) \/ MkdirAll(p) \/ Remove(p) \/ RemoveAll(p)
      PROVE  LoopInv'
  BY <1>5, <1>6, <1>7 DEF Mkdir, MkdirAll, Remove, RemoveAll
<1>8. ASSUME NEW p \in Paths, NEW n \in 0 .. MaxSize, AddFile(p, n) \/ WriteFile(p, n)
      PROVE  LoopInv'
  BY <1>5, <1>6, <1>8 DEF AddFile, WriteFile
<1>9. ASSUME NEW o \in Paths, NEW n \in Paths, RenameOne(o, n)
      PROVE  LoopInv'
  BY <1>5, <1>6, <1>9 DEF RenameOne
<1> QED
  BY <1>2, <1>3, <1>4, <1>5, <1>7, <1>8, <1>9 DEF Next, vars, RenameEnd

-----------------------------------------------------------------------------
(* The steps, as AbstractTree says them *)

\* The names that AbstractTree gives to what it shares with this module.
LEMMA AbstractNames ==
  /\ Abstract!NewDir = Dir /\ Abstract!Present = Existing(tree)
  /\ \A d, q : Abstract!Seqs!IsPrefix(d, q) <=> Seqs!IsPrefix(d, q)
  BY DEF Abstract!NewDir, Dir, Abstract!Present, Existing, Exists,
     Abstract!Seqs!IsPrefix, Seqs!IsPrefix

\* What is below a directory is inside of it, and all else that is inside of one
\* is inside of the root.
LEMMA InsideForm ==
  /\ Abstract!Inside[Root] = Keys \ {Root}
  /\ \A d \in Keys \ {Root} : Abstract!Inside[d] = Under[d]
  /\ \A d \in Keys : Under[d] \subseteq Abstract!Inside[d]
<1>1. Root \in Keys
  BY PathsAreKeys
<1>2. Abstract!Inside[Root] = Keys \ {Root}
  BY <1>1 DEF Abstract!Inside
<1>3. \A d \in Keys \ {Root} : Abstract!Inside[d] = Under[d]
  BY DEF Abstract!Inside, Under, Abstract!Seqs!IsStrictPrefix, Abstract!Seqs!IsPrefix,
     Seqs!IsStrictPrefix, Seqs!IsPrefix
<1>4. Under[Root] \subseteq Keys \ {Root}
  BY <1>1, NotBelowItself DEF Under, Below
<1> QED
  BY <1>2, <1>3, <1>4

\* Paths in neither of which the other is are apart.
LEMMA ApartOutside ==
  ASSUME NEW o \in Keys, NEW n \in Keys
  PROVE  Apart(o, n) /\ o # Root /\ n # Root <=>
           n \notin Abstract!Inside[o] \cup {o} /\ o \notin Abstract!Inside[n]
  BY InsideForm DEF Apart, Within, Below

\* Entries are directories or plain files.
LEMMA AbstractEntries ==
  ASSUME NEW f \in Trees, NEW p \in Keys
  PROVE  /\ IsDir(f, p) <=> f[p] \in Abstract!Dirs
         /\ IsFile(f, p) => f[p] \in Abstract!Plain
         /\ \A n \in 0 .. MaxSize : File(n) \in Abstract!Plain
<1>1. f[p] \in Entries \cup {None}
  BY DEF Trees
<1>2. \A e \in Entries : e # None
  BY EntryTypes
<1>3. None \notin Abstract!Dirs
  <2>1. Abstract!Dirs \subseteq Entries
    BY DEF Abstract!Dirs, Entries
  <2> QED
    BY <1>2, <2>1
<1> QED
  BY <1>1, <1>2, <1>3 DEF Entries, IsDir, IsFile, Exists, Abstract!Dirs, Abstract!Plain, File

\* The steps of mkdirAll are what the path is within.
LEMMA StepsForm ==
  ASSUME NEW p \in Paths, NEW q \in Keys, q \in Steps(p)
  PROVE  Within(p, q)
<1>1. p \in Keys /\ p \in Seq(Elements) /\ Len(p) \in Nat \ {0}
  BY PathsAreKeys, KeySeq
<1> PICK k \in 1 .. Len(p) : q = SubSeq(p, 1, k)
  BY DEF Steps
<1>2. \A i \in 1 .. k : p[i] \in Elements
  BY <1>1, ElementOfSeq
<1>3. Len(q) = k /\ \A i \in 1 .. Len(q) : q[i] = p[i]
  <2>1. Len(q) = k /\ \A i \in 1 .. k : q[i] = p[i]
    BY <1>1, <1>2, SubSeqProperties
  <2> QED
    BY <2>1
<1>4. Seqs!IsPrefix(q, p)
  <2>1. Len(q) <= Len(p)
    BY <1>1, <1>3
  <2> QED
    BY <1>1, <1>3, <2>1, PrefixForm
<1> QED
  BY <1>1, <1>4, BelowPrefix DEF Within

\* Mkdir and MkdirAll make directories on the way to their path, and at it.
LEMMA MakesDirs ==
  ASSUME Unlocked, files \in Trees, NEW p \in Paths,
         NEW S, S \subseteq {q \in Keys : ~Exists(files, q) /\ Within(p, q)},
         files' = [q \in Keys |-> IF q \in S THEN Dir ELSE files[q]], Unlocked'
  PROVE  Abstract!MakeDirs(p)
<1>1. tree = files /\ tree' = files'
  BY DEF tree
<1>2. S \in SUBSET (Abstract!Missing(p) \cup ({p} \ Abstract!Present))
  BY <1>1, PathsAreKeys, InsideForm, AbstractNames DEF Abstract!Missing, Existing, Within, Below
<1> QED
  BY <1>1, <1>2, AbstractNames DEF Abstract!MakeDirs

\* Mkdir makes its directory, or nothing.
LEMMA MkdirMakes ==
  ASSUME files \in Trees, NEW p \in Paths, Mkdir(p)
  PROVE  Abstract!MakeDirs(p)
<1> PICK S : S = IF MkdirErr(files, p) = "nil" THEN {p} ELSE {}
  OBVIOUS
<1>1. Unlocked /\ Unlocked' /\ files' = MkdirTree(files, p) /\ p \in Keys
  BY PathsAreKeys DEF Mkdir, Change, Unlocked
<1>2. MkdirErr(files, p) = "nil" => ~Exists(files, p)
  BY DEF MkdirErr
<1>3. S \subseteq {q \in Keys : ~Exists(files, q) /\ Within(p, q)}
  BY <1>1, <1>2 DEF Within
<1>4. files' = [q \in Keys |-> IF q \in S THEN Dir ELSE files[q]]
  BY <1>1 DEF MkdirTree, Trees
<1> QED
  BY <1>1, <1>3, <1>4, MakesDirs

\* What mkdirAll makes.
Reached(f, p) == {q \in Keys : /\ q \in Steps(p) /\ ~Exists(f, q)
                               /\ \A b \in Blocked(f, p) : Len(q) < Len(b)}

\* What mkdirAll leaves, and that it replaces no entry.
LEMMA MkdirAllForm ==
  ASSUME NEW f, NEW p \in Paths
  PROVE  /\ MkdirAllTree(f, p) = [q \in Keys |-> IF q \in Reached(f, p) THEN Dir ELSE f[q]]
         /\ Reached(f, p) \subseteq {q \in Keys : ~Exists(f, q) /\ Within(p, q)}
  BY StepsForm DEF MkdirAllTree, Reached

\* MkdirAll makes directories on the way to its path, also when a file stops it.
LEMMA MkdirAllMakes ==
  ASSUME files \in Trees, NEW p \in Paths, MkdirAll(p)
  PROVE  Abstract!MakeDirs(p)
  BY MkdirAllForm, MakesDirs DEF MkdirAll, Change, Unlocked

\* The parent of a path that has one, and the directories made for it.
LEMMA ParentForm ==
  ASSUME NEW p \in Keys, Len(p) > 1
  PROVE  /\ Parent(p) \in Keys /\ Below(p, Parent(p)) /\ Len(Parent(p)) = Len(p) - 1
         /\ p \in Paths => Parent(p) \in Paths
<1> PICK d : d = SubSeq(p, 1, Len(p) - 1)
  OBVIOUS
<1>1. p \in Seq(Elements) /\ Len(p) \in Nat
  BY KeySeq
<1>2. d = Parent(p)
  BY <1>1 DEF Parent, Seqs!Front
<1>3. \A i \in 1 .. Len(p) - 1 : p[i] \in Elements
  <2> SUFFICES ASSUME NEW i \in 1 .. Len(p) - 1 PROVE p[i] \in Elements
    OBVIOUS
  <2>1. i \in 1 .. Len(p)
    BY <1>1
  <2> QED
    BY <1>1, <2>1, ElementOfSeq
<1>4. /\ d \in Seq(Elements) /\ Len(d) = Len(p) - 1
      /\ \A i \in 1 .. Len(d) : d[i] = p[i]
  BY <1>1, <1>3, SubSeqProperties
<1>5. ASSUME p \in Paths PROVE d \in Paths
  <2>1. p # Root
    BY DEF Root
  <2>2. p \in Seq(Names) /\ Len(p) \in 1 .. MaxDepth /\ MaxDepth \in Nat
    BY <1>5, <2>1, PathForm, TreeAssumption
  <2>3. \A i \in 1 .. Len(d) : d[i] \in Names
    <3> SUFFICES ASSUME NEW i \in 1 .. Len(d) PROVE p[i] \in Names
      BY <1>4
    <3>1. i \in 1 .. Len(p)
      BY <1>1, <1>4
    <3> QED
      BY <2>2, <3>1, ElementOfSeq
  <2>4. d \in Seq(Names)
    <3>1. PICK k \in Nat : k = Len(d) /\ d \in [1 .. k -> Elements]
      BY <1>4, LenProperties
    <3>2. d \in [1 .. k -> Names]
      BY <2>3, <3>1
    <3> QED
      BY <3>2, SeqDef
  <2>5. Len(d) \in 1 .. MaxDepth
    BY <1>1, <1>4, <2>2
  <2> QED
    BY <2>4, <2>5, PathForm
<1>6. d \in Keys
  <2>1. CASE p \in Paths
    BY <1>5, <2>1, PathsAreKeys
  <2>2. CASE p \notin Paths
    <3>1. PICK s \in Seqs!BoundedSeq(Names, MaxDepth - 1) : p = Root \o s
      BY <2>2 DEF Keys
    <3>2. PICK m \in 0 .. MaxDepth - 1 : s \in [1 .. m -> Names]
      BY <3>1 DEF Seqs!BoundedSeq, Seqs!SeqOf
    <3>3. m \in Nat /\ MaxDepth \in Nat \ {0}
      BY TreeAssumption
    <3>4. s \in Seq(Elements) /\ Len(s) = m /\ Root \in Seq(Elements) /\ Len(Root) = 1
      BY <3>2, <3>3 DEF Root, Elements
    <3>5. /\ Len(p) = 1 + m
          /\ \A i \in 1 .. 1 + m : p[i] = IF i <= 1 THEN Dot ELSE s[i - 1]
      BY <3>1, <3>4, ConcatProperties DEF Root
    <3> PICK r : r = [i \in 1 .. m - 1 |-> s[i]]
      OBVIOUS
    <3>6. m - 1 \in 0 .. MaxDepth - 1 /\ m - 1 \in Nat
      BY <1>1, <3>3, <3>5
    <3>7. r \in [1 .. m - 1 -> Names] /\ r \in Seq(Elements) /\ Len(r) = m - 1
      BY <3>2, <3>6 DEF Elements
    <3>8. r \in Seqs!BoundedSeq(Names, MaxDepth - 1)
      BY <3>6, <3>7 DEF Seqs!BoundedSeq, Seqs!SeqOf
    <3>9. /\ Root \o r \in Seq(Elements) /\ Len(Root \o r) = m
          /\ \A i \in 1 .. m : (Root \o r)[i] = IF i <= 1 THEN Dot ELSE r[i - 1]
      BY <3>4, <3>6, <3>7, ConcatProperties DEF Root
    <3>10. /\ Len(d) = Len(Root \o r) /\ d \in Seq(Elements)
           /\ \A i \in 1 .. Len(d) : d[i] = (Root \o r)[i]
      <4>1. Len(d) = m
        BY <1>4, <3>3, <3>5
      <4> QED
        BY <1>4, <3>5, <3>6, <3>9, <4>1
    <3>11. d = Root \o r
      BY <3>9, <3>10, SeqEqual
    <3> QED
      BY <3>8, <3>11 DEF Keys
  <2> QED
    BY <2>1, <2>2
<1>7. Below(p, d)
  <2>1. Len(d) < Len(p)
    BY <1>1, <1>4
  <2> QED
    BY <1>4, <1>6, <2>1, BelowPrefix
<1> QED
  BY <1>2, <1>4, <1>5, <1>6, <1>7

\* AddFile puts its file, or leaves the parents it has made when it fails.
LEMMA AddFileMakes ==
  ASSUME files \in Trees, NEW p \in Paths, NEW n \in 0 .. MaxSize, AddFile(p, n)
  PROVE  Abstract!MakeDirs(p) \/ Abstract!PutFile(p)
<1> PICK S : S = IF Len(p) > 1 THEN Reached(files, Parent(p)) ELSE {}
  OBVIOUS
<1>1. p \in Keys /\ Unlocked /\ Unlocked' /\ files' = AddFileTree(files, p, n)
      /\ tree = files /\ tree' = files'
  BY PathsAreKeys DEF AddFile, Change, Unlocked, tree
<1>2. /\ WithParents(files, p) = [q \in Keys |-> IF q \in S THEN Dir ELSE files[q]]
      /\ S \subseteq {q \in Keys : ~Exists(files, q) /\ Below(p, q)}
  <2>1. CASE Len(p) > 1
    <3>1. Parent(p) \in Paths /\ Parent(p) \in Keys /\ Below(p, Parent(p))
      BY <1>1, <2>1, ParentForm
    <3>2. /\ MkdirAllTree(files, Parent(p)) = [q \in Keys |-> IF q \in S THEN Dir ELSE files[q]]
          /\ S \subseteq {q \in Keys : ~Exists(files, q) /\ Within(Parent(p), q)}
      BY <2>1, <3>1, MkdirAllForm
    <3>3. \A q \in Keys : Within(Parent(p), q) => Below(p, q)
      BY <1>1, <3>1, BelowBelow DEF Within
    <3> QED
      BY <2>1, <3>2, <3>3 DEF WithParents
  <2>2. CASE ~(Len(p) > 1)
    BY <2>2 DEF WithParents, Trees
  <2> QED
    BY <2>1, <2>2
<1>3. CASE AddFileErr(files, p) # "nil"
  <2>1. files' = WithParents(files, p)
    BY <1>1, <1>3 DEF AddFileTree
  <2> QED
    BY <1>1, <1>2, <2>1, MakesDirs DEF Within
<1>4. CASE AddFileErr(files, p) = "nil"
  <2>1. files' = [WithParents(files, p) EXCEPT ![p] = File(n)]
    BY <1>1, <1>4 DEF AddFileTree
  <2>2. files' = [q \in Keys |-> IF q = p THEN File(n) ELSE IF q \in S THEN Dir ELSE files[q]]
    BY <1>1, <1>2, <2>1
  <2>3. ~IsDir(files, p)
    BY <1>4 DEF AddFileErr
  <2>4. tree[p] \notin Abstract!Dirs /\ File(n) \in Abstract!Plain
    BY <1>1, <2>3, AbstractEntries
  <2>5. S \in SUBSET Abstract!Missing(p)
    BY <1>1, <1>2, InsideForm, AbstractNames DEF Abstract!Missing, Existing, Below
  <2>6. tree' = [q \in Keys |-> IF q = p THEN File(n)
                                ELSE IF q \in S THEN Abstract!NewDir ELSE tree[q]]
    BY <1>1, <2>2, AbstractNames
  <2> QED
    BY <2>4, <2>5, <2>6 DEF Abstract!PutFile
<1> QED
  BY <1>3, <1>4

\* WriteFile creates a file, or writes an entry that stays what it is.
LEMMA WriteFileMakes ==
  ASSUME files \in Trees, NEW p \in Paths, NEW n \in 0 .. MaxSize, WriteFile(p, n)
  PROVE  Abstract!PutFile(p) \/ Abstract!Write(p) \/ UNCHANGED tree
<1>1. p \in Keys /\ Unlocked /\ Unlocked' /\ files' = WriteFileTree(files, p, n)
      /\ tree = files /\ tree' = files'
  BY PathsAreKeys DEF WriteFile, Change, Unlocked, tree
<1>2. CASE WriteFileErr(files, p) # "nil"
  BY <1>1, <1>2 DEF WriteFileTree
<1>3. CASE WriteFileErr(files, p) = "nil" /\ ~Exists(files, p)
  <2> PICK S : S = {}
    OBVIOUS
  <2>1. files' = [files EXCEPT ![p] = File(n)]
    BY <1>1, <1>3 DEF WriteFileTree
  <2>2. files' = [q \in Keys |-> IF q = p THEN File(n) ELSE IF q \in S THEN Dir ELSE files[q]]
    BY <2>1 DEF Trees
  <2>3. tree[p] \notin Abstract!Dirs /\ File(n) \in Abstract!Plain
    BY <1>1, <1>3, AbstractEntries DEF IsDir
  <2>4. S \in SUBSET Abstract!Missing(p)
    OBVIOUS
  <2>5. tree' = [q \in Keys |-> IF q = p THEN File(n)
                                ELSE IF q \in S THEN Abstract!NewDir ELSE tree[q]]
    BY <1>1, <2>2, AbstractNames
  <2> QED
    BY <2>3, <2>4, <2>5 DEF Abstract!PutFile
<1>4. CASE WriteFileErr(files, p) = "nil" /\ Exists(files, p)
  <2>1. PICK m \in 0 .. MaxSize : files' = [files EXCEPT ![p].size = m]
    <3>1. CASE WriteMode = "append"
      <4>1. files[p].size + n <= MaxSize /\ files[p] \in Entries
        BY <1>4, <3>1, <1>1 DEF WriteFile, Exists, Trees
      <4>2. files[p].size \in 0 .. MaxSize
        BY <4>1 DEF Entries
      <4>3. files[p].size + n \in 0 .. MaxSize
        BY <4>1, <4>2, TreeAssumption
      <4>4. files' = [files EXCEPT ![p].size = files[p].size + n]
        BY <1>1, <1>4, <3>1 DEF WriteFileTree
      <4> QED
        BY <4>3, <4>4
    <3>2. CASE WriteMode # "append"
      BY <1>1, <1>4, <3>2 DEF WriteFileTree
    <3> QED
      BY <3>1, <3>2
  <2>2. p \in Abstract!Present
    BY <1>1, <1>4, AbstractNames DEF Existing
  <2> QED
    BY <1>1, <2>1, <2>2 DEF Abstract!Write
<1> QED
  BY <1>2, <1>3, <1>4

\* The keys below the root are those that no caller can name.
LEMMA UnderRoot == Under[Root] = Keys \ Paths
<1>1. Root \in Keys /\ Root \in Paths /\ Len(Root) = 1 /\ Root[1] = Dot
  BY EntryTypes, PathsAreKeys DEF Root
<1>2. ASSUME NEW q \in Keys, Below(q, Root) PROVE q \notin Paths
  <2>1. Len(q) \in Nat \ {0} /\ 1 < Len(q) /\ Root[1] = q[1]
    <3>1. Len(Root) < Len(q) /\ \A i \in 1 .. Len(Root) : Root[i] = q[i]
      BY <1>1, <1>2, BelowPrefix
    <3>2. Len(q) \in Nat \ {0} /\ 1 \in 1 .. Len(Root)
      BY <1>1, KeySeq
    <3> QED
      BY <1>1, <3>1, <3>2
  <2>2. q # Root
    BY <1>1, <2>1
  <2>3. q \in Paths \ {Root} => q[1] \in Names
    BY <2>1, PathForm, ElementOfSeq
  <2> QED
    BY <1>1, <2>1, <2>2, <2>3, TreeAssumption
<1>3. ASSUME NEW q \in Keys \ Paths PROVE Below(q, Root)
  <2>1. PICK s \in Seqs!BoundedSeq(Names, MaxDepth - 1) : q = Root \o s
    BY DEF Keys
  <2>2. PICK m \in 0 .. MaxDepth - 1 : s \in [1 .. m -> Names]
    BY <2>1 DEF Seqs!BoundedSeq, Seqs!SeqOf
  <2>3. s \in Seq(Elements) /\ Len(s) = m /\ m \in Nat /\ Root \in Seq(Elements)
    BY <2>2, TreeAssumption DEF Root, Elements
  <2>4. Len(q) = 1 + m /\ \A i \in 1 .. 1 : q[i] = Root[i]
    <3>1. /\ Len(q) = Len(Root) + Len(s)
          /\ \A i \in 1 .. Len(Root) + Len(s) :
               q[i] = IF i <= Len(Root) THEN Root[i] ELSE s[i - Len(Root)]
      BY <2>1, <2>3, ConcatProperties
    <3>2. \A i \in 1 .. 1 : i \in 1 .. Len(Root) + Len(s) /\ i <= Len(Root)
      BY <1>1, <2>3
    <3> QED
      BY <1>1, <2>3, <3>1, <3>2
  <2>5. m # 0
    <3> SUFFICES ASSUME m = 0 PROVE FALSE
      OBVIOUS
    <3>1. q \in Seq(Elements) /\ Len(q) = Len(Root) /\ \A i \in 1 .. Len(q) : q[i] = Root[i]
      BY <1>1, <2>4, KeySeq
    <3>2. q = Root
      BY <2>3, <3>1, SeqEqual
    <3> QED
      BY <1>1, <1>3, <3>2
  <2>6. Len(Root) < Len(q) /\ \A i \in 1 .. Len(Root) : Root[i] = q[i]
    BY <1>1, <2>3, <2>4, <2>5
  <2> QED
    BY <1>1, <2>6, BelowPrefix
<1>4. \A q \in Keys : Below(q, Root) <=> q \in Under[Root]
  BY DEF Below
<1>5. Under[Root] \subseteq Keys
  BY <1>1 DEF Under
<1> QED
  BY <1>2, <1>3, <1>4, <1>5

\* No other path, and nothing below one, has the root in front of it.
LEMMA RootApart ==
  ASSUME NEW o \in Paths \ {Root}
  PROVE  Apart(o, Root) /\ \A q \in Under[o] : q \in Keys /\ ~Within(q, Root)
<1>1. o \in Keys /\ Root \in Keys
  BY PathsAreKeys
<1>2. ~Below(o, Root)
  BY UnderRoot DEF Below
<1>3. ~Below(Root, o)
  <2> SUFFICES ASSUME Below(Root, o) PROVE FALSE
    OBVIOUS
  <2>1. Root \in Seq(Names)
    BY <1>1, BelowForm
  <2>2. Len(Root) = 1 /\ Root[1] = Dot
    BY DEF Root
  <2>3. Root[1] \in Names
    BY <2>1, <2>2, ElementOfSeq
  <2> QED
    BY <2>2, <2>3, TreeAssumption
<1>4. ASSUME NEW q \in Under[o] PROVE q \in Keys /\ ~Within(q, Root)
  <2>1. q \in Keys /\ Below(q, o)
    BY <1>1 DEF Under, Below
  <2> QED
    BY <1>1, <1>2, <1>3, <2>1, AboveTheSame DEF Within
<1> QED
  BY <1>2, <1>3, <1>4 DEF Apart, Within

\* Remove takes one entry, never a directory that holds something, but for ".".
LEMMA RemoveMakes ==
  ASSUME files \in Trees, NEW p \in Paths, Remove(p)
  PROVE  Abstract!Delete(p) \/ RootGoesAlone \/ UNCHANGED tree
<1>1. p \in Keys /\ files' = RemoveTree(files, p) /\ tree = files /\ tree' = files'
  BY PathsAreKeys DEF Remove, Change, Unlocked, tree
<1>2. CASE RemoveErr(files, p) # "nil"
  BY <1>1, <1>2 DEF RemoveTree
<1>3. CASE RemoveErr(files, p) = "nil"
  <2>1. tree' = [q \in Keys |-> IF q = p THEN None ELSE tree[q]]
    BY <1>1, <1>3 DEF RemoveTree, Without, Trees
  <2>2. Exists(files, p) /\ (IsDir(files, p) => \A q \in Under[p] : ~Exists(files, q))
    BY <1>3 DEF RemoveErr
  <2>3. CASE p # Root
    <3>1. tree[p] \in Abstract!Dirs => Existing(tree) \cap Under[p] = {}
      BY <1>1, <2>2, AbstractEntries DEF Existing
    <3>2. tree' = [tree EXCEPT ![p] = None]
      BY <1>1, <2>1 DEF Trees
    <3> QED
      BY <1>1, <2>3, <3>1, <3>2, InsideForm, AbstractNames DEF Abstract!Delete
  <2>4. CASE p = Root /\ IsDir(files, p)
    <3>1. \A q \in Keys \ Paths : tree[q] = None
      BY <1>1, <2>2, <2>4, UnderRoot DEF Exists
    <3>2. tree' = [q \in Keys |-> IF q \in Paths \ {Root} THEN tree[q] ELSE None]
      BY <2>1, <2>4, <3>1
    <3> QED
      BY <2>4, <3>2 DEF RootGoesAlone
  <2>5. CASE p = Root /\ ~IsDir(files, p)
    <3>1. tree[p] \notin Abstract!Dirs
      BY <1>1, <2>5, AbstractEntries
    <3>2. tree' = [tree EXCEPT ![p] = None]
      BY <1>1, <2>1 DEF Trees
    <3> QED
      BY <3>1, <3>2 DEF Abstract!Delete
  <2> QED
    BY <2>3, <2>4, <2>5
<1> QED
  BY <1>2, <1>3

\* RemoveAll takes an entry with all that is below it: all that is inside, but
\* for ".".
LEMMA RemoveAllMakes ==
  ASSUME files \in Trees, NEW p \in Paths, RemoveAll(p)
  PROVE  Abstract!DeleteAll(p) \/ RootGoesAlone
<1>1. p \in Keys /\ files' = RemoveAllTree(files, p) /\ tree = files /\ tree' = files'
  BY PathsAreKeys DEF RemoveAll, Change, Unlocked, tree
<1>2. CASE p # Root
  BY <1>1, <1>2, InsideForm DEF RemoveAllTree, Without, Abstract!DeleteAll
<1>3. CASE p = Root
  <2>1. \A q \in Keys : q \in {p} \cup Under[p] <=> q \notin Paths \ {Root}
    BY <1>3, UnderRoot
  <2>2. tree' = [q \in Keys |-> IF q \in Paths \ {Root} THEN tree[q] ELSE None]
    BY <1>1, <2>1 DEF RemoveAllTree, Without
  <2> QED
    BY <1>3, <2>2 DEF RootGoesAlone
<1> QED
  BY <1>2, <1>3

-----------------------------------------------------------------------------
(* Rename, as AbstractTree says it *)

\* A map that has everything moved that can be is what Move makes.
LEMMA MovedMoves ==
  ASSUME NEW o \in Paths \ {Root}, NEW n \in Paths \ {Root}, Apart(o, n),
         tree \in Trees, Exists(tree, o),
         NEW done, done = IF IsDir(tree, o) THEN ToVisit(tree, o) ELSE {},
         tree' = Without(Moved(tree, o, n, done), {o})
  PROVE  Abstract!MovesFrom(o) /\ Abstract!Move(o, n)
<1>1. o \in Keys /\ n \in Keys
  BY PathsAreKeys
<1> PICK moved : moved = {o} \cup (IF IsDir(tree, o) THEN Under[o] ELSE {})
  OBVIOUS
<1> PICK taken : taken = {q \in Keys : Within(q, n) /\ Rebase(q, n, o) \in moved \cap Existing(tree)}
  OBVIOUS
<1>2. moved \cap Existing(tree) = done \cup {o}
  BY <1>1 DEF ToVisit, Existing, Under
<1>3. taken = {q \in Keys : Within(q, n) /\ Rebase(q, n, o) \in done \cup {o}}
  BY <1>2
<1>4. \A q \in moved : ~Within(q, n) /\ (q # o => q \in Keys /\ Below(q, o))
  BY <1>1, AboveTheSame DEF Apart, Within, Below, Under
<1>5. o \notin done
  BY <1>1, NotBelowItself DEF ToVisit, Below
<1>6. \A q \in moved : q \in done \/ q = o \/ tree[q] = None
  BY DEF ToVisit, Exists
<1>7. done \subseteq moved
  BY DEF ToVisit
<1>8. ASSUME NEW q \in Keys
      PROVE  tree'[q] = IF q \in taken THEN tree[Rebase(q, n, o)]
                        ELSE IF q \in moved THEN None ELSE tree[q]
  <2>1. tree'[q] = IF q = o THEN None ELSE Moved(tree, o, n, done)[q]
    BY DEF Without
  <2>2. CASE q \in taken
    <3>1. q \notin moved
      BY <1>3, <1>4, <2>2
    <3>2. q # o /\ q \notin done
      BY <1>7, <3>1
    <3> QED
      BY <1>3, <2>1, <2>2, <3>2 DEF Moved
  <2>3. CASE q \notin taken /\ q \in moved
    BY <1>3, <1>4, <1>6, <2>1, <2>3 DEF Moved
  <2>4. CASE q \notin taken /\ q \notin moved
    BY <1>3, <1>7, <2>1, <2>4 DEF Moved
  <2> QED
    BY <2>2, <2>3, <2>4
<1>9. tree' = [q \in Keys |-> IF q \in taken THEN tree[Rebase(q, n, o)]
                              ELSE IF q \in moved THEN None ELSE tree[q]]
  <2>1. tree' = [q \in Keys |-> tree'[q]]
    BY DEF Without
  <2> QED
    BY <1>8, <2>1
<1>10. Abstract!MovesFrom(o)
  <2>1. tree'[o] = None
    BY <1>1 DEF Without
  <2> QED
    BY <1>1, <2>1, AbstractNames DEF Abstract!MovesFrom, Existing
<1>11. n \notin Abstract!Inside[o] \cup {o} /\ o \notin Abstract!Inside[n]
  BY <1>1, ApartOutside
<1>12. moved = {o} \cup (IF tree[o] \in Abstract!Dirs THEN Abstract!Inside[o] ELSE {})
  BY <1>1, InsideForm, AbstractEntries
<1>13. taken = {q \in Keys : Abstract!Seqs!IsPrefix(n, q)
                             /\ Rebase(q, n, o) \in moved \cap Abstract!Present}
  BY <1>1, AbstractNames, BelowPrefix DEF Within
<1> QED
  BY <1>9, <1>10, <1>11, <1>12, <1>13 DEF Abstract!Move, Rebase

\* The map with the entry at o also at n.
Copied(f, o, n) == [f EXCEPT ![n] = f[o]]

\* The move of one entry is the whole move.
LEMMA OneMoved ==
  ASSUME NEW f \in Trees, NEW o \in Paths, NEW n \in Paths, Apart(o, n), Exists(f, o),
         IsDir(f, o) => ToVisit(Copied(f, o, n), o) = {},
         NEW done, done = IF IsDir(f, o) THEN ToVisit(f, o) ELSE {}
  PROVE  Without(Copied(f, o, n), {o}) = Without(Moved(f, o, n, done), {o})
<1>1. o \in Keys /\ n \in Keys
  BY PathsAreKeys
<1> PICK g : g = Copied(f, o, n)
  OBVIOUS
<1>2. \A q \in Keys : g[q] = IF q = n THEN f[o] ELSE f[q]
  BY <1>1 DEF Copied, Trees
<1>3. done = {}
  <2>1. ASSUME IsDir(f, o) PROVE ToVisit(f, o) = {}
    <3>1. n \notin Under[o]
      BY DEF Apart, Within, Below
    <3>2. \A q \in Under[o] : g[q] = f[q]
      BY <1>1, <1>2, <3>1 DEF Under
    <3> QED
      BY <2>1, <3>2 DEF ToVisit, Exists
  <2> QED
    BY <2>1
<1>4. \A q \in Keys : Within(q, n) /\ Rebase(q, n, o) = o <=> q = n
  <2> SUFFICES ASSUME NEW q \in Keys PROVE Within(q, n) /\ Rebase(q, n, o) = o <=> q = n
    OBVIOUS
  <2>1. ASSUME Within(q, n), Rebase(q, n, o) = o PROVE q = n
    <3>1. Rebase(Rebase(q, n, o), o, n) = q
      BY <1>1, <2>1, RebaseForm DEF Within
    <3> QED
      BY <1>1, <2>1, <3>1, RebaseItself
  <2> QED
    BY <1>1, <2>1, RebaseItself DEF Within
<1>5. \A q \in Keys : Moved(f, o, n, done)[q] = IF q = n THEN f[o] ELSE f[q]
  BY <1>1, <1>3, <1>4, RebaseItself DEF Moved
<1> QED
  BY <1>2, <1>5 DEF Without

\* A Rename of one entry is a Move, or a step of a move into itself.
LEMMA RenameOneMakes ==
  ASSUME files \in Trees, NEW o \in Paths, NEW n \in Paths, RenameOne(o, n)
  PROVE  Abstract!MovesFrom(o) /\ (Abstract!Move(o, n) \/ Abstract!MoveWithin(o, n))
<1> PICK f : f = Copied(files, o, n)
  OBVIOUS
<1>1. /\ o \in Keys /\ n \in Keys /\ Exists(files, o) /\ (IsDir(files, o) => ToVisit(f, o) = {})
      /\ files' = Without(f, {o}) /\ tree = files /\ tree' = files'
  BY PathsAreKeys DEF RenameOne, Change, Unlocked, tree, Copied
<1>2. \A q \in Keys : f[q] = IF q = n THEN files[o] ELSE files[q]
  BY <1>1 DEF Copied, Trees
<1>3. \A q \in Keys : tree'[q] = IF q = o THEN None ELSE IF q = n THEN files[o] ELSE files[q]
  BY <1>1, <1>2 DEF Without
<1>4. CASE Apart(o, n) /\ o # Root /\ n # Root
  <2> PICK done : done = IF IsDir(files, o) THEN ToVisit(files, o) ELSE {}
    OBVIOUS
  <2>1. Without(f, {o}) = Without(Moved(files, o, n, done), {o})
    BY <1>1, <1>4, OneMoved
  <2> QED
    BY <1>1, <1>4, <2>1, MovedMoves
<1>5. CASE ~(Apart(o, n) /\ o # Root /\ n # Root)
  <2>1. n \in Abstract!Inside[o] \cup {o} \/ o \in Abstract!Inside[n]
    BY <1>1, <1>5, ApartOutside
  <2>2. tree' \in [Keys -> {tree[q] : q \in Abstract!Present} \cup {None}]
    <3>1. \A q \in Keys : tree'[q] \in {tree[r] : r \in Abstract!Present} \cup {None}
      BY <1>1, <1>3, AbstractNames DEF Existing, Exists
    <3>2. tree' = [q \in Keys |-> tree'[q]]
      BY <1>1 DEF Without
    <3> QED
      BY <3>1, <3>2
  <2>3. \A q \in Keys \ (Abstract!Inside[o] \cup {o}) :
          Abstract!Seqs!IsPrefix(n, q) \/ tree'[q] = tree[q]
    BY <1>1, <1>3, AbstractNames, BelowPrefix
  <2>4. o \in Abstract!Present /\ tree'[o] = None
    BY <1>1, <1>3, AbstractNames DEF Existing
  <2>5. ASSUME n = Root, o # Root, tree[o] \in Abstract!Dirs, NEW q \in Abstract!Inside[o]
        PROVE  tree'[q] = None
    <3>1. q \in Under[o] /\ q \in Keys /\ ~Within(q, n)
      BY <1>1, <2>5, InsideForm, RootApart
    <3>2. f[q] = None
      BY <1>1, <2>5, <3>1, AbstractEntries DEF ToVisit, Exists
    <3> QED
      BY <1>2, <1>3, <3>1, <3>2 DEF Within
  <2> QED
    BY <2>1, <2>2, <2>3, <2>4, <2>5 DEF Abstract!MovesFrom, Abstract!MoveWithin
<1> QED
  BY <1>4, <1>5

\* What a Rename leaves when its paths are apart, whatever order its loop took.
LEMMA EndMoved ==
  ASSUME LoopInv, RenameEnd, Apart(moving.from, moving.to)
  PROVE  tree' = Without(Moved(tree, moving.from, moving.to, ToVisit(tree, moving.from)),
                         {moving.from})
<1>1. /\ moving # NoMove /\ moving.todo = {} /\ files' = Without(files, {moving.from})
      /\ tree = moving.before /\ tree' = files'
  BY DEF RenameEnd, Unlocked, tree
<1>2. files = Moved(tree, moving.from, moving.to, ToVisit(tree, moving.from) \ {})
  BY <1>1 DEF LoopInv, LoopOf
<1> QED
  BY <1>1, <1>2

\* The end of a Rename is the whole Rename for a caller.
LEMMA RenameEndMakes ==
  ASSUME LoopInv, RenameEnd
  PROVE  \E o \in Paths : /\ Abstract!MovesFrom(o)
                          /\ \E n \in Paths : Abstract!Move(o, n) \/ Abstract!MoveWithin(o, n)
<1> PICK o, n : o = moving.from /\ n = moving.to
  OBVIOUS
<1>1. /\ moving # NoMove /\ LoopOf(moving) /\ moving \in Moves
      /\ files' = Without(files, {o}) /\ tree = moving.before /\ tree' = files'
  BY DEF RenameEnd, Unlocked, tree, LoopInv, TypeOK, Moves
<1>2. o \in Paths /\ n \in Paths /\ o \in Keys /\ n \in Keys /\ tree \in Trees /\ IsDir(tree, o)
  BY <1>1, PathsAreKeys DEF Moves, LoopOf
<1>3. CASE Apart(o, n) /\ o # Root /\ n # Root
  <2>1. tree' = Without(Moved(tree, o, n, ToVisit(tree, o)), {o})
    BY <1>3, EndMoved
  <2>2. Exists(tree, o)
    BY <1>2 DEF IsDir
  <2> PICK done : done = IF IsDir(tree, o) THEN ToVisit(tree, o) ELSE {}
    OBVIOUS
  <2>3. done = ToVisit(tree, o)
    BY <1>2
  <2>4. Abstract!MovesFrom(o) /\ Abstract!Move(o, n)
    BY <1>2, <1>3, <2>1, <2>2, <2>3, MovedMoves
  <2> QED
    BY <1>2, <2>4
<1>4. CASE ~(Apart(o, n) /\ o # Root /\ n # Root)
  <2>1. n \in Abstract!Inside[o] \cup {o} \/ o \in Abstract!Inside[n]
    BY <1>2, <1>4, ApartOutside
  <2>2. \A q \in Keys : tree'[q] = IF q = o THEN None ELSE files[q]
    BY <1>1 DEF Without
  <2>3. /\ \A q \in Keys : files[q] \in {tree[r] : r \in Existing(tree)} \cup {None}
        /\ \A q \in Keys : ~Within(q, o) /\ ~Within(q, n) => files[q] = tree[q]
    BY <1>1 DEF LoopOf
  <2>4. tree' \in [Keys -> {tree[q] : q \in Abstract!Present} \cup {None}]
    <3>1. \A q \in Keys : tree'[q] \in {tree[r] : r \in Abstract!Present} \cup {None}
      BY <2>2, <2>3, AbstractNames
    <3>2. tree' = [q \in Keys |-> tree'[q]]
      BY <1>1 DEF Without
    <3> QED
      BY <3>1, <3>2
  <2>5. \A q \in Keys \ (Abstract!Inside[o] \cup {o}) :
          Abstract!Seqs!IsPrefix(n, q) \/ tree'[q] = tree[q]
    <3> SUFFICES ASSUME NEW q \in Keys \ (Abstract!Inside[o] \cup {o}),
                        ~Abstract!Seqs!IsPrefix(n, q)
                 PROVE  tree'[q] = tree[q]
      OBVIOUS
    <3>1. q # o /\ ~Within(q, o)
      BY <1>2, InsideForm DEF Within, Below
    <3>2. ~Within(q, n)
      BY <1>2, AbstractNames, BelowPrefix DEF Within
    <3> QED
      BY <2>2, <2>3, <3>1, <3>2
  <2>6. o \in Abstract!Present /\ tree'[o] = None
    BY <1>2, <2>2, AbstractNames DEF Existing, IsDir
  <2>7. ASSUME n = Root, o # Root, NEW q \in Abstract!Inside[o]
        PROVE  tree'[q] = None
    <3>1. q \in Under[o] /\ q \in Keys /\ ~Within(q, n) /\ Apart(o, n)
      BY <1>2, <2>7, InsideForm, RootApart
    <3>2. tree' = Without(Moved(tree, o, n, ToVisit(tree, o)), {o})
      BY <3>1, EndMoved
    <3>3. q # o
      BY <1>2, <3>1, NotBelowItself DEF Below
    <3>4. tree'[q] = Moved(tree, o, n, ToVisit(tree, o))[q]
      BY <3>1, <3>2, <3>3 DEF Without
    <3>5. CASE q \in ToVisit(tree, o)
      BY <3>1, <3>4, <3>5 DEF Moved
    <3>6. CASE q \notin ToVisit(tree, o)
      <4>1. tree[q] = None
        BY <3>1, <3>6 DEF ToVisit, Exists
      <4> QED
        BY <3>1, <3>4, <3>6, <4>1 DEF Moved
    <3> QED
      BY <3>5, <3>6
  <2>8. Abstract!MovesFrom(o) /\ Abstract!MoveWithin(o, n)
    BY <2>1, <2>4, <2>5, <2>6, <2>7 DEF Abstract!MovesFrom, Abstract!MoveWithin
  <2> QED
    BY <1>2, <2>8
<1> QED
  BY <1>3, <1>4

\* A Rename of a directory is not seen until it ends.
LEMMA LoopUnseen ==
  ASSUME LoopInv, \/ \E o, n \in Paths : RenameBegin(o, n)
                  \/ \E q \in Keys : RenameVisit(q)
  PROVE  UNCHANGED tree
<1>1. ASSUME NEW o \in Paths, NEW n \in Paths, RenameBegin(o, n) PROVE UNCHANGED tree
  <2>1. moving = NoMove /\ moving'.before = files
    BY <1>1 DEF RenameBegin, Unlocked
  <2>2. moving' # NoMove
    BY <1>1, BeginLoop, MoveIsNotNoMove DEF LoopInv
  <2> QED
    BY <2>1, <2>2 DEF tree, Unlocked
<1>2. ASSUME NEW q \in Keys, RenameVisit(q) PROVE UNCHANGED tree
  <2>1. moving \in Moves /\ moving' \in Moves /\ moving'.before = moving.before
    BY <1>2, VisitLoop
  <2>2. moving # NoMove /\ moving' # NoMove
    BY <2>1, MoveIsNotNoMove
  <2> QED
    BY <2>1, <2>2 DEF tree, Unlocked
<1> QED
  BY <1>1, <1>2

\* Every step of FileTree is a step of AbstractTree, takes the root alone, or is
\* not seen.
LEMMA StepAsPromised == LoopInv /\ [Next]_vars => [Abstract!Next \/ RootGoesAlone]_tree
<1> SUFFICES ASSUME LoopInv, [Next]_vars
             PROVE  Abstract!Next \/ RootGoesAlone \/ UNCHANGED tree
  OBVIOUS
<1>1. files \in Trees
  BY DEF LoopInv, TypeOK
<1>2. ASSUME NEW p \in Paths, Mkdir(p) \/ MkdirAll(p) \/ Remove(p) \/ RemoveAll(p)
      PROVE  Abstract!Next \/ RootGoesAlone \/ UNCHANGED tree
  BY <1>1, <1>2, MkdirMakes, MkdirAllMakes, RemoveMakes, RemoveAllMakes DEF Abstract!Next
<1>3. ASSUME NEW p \in Paths, NEW n \in 0 .. MaxSize, AddFile(p, n) \/ WriteFile(p, n)
      PROVE  Abstract!Next \/ UNCHANGED tree
  BY <1>1, <1>3, AddFileMakes, WriteFileMakes DEF Abstract!Next
<1>4. ASSUME NEW o \in Paths, NEW n \in Paths, RenameOne(o, n)
      PROVE  Abstract!Next
  BY <1>1, <1>4, RenameOneMakes DEF Abstract!Next
<1>5. CASE RenameEnd
  BY <1>5, RenameEndMakes DEF Abstract!Next
<1>6. CASE UNCHANGED vars
  BY <1>6 DEF vars, tree, Unlocked
<1> QED
  BY <1>2, <1>3, <1>4, <1>5, <1>6, LoopUnseen DEF Next

\* Seen from outside of the lock every operation, a Rename with its loop
\* included, is one step that AbstractTree allows, for any names, depth and
\* sizes and whatever order Go's map iteration takes; but Remove and RemoveAll of
\* "." may leave what is in it, each entry as it was.
THEOREM TreeRefines == Spec => RefinesTree
<1>1. Init => Abstract!Init
  BY DEF Init, Abstract!Init, Abstract!NewDir, Dir, tree, Unlocked
<1>2. LoopInv /\ [Next]_vars => [Abstract!Next \/ RootGoesAlone]_tree
  BY StepAsPromised
<1>3. LoopInv /\ [Next]_vars => LoopInv'
  BY LoopInvNext
<1>4. Init => LoopInv
  BY LoopInvInit
<1> QED
  BY <1>1, <1>2, <1>3, <1>4, PTL DEF Spec, RefinesTree

-----------------------------------------------------------------------------
(* Orphans *)

NoNewOrphan(f, g) == \A p \in Keys : Orphan(g, p) => Orphan(f, p)

\* A map that keeps its directories, and gives one to each new entry.
LEMMA GrowsAsTree ==
  ASSUME NEW f, NEW g,
         \A q \in Keys : IsDir(f, q) => IsDir(g, q),
         \A q \in Keys : Len(q) > 1 /\ Exists(g, q) /\ ~Exists(f, q) => IsDir(g, Parent(q))
  PROVE  NoNewOrphan(f, g)
  BY ParentForm DEF NoNewOrphan, Orphan

\* The root is not the parent of a longer path.
LEMMA ParentNotRoot ==
  ASSUME NEW p \in Paths, Len(p) > 1
  PROVE  Parent(p) # Root
<1>1. p \in Seq(Elements) /\ Len(p) \in Nat
  BY PathsAreKeys, KeySeq
<1>2. p # Root
  <2>1. Len(Root) = 1
    BY DEF Root
  <2> PICK k : k = Len(p)
    OBVIOUS
  <2>2. k \in Nat /\ k > 1
    BY <1>1
  <2>3. k # 1
    BY <2>2
  <2> QED
    BY <2>1, <2>3, Zenon
<1>3. p \in Seq(Names)
  BY <1>2, PathForm
<1>4. p[1] \in Names
  BY <1>1, <1>3, ElementOfSeq
<1>5. Parent(p)[1] = p[1]
  <2>1. /\ p \in Keys /\ Parent(p) \in Keys /\ Below(p, Parent(p))
        /\ Parent(p) \in Seq(Elements) /\ Len(Parent(p)) \in Nat \ {0}
    BY PathsAreKeys, ParentForm, KeySeq
  <2>2. 1 \in 1 .. Len(Parent(p))
    BY <2>1
  <2> QED
    BY <2>1, <2>2, BelowPrefix
<1> QED
  BY <1>4, <1>5, TreeAssumption DEF Root

\* What a path is within is one of its steps.
LEMMA StepsBack ==
  ASSUME NEW p \in Keys, NEW q \in Keys, Within(p, q)
  PROVE  q \in Steps(p)
<1>1. /\ p \in Seq(Elements) /\ Len(p) \in Nat \ {0}
      /\ q \in Seq(Elements) /\ Len(q) \in Nat \ {0}
  BY KeySeq
<1>2. Seqs!IsPrefix(q, p)
  BY BelowPrefix DEF Within
<1>3. Len(q) <= Len(p) /\ \A i \in 1 .. Len(q) : q[i] = p[i]
  BY <1>2, PrefixForm
<1>4. \A i \in 1 .. Len(q) : p[i] \in Elements
  BY <1>1, <1>3, ElementOfSeq
<1>5. /\ SubSeq(p, 1, Len(q)) \in Seq(Elements) /\ Len(SubSeq(p, 1, Len(q))) = Len(q)
      /\ \A i \in 1 .. Len(q) : SubSeq(p, 1, Len(q))[i] = p[i]
  BY <1>1, <1>4, SubSeqProperties
<1>6. q = SubSeq(p, 1, Len(q))
  BY <1>1, <1>3, <1>5, SeqEqual
<1>7. Len(q) \in 1 .. Len(p)
  BY <1>1, <1>3
<1> QED
  BY <1>6, <1>7, Zenon DEF Steps

\* A step of mkdirAll that it made, or passed, has a directory above it.
LEMMA StepParent ==
  ASSUME NEW f, NEW p \in Paths, NEW q \in Keys, q \in Steps(p), Len(q) > 1,
         \A b \in Blocked(f, p) : Len(q) < Len(b)
  PROVE  IsDir(f, Parent(q)) \/ Parent(q) \in Reached(f, p)
<1>1. p \in Keys /\ Within(p, q) /\ q \in Seq(Elements) /\ Len(q) \in Nat
  BY PathsAreKeys, StepsForm, KeySeq
<1>2. /\ Parent(q) \in Keys /\ Below(q, Parent(q)) /\ Len(Parent(q)) = Len(q) - 1
  BY ParentForm
<1>3. Within(p, Parent(q))
  BY <1>1, <1>2, BelowBelow DEF Within
<1>4. Parent(q) \in Steps(p)
  BY <1>1, <1>2, <1>3, StepsBack
<1>5. ASSUME NEW b \in Blocked(f, p) PROVE Len(Parent(q)) < Len(b) /\ b # Parent(q)
  <2>1. Len(q) < Len(b) /\ b \in Steps(p)
    BY DEF Blocked
  <2>2. Len(b) \in Nat
    <3> PICK k \in 1 .. Len(p) : b = SubSeq(p, 1, k)
      BY <2>1 DEF Steps
    <3>1. p \in Seq(Elements) /\ Len(p) \in Nat
      BY <1>1, KeySeq
    <3>2. \A i \in 1 .. k : p[i] \in Elements
      BY <3>1, ElementOfSeq
    <3> QED
      BY <3>1, <3>2, SubSeqProperties
  <2> QED
    BY <1>1, <1>2, <2>1, <2>2
<1>6. ~IsFile(f, Parent(q))
  BY <1>4, <1>5 DEF Blocked
<1> QED
  BY <1>2, <1>4, <1>5, <1>6 DEF Reached, IsFile, IsDir

\* Mkdir looks at the parent of what it makes.
LEMMA MkdirKeepsTree ==
  ASSUME NEW f \in Trees, NEW p \in Paths
  PROVE  NoNewOrphan(f, MkdirTree(f, p))
<1>1. CASE MkdirErr(f, p) # "nil"
  BY <1>1 DEF MkdirTree, NoNewOrphan
<1>2. CASE MkdirErr(f, p) = "nil"
  <2> PICK g : g = MkdirTree(f, p)
    OBVIOUS
  <2>1. p \in Keys /\ ~Exists(f, p) /\ (Len(p) > 1 => IsDir(f, Parent(p)))
    BY <1>2, PathsAreKeys, ParentNotRoot DEF MkdirErr
  <2>2. \A q \in Keys : g[q] = IF q = p THEN Dir ELSE f[q]
    BY <1>2, <2>1 DEF MkdirTree, Trees
  <2>3. \A q \in Keys : IsDir(f, q) => IsDir(g, q)
    BY <2>1, <2>2 DEF IsDir, Exists
  <2>4. ASSUME NEW q \in Keys, Len(q) > 1, Exists(g, q), ~Exists(f, q) PROVE IsDir(g, Parent(q))
    <3>1. q = p
      BY <2>2, <2>4 DEF Exists
    <3> QED
      BY <2>1, <2>3, <2>4, <3>1, ParentForm
  <2> QED
    BY <2>3, <2>4, GrowsAsTree
<1> QED
  BY <1>1, <1>2

\* The directories that mkdirAll leaves, for a map and for what is put in it.
LEMMA MkdirAllGrows ==
  ASSUME NEW f \in Trees, NEW p \in Paths, NEW g, g = MkdirAllTree(f, p)
  PROVE  /\ \A q \in Keys : IsDir(f, q) => IsDir(g, q)
         /\ \A q \in Keys : Len(q) > 1 /\ Exists(g, q) /\ ~Exists(f, q) => IsDir(g, Parent(q))
         /\ \A q \in Keys : Within(p, q) /\ Blocked(f, p) = {} => IsDir(g, q)
<1>1. /\ \A q \in Keys : g[q] = IF q \in Reached(f, p) THEN Dir ELSE f[q]
      /\ \A q \in Reached(f, p) : ~Exists(f, q)
  BY MkdirAllForm
<1>2. \A q \in Reached(f, p) : q \in Keys /\ IsDir(g, q)
  <2>1. Dir # None /\ Dir.dir
    BY EntryTypes DEF Dir
  <2> QED
    BY <1>1, <2>1 DEF Reached, IsDir, Exists
<1>3. \A q \in Keys : IsDir(f, q) => IsDir(g, q)
  BY <1>1 DEF IsDir, Exists
<1>4. ASSUME NEW q \in Keys, Len(q) > 1, Exists(g, q), ~Exists(f, q) PROVE IsDir(g, Parent(q))
  <2>1. q \in Reached(f, p)
    BY <1>1, <1>4 DEF Exists
  <2>2. IsDir(f, Parent(q)) \/ Parent(q) \in Reached(f, p)
    BY <1>4, <2>1, StepParent DEF Reached
  <2> QED
    BY <1>2, <1>3, <1>4, <2>2, ParentForm
<1>5. ASSUME NEW q \in Keys, Within(p, q), Blocked(f, p) = {} PROVE IsDir(g, q)
  <2>1. q \in Steps(p)
    BY <1>5, PathsAreKeys, StepsBack
  <2>2. ~IsFile(f, q)
    BY <1>5, <2>1 DEF Blocked
  <2>3. Exists(f, q) => IsDir(f, q)
    BY <2>2 DEF IsFile, IsDir
  <2>4. ~Exists(f, q) => q \in Reached(f, p)
    BY <1>5, <2>1 DEF Reached
  <2> QED
    BY <1>2, <1>3, <2>3, <2>4
<1> QED
  BY <1>3, <1>4, <1>5

\* AddFile makes the parents first, and fails when they cannot be made.
LEMMA AddFileKeepsTree ==
  ASSUME NEW f \in Trees, NEW p \in Paths, NEW n \in 0 .. MaxSize
  PROVE  NoNewOrphan(f, AddFileTree(f, p, n))
<1> PICK g : g = AddFileTree(f, p, n)
  OBVIOUS
<1> PICK h : h = WithParents(f, p)
  OBVIOUS
<1>1. /\ \A q \in Keys : IsDir(f, q) => IsDir(h, q)
      /\ \A q \in Keys : Len(q) > 1 /\ Exists(h, q) /\ ~Exists(f, q) => IsDir(h, Parent(q))
      /\ Len(p) > 1 /\ ParentsErr(f, p) = "nil" => IsDir(h, Parent(p))
      /\ h \in Trees /\ (IsDir(h, p) => IsDir(f, p)) /\ p \in Keys
  <2>1. p \in Keys /\ h \in Trees
    BY PathsAreKeys, WithParentsType
  <2>2. CASE Len(p) > 1
    <3>1. Parent(p) \in Paths /\ Parent(p) \in Keys /\ Below(p, Parent(p)) /\ h = MkdirAllTree(f, Parent(p))
      BY <2>1, <2>2, ParentForm DEF WithParents
    <3>2. /\ \A q \in Keys : IsDir(f, q) => IsDir(h, q)
          /\ \A q \in Keys : Len(q) > 1 /\ Exists(h, q) /\ ~Exists(f, q) => IsDir(h, Parent(q))
          /\ \A q \in Keys : Within(Parent(p), q) /\ Blocked(f, Parent(p)) = {} => IsDir(h, q)
      BY <3>1, MkdirAllGrows
    <3>3. ParentsErr(f, p) = "nil" => Blocked(f, Parent(p)) = {}
      BY <2>2 DEF ParentsErr, MkdirAllErr
    <3>4. h[p] = f[p]
      <4>1. ~Within(Parent(p), p)
        <5>1. ~Below(p, p)
          BY <2>1, NotBelowItself
        <5> QED
          BY <2>1, <3>1, <5>1, BelowBelow DEF Within
      <4>2. h[p] = IF p \in Reached(f, Parent(p)) THEN Dir ELSE f[p]
        BY <2>1, <3>1, MkdirAllForm
      <4>3. p \notin Reached(f, Parent(p))
        BY <2>1, <3>1, <4>1, StepsForm DEF Reached
      <4> QED
        BY <4>2, <4>3
    <3> QED
      BY <2>1, <3>1, <3>2, <3>3, <3>4 DEF Within, IsDir, Exists
  <2>3. CASE ~(Len(p) > 1)
    BY <2>1, <2>3 DEF WithParents
  <2> QED
    BY <2>2, <2>3
<1>2. CASE AddFileErr(f, p) # "nil"
  BY <1>1, <1>2, GrowsAsTree DEF AddFileTree
<1>3. CASE AddFileErr(f, p) = "nil"
  <2>1. \A q \in Keys : g[q] = IF q = p THEN File(n) ELSE h[q]
    BY <1>1, <1>3 DEF AddFileTree, Trees
  <2>2. ParentsErr(f, p) = "nil" /\ ~IsDir(f, p)
    BY <1>3 DEF AddFileErr
  <2>3. \A q \in Keys : IsDir(h, q) => IsDir(g, q)
    BY <1>1, <2>1, <2>2 DEF IsDir, Exists
  <2>4. ASSUME NEW q \in Keys, Len(q) > 1, Exists(g, q), ~Exists(f, q) PROVE IsDir(g, Parent(q))
    <3>1. Parent(q) \in Keys
      BY <2>4, ParentForm
    <3>2. q # p => Exists(h, q)
      BY <2>1, <2>4 DEF Exists
    <3>3. IsDir(h, Parent(q))
      BY <1>1, <2>2, <2>4, <3>2
    <3> QED
      BY <2>3, <3>1, <3>3
  <2>5. \A q \in Keys : IsDir(f, q) => IsDir(g, q)
    BY <1>1, <2>3
  <2> QED
    BY <2>4, <2>5, GrowsAsTree
<1> QED
  BY <1>2, <1>3

\* What goes takes what is below its directories with it.
LEMMA RemovalKeepsTree ==
  ASSUME NEW f \in Trees, NEW S,
         \A q \in Keys, d \in S : Below(q, d) /\ Exists(f, q) /\ IsDir(f, d) => q \in S
  PROVE  NoNewOrphan(f, Without(f, S))
<1> PICK g : g = Without(f, S)
  OBVIOUS
<1>1. \A q \in Keys : g[q] = IF q \in S THEN None ELSE f[q]
  BY DEF Without
<1> SUFFICES ASSUME NEW q \in Keys, Orphan(g, q) PROVE Orphan(f, q)
  BY DEF NoNewOrphan
<1>2. Len(q) > 1 /\ q \notin S /\ Exists(f, q)
  BY <1>1 DEF Orphan, Exists
<1>3. Parent(q) \in Keys /\ Below(q, Parent(q))
  BY <1>2, ParentForm
<1>4. IsDir(f, Parent(q)) => Parent(q) \notin S
  BY <1>2, <1>3
<1> QED
  BY <1>1, <1>2, <1>3, <1>4 DEF Orphan, IsDir, Exists

\* Remove and RemoveAll leave nothing below a directory that they delete.
LEMMA RemoveKeepsTree ==
  ASSUME NEW f \in Trees, NEW p \in Paths
  PROVE  /\ NoNewOrphan(f, RemoveTree(f, p))
         /\ NoNewOrphan(f, RemoveAllTree(f, p))
<1>1. p \in Keys
  BY PathsAreKeys
<1>2. NoNewOrphan(f, RemoveAllTree(f, p))
  <2> PICK S : S = {p} \cup Under[p]
    OBVIOUS
  <2>1. \A q \in Keys, d \in S : Below(q, d) => q \in S
    <3> SUFFICES ASSUME NEW q \in Keys, NEW d \in S, Below(q, d) PROVE q \in S
      OBVIOUS
    <3>1. d \in Keys /\ Within(d, p)
      BY <1>1 DEF Within, Below, Under
    <3>2. Below(q, p)
      BY <1>1, <3>1, BelowBelow DEF Within
    <3> QED
      BY <3>2 DEF Below
  <2> QED
    BY <2>1, RemovalKeepsTree DEF RemoveAllTree
<1>3. NoNewOrphan(f, RemoveTree(f, p))
  <2>1. CASE RemoveErr(f, p) # "nil"
    BY <2>1 DEF RemoveTree, NoNewOrphan
  <2>2. CASE RemoveErr(f, p) = "nil"
    <3>1. \A q \in Keys, d \in {p} : Below(q, d) /\ Exists(f, q) /\ IsDir(f, d) => q \in {p}
      BY <2>2 DEF RemoveErr, Below
    <3> QED
      BY <2>2, <3>1, RemovalKeepsTree DEF RemoveTree
  <2> QED
    BY <2>1, <2>2
<1> QED
  BY <1>2, <1>3

\* A WriteFile that does not create its entry.
LEMMA OverwriteKeepsTree ==
  ASSUME NEW f \in Trees, NEW p \in Paths, NEW n \in 0 .. MaxSize,
         Exists(f, p) \/ WriteFileErr(f, p) # "nil",
         WriteMode = "append" /\ Exists(f, p) => f[p].size + n <= MaxSize
  PROVE  NoNewOrphan(f, WriteFileTree(f, p, n))
<1> PICK g : g = WriteFileTree(f, p, n)
  OBVIOUS
<1>1. CASE WriteFileErr(f, p) # "nil"
  BY <1>1 DEF WriteFileTree, NoNewOrphan
<1>2. CASE WriteFileErr(f, p) = "nil" /\ Exists(f, p)
  <2>1. f[p] \in Entries /\ \A e \in Entries : e # None
    BY <1>2, EntryTypes, PathsAreKeys DEF Trees, Exists
  <2>2. PICK m \in 0 .. MaxSize : g = [f EXCEPT ![p] = [f[p] EXCEPT !.size = m]]
    <3>1. CASE WriteMode = "append"
      <4>1. f[p].size \in 0 .. MaxSize /\ f[p].size + n <= MaxSize
        BY <1>2, <2>1, <3>1 DEF Entries
      <4>2. f[p].size + n \in 0 .. MaxSize
        BY <4>1, TreeAssumption
      <4> QED
        BY <1>2, <3>1, <4>2 DEF WriteFileTree
    <3>2. CASE WriteMode # "append"
      BY <1>2, <3>2 DEF WriteFileTree
    <3> QED
      BY <3>1, <3>2
  <2>3. g[p] # None /\ g[p].dir = f[p].dir
    <3> PICK e : e = f[p]
      OBVIOUS
    <3>1. g[p] = [e EXCEPT !.size = m]
      BY <2>2, PathsAreKeys DEF Trees
    <3>2. [e EXCEPT !.size = m] \in Entries /\ [e EXCEPT !.size = m].dir = e.dir
      BY <2>1 DEF Entries
    <3> QED
      BY <2>1, <3>1, <3>2
  <2>4. \A q \in Keys : q # p => g[q] = f[q]
    BY <2>2 DEF Trees
  <2>5. \A q \in Keys : IsDir(f, q) => IsDir(g, q)
    BY <2>3, <2>4 DEF IsDir, Exists
  <2>6. \A q \in Keys : Exists(g, q) => Exists(f, q)
    BY <1>2, <2>4 DEF Exists
  <2> QED
    BY <2>5, <2>6, GrowsAsTree
<1> QED
  BY <1>1, <1>2

-----------------------------------------------------------------------------
(* Orphans and Rename *)

\* The parent of what a path below o becomes.
LEMMA RebaseParent ==
  ASSUME NEW o \in Keys, NEW n \in Keys, NEW q \in Keys, Below(q, o),
         Rebase(q, o, n) \in Keys
  PROVE  /\ Parent(q) \in Keys /\ Within(Parent(q), o) /\ Len(q) > 1
         /\ Len(Rebase(q, o, n)) > 1
         /\ Parent(Rebase(q, o, n)) = Rebase(Parent(q), o, n)
<1> PICK r, d : r = Rebase(q, o, n) /\ d = Parent(q)
  OBVIOUS
<1>1. /\ o \in Seq(Elements) /\ Len(o) \in Nat \ {0}
      /\ n \in Seq(Elements) /\ Len(n) \in Nat \ {0}
      /\ q \in Seq(Elements) /\ Len(q) \in Nat \ {0} /\ Len(o) < Len(q)
      /\ \A i \in 1 .. Len(o) : o[i] = q[i]
  BY KeySeq, BelowPrefix
<1>2. Len(q) > 1
  BY <1>1
<1>3. d \in Keys /\ d \in Seq(Elements) /\ Len(d) = Len(q) - 1 /\ Below(q, d)
  BY <1>2, ParentForm, KeySeq
<1>4. \A i \in 1 .. Len(d) : d[i] = q[i]
  BY <1>3, BelowPrefix
<1>5. Within(d, o)
  <2>1. o = d \/ Below(d, o) \/ Below(o, d)
    BY <1>3, AboveTheSame
  <2>2. ~Below(o, d)
    <3>1. Below(o, d) => Len(d) < Len(o)
      BY <1>3, BelowPrefix
    <3> QED
      BY <1>1, <1>3, <3>1
  <2> QED
    BY <2>1, <2>2 DEF Within
<1>6. IsRebased(r, q, o, n) /\ IsRebased(Rebase(d, o, n), d, o, n)
  BY <1>3, <1>5, RebaseSeq DEF Within
<1>7. r \in Seq(Elements) /\ Len(r) = Len(n) + (Len(q) - Len(o)) /\ Len(r) > 1
  BY <1>1, <1>6 DEF IsRebased
<1>8. /\ Parent(r) \in Keys /\ Parent(r) \in Seq(Elements) /\ Len(Parent(r)) = Len(r) - 1
      /\ Below(r, Parent(r))
  BY <1>7, ParentForm, KeySeq
<1>9. \A i \in 1 .. Len(Parent(r)) : Parent(r)[i] = r[i]
  BY <1>8, BelowPrefix
<1>10. /\ Rebase(d, o, n) \in Seq(Elements) /\ Len(Rebase(d, o, n)) = Len(Parent(r))
       /\ \A i \in 1 .. Len(Parent(r)) :
            Rebase(d, o, n)[i] = IF i <= Len(n) THEN n[i] ELSE d[i - Len(n) + Len(o)]
  BY <1>1, <1>3, <1>6, <1>7, <1>8 DEF IsRebased
<1>11. ASSUME NEW i \in 1 .. Len(Parent(r)) PROVE Parent(r)[i] = Rebase(d, o, n)[i]
  <2>1. i \in 1 .. Len(r) /\ i \in Nat
    BY <1>7, <1>8
  <2>2. Parent(r)[i] = IF i <= Len(n) THEN n[i] ELSE q[i - Len(n) + Len(o)]
    BY <1>6, <1>9, <2>1 DEF IsRebased
  <2>3. ASSUME ~(i <= Len(n)) PROVE i - Len(n) + Len(o) \in 1 .. Len(d)
    BY <1>1, <1>3, <1>7, <1>8, <2>1, <2>3
  <2> QED
    BY <1>4, <1>10, <2>2, <2>3
<1>12. Parent(r) = Rebase(d, o, n)
  BY <1>8, <1>10, <1>11, SeqEqual
<1> QED
  BY <1>2, <1>3, <1>5, <1>7, <1>12

\* A whole Rename to a free place.
LEMMA MovedKeepsTree ==
  ASSUME NEW f \in Trees, NEW o \in Paths, NEW n \in Paths, Apart(o, n), Exists(f, o),
         NEW done, done = IF IsDir(f, o) THEN ToVisit(f, o) ELSE {},
         \A q \in Under[o] : ~Orphan(f, q),
         Parent(n) = Root \/ IsDir(f, Parent(n)),
         \A q \in Under[n] : ~Exists(f, q)
  PROVE  NoNewOrphan(f, Without(Moved(f, o, n, done), {o}))
<1> PICK g : g = Without(Moved(f, o, n, done), {o})
  OBVIOUS
<1> PICK gone : gone = done \cup {o}
  OBVIOUS
<1>1. /\ o \in Keys /\ n \in Keys
      /\ \A q \in gone : q \in Keys /\ Exists(f, q) /\ Within(q, o) /\ ~Within(q, n)
      /\ \A q \in Keys : Within(q, n) => q \notin gone
  <2>1. o \in Keys /\ n \in Keys
    BY PathsAreKeys
  <2>2. \A q \in gone : q \in Keys /\ Exists(f, q) /\ Within(q, o)
    BY <2>1 DEF ToVisit, Within, Below, Under
  <2>3. \A q \in gone : ~Within(q, n)
    BY <2>1, <2>2, AboveTheSame DEF Apart, Within
  <2> QED
    BY <2>1, <2>2, <2>3
<1>2. \A q \in Keys : g[q] = IF q \in gone THEN None
                              ELSE IF Within(q, n) /\ Rebase(q, n, o) \in gone
                                THEN f[Rebase(q, n, o)] ELSE f[q]
  BY DEF Without, Moved
<1> SUFFICES ASSUME NEW q \in Keys, Orphan(g, q) PROVE Orphan(f, q)
  BY DEF NoNewOrphan
<1>3. Len(q) > 1 /\ g[q] # None /\ ~IsDir(g, Parent(q)) /\ q \notin gone
  BY <1>2 DEF Orphan, Exists
<1>4. Parent(q) \in Keys /\ Below(q, Parent(q))
  BY <1>3, ParentForm
<1>5. CASE q = n
  <2>1. Len(n) > 1 /\ IsDir(f, Parent(n)) /\ Parent(n) \in Keys /\ Below(n, Parent(n))
    BY <1>3, <1>4, <1>5, ParentNotRoot
  <2>2. ~Within(Parent(n), n)
    BY <1>1, <2>1, BelowBelow, NotBelowItself DEF Within
  <2>3. Parent(n) \notin gone
    <3>1. ~Below(n, o)
      BY DEF Apart, Within
    <3> QED
      BY <1>1, <2>1, <3>1, BelowBelow DEF Within
  <2>4. g[Parent(n)] = f[Parent(n)]
    BY <1>2, <2>1, <2>2, <2>3
  <2> QED
    BY <1>3, <1>5, <2>1, <2>4 DEF IsDir, Exists
<1>6. CASE Below(q, n) /\ Rebase(q, n, o) \in gone
  <2> PICK r : r = Rebase(q, n, o)
    OBVIOUS
  <2>1. r \in Keys /\ Below(r, o) /\ r \in done /\ Exists(f, r)
    <3>1. r \in Keys /\ Exists(f, r)
      BY <1>1, <1>6
    <3>2. Below(r, o)
      BY <1>1, <1>6, <3>1, RebaseForm
    <3> QED
      BY <1>1, <1>6, <3>1, <3>2, NotBelowItself
  <2>2. IsDir(f, o) /\ done = ToVisit(f, o)
    BY <2>1
  <2>3. Within(Parent(q), n) /\ Len(r) > 1 /\ Parent(r) = Rebase(Parent(q), n, o)
    BY <1>1, <1>6, <2>1, RebaseParent
  <2>4. IsDir(f, Parent(r))
    BY <2>1, <2>3 DEF Orphan, Below
  <2>5. Parent(r) \in Keys /\ Within(Parent(r), o)
    <3>1. Rebase(r, o, n) = q
      BY <1>1, <1>6, <2>1, RebaseForm
    <3> QED
      BY <1>1, <2>1, <3>1, RebaseParent
  <2>6. Parent(r) \in gone
    BY <2>2, <2>4, <2>5 DEF ToVisit, Within, Below, IsDir
  <2>7. g[Parent(q)] = f[Parent(r)]
    BY <1>1, <1>2, <1>4, <2>3, <2>6
  <2> QED
    BY <1>3, <2>4, <2>7 DEF IsDir, Exists
<1>7. CASE q # n /\ ~(Below(q, n) /\ Rebase(q, n, o) \in gone)
  <2>1. g[q] = f[q] /\ Exists(f, q)
    BY <1>2, <1>3, <1>7 DEF Within, Exists
  <2>2. ~Within(q, n)
    BY <1>7, <2>1 DEF Within, Below
  <2>3. ~Within(Parent(q), n)
    BY <1>1, <1>4, <2>2, BelowBelow DEF Within
  <2>4. Parent(q) \in gone => ~IsDir(f, Parent(q))
    <3>1. ASSUME Parent(q) \in gone, IsDir(f, o) PROVE FALSE
      <4>1. Below(q, o)
        BY <1>1, <1>4, <3>1, BelowBelow DEF Within
      <4> QED
        BY <1>3, <2>1, <3>1, <4>1 DEF ToVisit, Below
    <3> QED
      BY <3>1
  <2> QED
    BY <1>2, <1>3, <1>4, <2>1, <2>3, <2>4 DEF Orphan, IsDir, Exists
<1> QED
  BY <1>5, <1>6, <1>7

\* Rename of one entry.
LEMMA RenameOneKeepsTree ==
  ASSUME files \in Trees, NEW o \in Paths, NEW n \in Paths, FreePlace(o, n), RenameOne(o, n)
  PROVE  NoNewOrphan(tree, tree')
<1> PICK f : f = Copied(files, o, n)
  OBVIOUS
<1>1. /\ o \in Keys /\ n \in Keys /\ Exists(files, o) /\ (IsDir(files, o) => ToVisit(f, o) = {})
      /\ files' = Without(f, {o}) /\ tree = files /\ tree' = files'
  BY PathsAreKeys DEF RenameOne, Change, Unlocked, tree, Copied
<1>2. /\ \A q \in Under[o] : ~Orphan(files, q)
      /\ Parent(n) = Root \/ IsDir(files, Parent(n))
      /\ \A q \in Under[n] : ~Exists(files, q)
      /\ ~Below(n, o)
  BY <1>1 DEF FreePlace
<1>3. CASE n = o
  <2>1. f = files
    BY <1>1, <1>3 DEF Copied, Trees
  <2>2. \A q \in Keys, d \in {o} : Below(q, d) /\ Exists(files, q) /\ IsDir(files, d) => q \in {o}
    BY <1>2, <1>3 DEF Below
  <2>3. NoNewOrphan(files, Without(files, {o}))
    BY <2>2, RemovalKeepsTree
  <2> QED
    BY <1>1, <2>1, <2>3
<1>4. CASE n # o
  <2> PICK done : done = IF IsDir(files, o) THEN ToVisit(files, o) ELSE {}
    OBVIOUS
  <2>1. Apart(o, n)
    BY <1>1, <1>2, <1>4 DEF Apart, Within, Below
  <2>2. files' = Without(Moved(files, o, n, done), {o})
    <3>1. Without(f, {o}) = Without(Moved(files, o, n, done), {o})
      BY <1>1, <2>1, OneMoved
    <3> QED
      BY <1>1, <3>1
  <2>3. NoNewOrphan(files, Without(Moved(files, o, n, done), {o}))
    BY <1>1, <1>2, <2>1, MovedKeepsTree
  <2> QED
    BY <1>1, <2>2, <2>3
<1> QED
  BY <1>3, <1>4

\* Rename of a directory with what is below it.
LEMMA RenameEndKeepsTree ==
  ASSUME LoopInv, RenameEnd, FreePlace(moving.from, moving.to)
  PROVE  NoNewOrphan(tree, tree')
<1> PICK o, n : o = moving.from /\ n = moving.to
  OBVIOUS
<1>1. moving # NoMove /\ LoopOf(moving) /\ moving \in Moves /\ tree = moving.before
  BY DEF RenameEnd, Unlocked, tree, LoopInv, TypeOK, Moves
<1>2. /\ o \in Paths /\ n \in Paths /\ o \in Keys /\ n \in Keys /\ tree \in Trees
      /\ IsDir(tree, o) /\ Exists(tree, o) /\ (o = n => ToVisit(tree, o) # {})
  BY <1>1, PathsAreKeys DEF Moves, LoopOf, IsDir
<1>3. /\ \A q \in Under[o] : ~Orphan(tree, q)
      /\ Parent(n) = Root \/ IsDir(tree, Parent(n))
      /\ \A q \in Under[n] : ~Exists(tree, q)
      /\ ~Below(n, o)
  BY DEF FreePlace
<1>4. Apart(o, n)
  <2>1. o # n
    BY <1>2, <1>3 DEF ToVisit
  <2>2. ~Below(o, n)
    BY <1>2, <1>3 DEF Below
  <2> QED
    BY <1>3, <2>1, <2>2 DEF Apart, Within
<1> PICK f, done : f = tree /\ done = ToVisit(f, o)
  OBVIOUS
<1>5. tree' = Without(Moved(f, o, n, done), {o})
  BY <1>4, EndMoved
<1>6. done = IF IsDir(f, o) THEN ToVisit(f, o) ELSE {}
  BY <1>2
<1>7. NoNewOrphan(f, Without(Moved(f, o, n, done), {o}))
  BY <1>2, <1>3, <1>4, <1>6, MovedKeepsTree
<1> QED
  BY <1>5, <1>7

\* A step leaves an entry without its parent only as OrphanSources says.
LEMMA OrphanStep ==
  ASSUME LoopInv, [Next]_vars
  PROVE  \/ NoNewOrphan(tree, tree')
         \/ ~Unlocked /\ ~FreePlace(moving.from, moving.to)
         \/ \E o, n \in Paths : ~FreePlace(o, n) /\ RenameOne(o, n)
         \/ CreateIfMissing /\ \E p \in Paths, n \in 0 .. MaxSize :
              ~Exists(files, p) /\ WriteFile(p, n)
<1>1. files \in Trees
  BY DEF LoopInv, TypeOK
<1>2. ASSUME NEW f, Change(f) PROVE tree = files /\ tree' = f
  BY <1>2 DEF Change, Unlocked, tree
<1>3. ASSUME NEW p \in Paths, Mkdir(p) \/ MkdirAll(p) \/ Remove(p) \/ RemoveAll(p)
      PROVE  NoNewOrphan(tree, tree')
  <2>1. NoNewOrphan(files, MkdirAllTree(files, p))
    BY <1>1, MkdirAllGrows, GrowsAsTree
  <2> QED
    BY <1>1, <1>2, <1>3, <2>1, MkdirKeepsTree, RemoveKeepsTree
    DEF Mkdir, MkdirAll, Remove, RemoveAll
<1>4. ASSUME NEW p \in Paths, NEW n \in 0 .. MaxSize, AddFile(p, n)
      PROVE  NoNewOrphan(tree, tree')
  BY <1>1, <1>2, <1>4, AddFileKeepsTree DEF AddFile
<1>5. ASSUME NEW p \in Paths, NEW n \in 0 .. MaxSize, WriteFile(p, n)
      PROVE  NoNewOrphan(tree, tree') \/ (CreateIfMissing /\ ~Exists(files, p))
  <2>1. tree = files /\ tree' = WriteFileTree(files, p, n)
        /\ (WriteMode = "append" /\ Exists(files, p) => files[p].size + n <= MaxSize)
    BY <1>2, <1>5 DEF WriteFile
  <2>2. WriteFileErr(files, p) = "nil" /\ ~Exists(files, p) => CreateIfMissing
    BY DEF WriteFileErr
  <2> QED
    BY <1>1, <2>1, <2>2, OverwriteKeepsTree
<1>6. ASSUME NEW o \in Paths, NEW n \in Paths, RenameOne(o, n)
      PROVE  NoNewOrphan(tree, tree') \/ ~FreePlace(o, n)
  BY <1>1, <1>6, RenameOneKeepsTree
<1>7. CASE RenameEnd
  BY <1>7, RenameEndKeepsTree DEF RenameEnd
<1>8. CASE UNCHANGED vars
  BY <1>8 DEF vars, tree, Unlocked, NoNewOrphan
<1>9. UNCHANGED tree => NoNewOrphan(tree, tree')
  BY DEF NoNewOrphan
<1> QED
  BY <1>3, <1>4, <1>5, <1>6, <1>7, <1>8, <1>9, LoopUnseen DEF Next

\* Whatever the order of the calls and of Go's map iteration, an entry loses its
\* parent, or appears without one, only through a WriteFile that creates it
\* there or a Rename to a place that is not free.
THEOREM OrphansExplained == Spec => OrphanSources
<1>1. LoopInv /\ [Next]_vars =>
        ((\E p \in Keys : Orphan(tree', p) /\ ~Orphan(tree, p)) =>
          \/ ~Unlocked /\ ~FreePlace(moving.from, moving.to)
          \/ \E o, n \in Paths : ~FreePlace(o, n) /\ RenameOne(o, n)
          \/ CreateIfMissing /\ \E p \in Paths, n \in 0 .. MaxSize :
               ~Exists(files, p) /\ WriteFile(p, n))
  BY OrphanStep DEF NoNewOrphan
<1>2. LoopInv /\ [Next]_vars => LoopInv'
  BY LoopInvNext
<1>3. Init => LoopInv
  BY LoopInvInit
<1> QED
  BY <1>1, <1>2, <1>3, PTL DEF Spec, OrphanSources
=============================================================================
