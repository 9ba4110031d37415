---------------------------- MODULE AbstractTree ----------------------------
(***************************************************************************)
(* What a MockFS promises of its tree to callers that see it only between  *)
(* operations: a map from paths to entries that changes one call at a time. *)
(* A path is inside another when it extends it, and every other path is    *)
(* inside of the root, <<Dot>>.                                            *)
(***************************************************************************)
EXTENDS Integers, Sequences

Seqs == INSTANCE SequencesExt

CONSTANTS Paths, Keys, Root, MaxSize, None

VARIABLE tree

Dirs  == [dir : {TRUE}, size : 0 .. MaxSize]
Plain == [dir : {FALSE}, size : 0 .. MaxSize]

Inside == [d \in Keys |-> IF d = Root THEN Keys \ {Root}
                          ELSE {q \in Keys : Seqs!IsStrictPrefix(d, q)}]

Present == {p \in Keys : tree[p] # None}

NewDir == [dir |-> TRUE, size |-> 0]

\* The vacant paths on the way to p.
Missing(p) == {q \in Keys \ Present : p \in Inside[q]}

\* New, empty directories on the way to p, and at p.
MakeDirs(p) == \E S \in SUBSET (Missing(p) \cup ({p} \ Present)) :
  tree' = [q \in Keys |-> IF q \in S THEN NewDir ELSE tree[q]]

\* A file at p, where there was no directory, with directories on the way to it.
PutFile(p) ==
  /\ tree[p] \notin Dirs
  /\ \E S \in SUBSET Missing(p), e \in Plain :
       tree' = [q \in Keys |-> IF q = p THEN e ELSE IF q \in S THEN NewDir ELSE tree[q]]

\* Other contents for an entry, which stays what it is.
Write(p) ==
  /\ p \in Present
  /\ \E n \in 0 .. MaxSize : tree' = [tree EXCEPT ![p].size = n]

\* One entry goes, never a directory that has something inside.
Delete(p) ==
  /\ tree[p] \in Dirs => Present \cap Inside[p] = {}
  /\ tree' = [tree EXCEPT ![p] = None]

\* An entry goes with all that is inside.
DeleteAll(p) ==
  tree' = [q \in Keys |-> IF q = p \/ q \in Inside[p] THEN None ELSE tree[q]]

\* A move leaves nothing at the old path.
MovesFrom(o) == o \in Present /\ tree'[o] = None

\* The entry at o, and what is inside if it is a directory, is at n instead;
\* what was at n or inside stays where nothing takes its place.
Move(o, n) ==
  LET moved   == {o} \cup (IF tree[o] \in Dirs THEN Inside[o] ELSE {})
      from(q) == o \o SubSeq(q, Len(n) + 1, Len(q))
      taken   == {q \in Keys : Seqs!IsPrefix(n, q) /\ from(q) \in moved \cap Present}
  IN /\ n \notin Inside[o] \cup {o} /\ o \notin Inside[n]
     /\ tree' = [q \in Keys |-> IF q \in taken THEN tree[from(q)]
                                ELSE IF q \in moved THEN None ELSE tree[q]]

\* A move into itself, or over one of its own ancestors: no entry is invented,
\* and what lies elsewhere is not disturbed.  Elsewhere is what is not in o and
\* has not n in front of its path.  Nothing that goes to the root stays behind.
MoveWithin(o, n) ==
  /\ n \in Inside[o] \cup {o} \/ o \in Inside[n]
  /\ tree' \in [Keys -> {tree[q] : q \in Present} \cup {None}]
  /\ \A q \in Keys \ (Inside[o] \cup {o}) : Seqs!IsPrefix(n, q) \/ tree'[q] = tree[q]
  /\ n = Root /\ o # Root /\ tree[o] \in Dirs => \A q \in Inside[o] : tree'[q] = None

Init == tree = [p \in Keys |-> IF p = Root THEN NewDir ELSE None]

Next ==
  \/ \E p \in Paths : MakeDirs(p) \/ PutFile(p) \/ Write(p) \/ Delete(p) \/ DeleteAll(p)
  \/ \E o \in Paths : MovesFrom(o) /\ \E n \in Paths : Move(o, n) \/ MoveWithin(o, n)

Spec == Init /\ [][Next]_tree
=============================================================================
