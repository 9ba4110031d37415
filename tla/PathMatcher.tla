---------------------------- MODULE PathMatcher ----------------------------
(***************************************************************************)
(* pathmatcher.go: which paths a matcher matches, and the matcher that     *)
(* CloneForSub puts into the injector of a sub file system.                *)
(*                                                                         *)
(* A path is the sequence of its elements, and "." is <<Dot>>.  What a     *)
(* regular expression or a glob pattern matches is a set of paths: nothing *)
(* depends on how they are written.                                        *)
(*                                                                         *)
(* A definition called "wrong" in its comment is not part of the model: it *)
(* is the next one with a mistake in it, which some property must notice.  *)
(***************************************************************************)
EXTENDS Integers, Sequences

CONSTANTS
  Names,  \* path elements
  Dot     \* the element "."

ASSUME MatcherAssumption == Dot \notin Names

Here == <<Dot>>

\* Paths as fs.ValidPath accepts them.
AnyPath == {Here} \cup (Seq(Names) \ {<<>>})

\* prefix + "/" + p, where "." is the prefix itself.
Join(d, p) == IF d = Here THEN p ELSE IF p = Here THEN d ELSE d \o p

\* Constructors.  A pattern that has been cloned keeps its prefix, and is then
\* matched against whole paths; before that its prefix is ".".
Exact(p)           == [kind |-> "exact", path |-> p]
Pattern(S, prefix) == [kind |-> "pattern", paths |-> S, prefix |-> prefix]
Wildcard           == [kind |-> "wildcard"]
Nothing            == [kind |-> "none"]

\* What the constructors and CloneForSub make.
IsMatcher(m) ==
  \/ m.kind = "exact" /\ m = Exact(m.path) /\ m.path \in AnyPath
  \/ m.kind = "pattern" /\ m = Pattern(m.paths, m.prefix) /\ m.prefix \in AnyPath
  \/ m \in {Wildcard, Nothing}

Matches(m, p) ==
  \/ m.kind = "exact" /\ p = m.path
  \/ m.kind = "pattern" /\ Join(m.prefix, p) \in m.paths
  \/ m.kind = "wildcard"

\* strings.CutPrefix(q, d + "/") succeeds, and what it leaves.
InSubtree(q, d) == Len(d) < Len(q) /\ SubSeq(q, 1, Len(d)) = d
CutPrefix(q, d) == SubSeq(q, Len(d) + 1, Len(q))

\* ExactMatcher.CloneForSub
ExactForSub(q, d) ==
  CASE d = Here                              -> Exact(q)
    [] d # Here /\ q = d                     -> Exact(Here)
    [] d # Here /\ q # d /\ InSubtree(q, d)  -> Exact(CutPrefix(q, d))
    [] d # Here /\ q # d /\ ~InSubtree(q, d) -> Nothing

\* Wrong: the prefix of a clone is forgotten when it is cloned again.
PatternForSubOnce(m, d) == Pattern(m.paths, IF d = Here THEN m.prefix ELSE d)

\* The CloneForSub of RegexpMatcher, GlobMatcher and their parent matchers.
PatternForSub(m, d) == Pattern(m.paths, Join(m.prefix, d))

MatcherForSub(m, d) ==
  CASE m.kind = "exact"                -> ExactForSub(m.path, d)
    [] m.kind = "pattern"              -> PatternForSub(m, d)
    [] m.kind \in {"wildcard", "none"} -> m

-----------------------------------------------------------------------------

\* A clone matches a path of the sub file system exactly when the matcher that
\* was cloned matches that path as the parent file system names it; the clone
\* for a sub file system of the sub file system does so too.
CloneAgrees(m, d, p) ==
  Matches(MatcherForSub(m, d), p) <=> Matches(m, Join(d, p))

CloneOfCloneAgrees(m, d, e, p) ==
  Matches(MatcherForSub(MatcherForSub(m, d), e), p) <=> Matches(m, Join(d, Join(e, p)))
=============================================================================
