------------------------- MODULE PathMatcherProofs -------------------------
(***************************************************************************)
(* Proofs about PathMatcher, for paths of any length.                      *)
(***************************************************************************)
EXTENDS PathMatcher, SequenceTheorems, TLAPS

\* The three forms of a matcher.
LEMMA MatcherForm ==
  ASSUME NEW m, IsMatcher(m)
  PROVE  \/ \E q \in AnyPath : m = Exact(q)
         \/ \E S : \E prefix \in AnyPath : m = Pattern(S, prefix)
         \/ m \in {Wildcard, Nothing}
  BY DEF IsMatcher

-----------------------------------------------------------------------------
(* Paths *)

\* A path is "." or has names only, at least one.
LEMMA PathForm ==
  ASSUME NEW p \in AnyPath, p # Here
  PROVE  /\ p \in Seq(Names) /\ p # <<>>
         /\ Len(p) \in Nat /\ Len(p) > 0
<1>1. p \in Seq(Names) /\ p # <<>>
  BY DEF AnyPath
<1> QED
  BY <1>1, EmptySeq, LenProperties

\* "." is not a sequence of names.
LEMMA HereIsApart == Here \notin Seq(Names)
<1> SUFFICES ASSUME Here \in Seq(Names) PROVE FALSE
  OBVIOUS
<1>1. Len(Here) = 1 /\ Here[1] = Dot
  BY DEF Here
<1>2. Here[1] \in Names
  BY <1>1, ElementOfSeq
<1> QED
  BY <1>1, <1>2, MatcherAssumption

LEMMA JoinIsPath ==
  ASSUME NEW d \in AnyPath, NEW p \in AnyPath
  PROVE  Join(d, p) \in AnyPath
<1>1. CASE d = Here \/ p = Here
  BY <1>1 DEF Join
<1>2. CASE d # Here /\ p # Here
  <2>1. d \in Seq(Names) /\ p \in Seq(Names) /\ d # <<>>
    BY <1>2, PathForm
  <2>2. d \o p \in Seq(Names) /\ d \o p # <<>>
    BY <2>1, ConcatProperties, ConcatEqualIffEmpty
  <2> QED
    BY <1>2, <2>2 DEF Join, AnyPath
<1> QED
  BY <1>1, <1>2

\* What Sub after Sub does to a path.
LEMMA JoinAssociative ==
  ASSUME NEW c \in AnyPath, NEW d \in AnyPath, NEW p \in AnyPath
  PROVE  Join(Join(c, d), p) = Join(c, Join(d, p))
<1>1. CASE c = Here \/ d = Here \/ p = Here
  BY <1>1 DEF Join
<1>2. CASE c # Here /\ d # Here /\ p # Here
  <2>1. c \in Seq(Names) /\ d \in Seq(Names) /\ p \in Seq(Names)
    BY <1>2, PathForm
  <2>2. c \o d \in Seq(Names) /\ d \o p \in Seq(Names)
    BY <2>1, ConcatProperties
  <2>3. c \o d # Here /\ d \o p # Here
    BY <2>2, HereIsApart
  <2>4. (c \o d) \o p = c \o (d \o p)
    BY <2>1, ConcatAssociative
  <2> QED
    BY <1>2, <2>3, <2>4 DEF Join
<1> QED
  BY <1>1, <1>2

-----------------------------------------------------------------------------
(* The clone of an exact matcher *)

\* CutPrefix takes away what Join puts before.
LEMMA CutPrefixInverts ==
  ASSUME NEW d \in Seq(Names), NEW p \in Seq(Names), p # <<>>
  PROVE  InSubtree(d \o p, d) /\ CutPrefix(d \o p, d) = p
<1> DEFINE q == d \o p
<1>1. /\ Len(d) \in Nat /\ Len(p) \in Nat /\ Len(p) > 0
      /\ q \in Seq(Names) /\ Len(q) = Len(d) + Len(p)
      /\ \A i \in 1 .. Len(d) + Len(p) : q[i] = IF i <= Len(d) THEN d[i] ELSE p[i - Len(d)]
  BY EmptySeq, LenProperties, ConcatProperties
<1>2. \A i \in 1 .. Len(q) : q[i] \in Names
  BY <1>1, ElementOfSeq
<1>3. SubSeq(q, 1, Len(d)) = d
  <2>1. /\ SubSeq(q, 1, Len(d)) \in Seq(Names)
        /\ Len(SubSeq(q, 1, Len(d))) = Len(d)
        /\ \A i \in 1 .. Len(d) : SubSeq(q, 1, Len(d))[i] = q[i]
    <3>1. \A i \in 1 .. Len(d) : q[i] \in Names
      BY <1>1, <1>2
    <3>2. /\ SubSeq(q, 1, Len(d)) \in Seq(Names)
          /\ Len(SubSeq(q, 1, Len(d))) = IF 1 <= Len(d) THEN Len(d) - 1 + 1 ELSE 0
          /\ \A i \in 1 .. Len(d) - 1 + 1 : SubSeq(q, 1, Len(d))[i] = q[1 + i - 1]
      BY <1>1, <3>1, SubSeqProperties
    <3> QED
      BY <1>1, <3>2
  <2>2. \A i \in 1 .. Len(d) : SubSeq(q, 1, Len(d))[i] = d[i]
    BY <1>1, <2>1
  <2> QED
    BY <2>1, <2>2, SeqEqual
<1>4. SubSeq(q, Len(d) + 1, Len(q)) = p
  <2> DEFINE r == SubSeq(q, Len(d) + 1, Len(q))
  <2>1. \A i \in Len(d) + 1 .. Len(q) : q[i] \in Names
    BY <1>1, <1>2
  <2>2. /\ r \in Seq(Names)
        /\ Len(r) = IF Len(d) + 1 <= Len(q) THEN Len(q) - (Len(d) + 1) + 1 ELSE 0
        /\ \A i \in 1 .. Len(q) - (Len(d) + 1) + 1 : r[i] = q[Len(d) + 1 + i - 1]
    BY <1>1, <2>1, SubSeqProperties
  <2>3. Len(r) = Len(p)
    BY <1>1, <2>2
  <2>4. \A i \in 1 .. Len(p) : r[i] = q[Len(d) + i]
    BY <1>1, <2>2
  <2>5. \A i \in 1 .. Len(p) : q[Len(d) + i] = p[i]
    BY <1>1
  <2> QED
    BY <2>2, <2>3, <2>4, <2>5, SeqEqual
<1>5. Len(d) < Len(q)
  BY <1>1
<1> QED
  BY <1>3, <1>4, <1>5 DEF InSubtree, CutPrefix

\* The other way round.
LEMMA CutPrefixJoins ==
  ASSUME NEW d \in Seq(Names), NEW q \in Seq(Names), InSubtree(q, d)
  PROVE  /\ CutPrefix(q, d) \in Seq(Names) /\ CutPrefix(q, d) # <<>>
         /\ d \o CutPrefix(q, d) = q
<1>1. /\ Len(d) \in Nat /\ Len(q) \in Nat /\ Len(d) < Len(q)
      /\ SubSeq(q, 1, Len(d)) = d
  BY LenProperties DEF InSubtree
<1>2. \A i \in Len(d) + 1 .. Len(q) : q[i] \in Names
  <2>1. \A i \in Len(d) + 1 .. Len(q) : i \in 1 .. Len(q)
    BY <1>1
  <2> QED
    BY <2>1, ElementOfSeq
<1>3. /\ CutPrefix(q, d) \in Seq(Names)
      /\ Len(CutPrefix(q, d)) = IF Len(d) + 1 <= Len(q) THEN Len(q) - (Len(d) + 1) + 1 ELSE 0
  BY <1>1, <1>2, SubSeqProperties DEF CutPrefix
<1>4. Len(CutPrefix(q, d)) # 0
  BY <1>1, <1>3
<1>5. CutPrefix(q, d) # <<>>
  BY <1>4, EmptySeq
<1>6. SubSeq(q, 1, Len(d)) \o SubSeq(q, Len(d) + 1, Len(q)) = SubSeq(q, 1, Len(q))
  <2>1. /\ 1 \in 1 .. Len(q) + 1 /\ Len(d) \in 1 - 1 .. Len(q) /\ Len(q) \in Len(d) .. Len(q)
    BY <1>1
  <2> QED
    BY <2>1, ConcatAdjacentSubSeq
<1>7. SubSeq(q, 1, Len(q)) = q
  BY SubSeqFull
<1> QED
  BY <1>1, <1>3, <1>5, <1>6, <1>7 DEF CutPrefix

\* The clone of an exact matcher is a matcher, and agrees with it.
LEMMA ExactAgrees ==
  ASSUME NEW q \in AnyPath, NEW d \in AnyPath, NEW p \in AnyPath
  PROVE  /\ IsMatcher(ExactForSub(q, d))
         /\ Matches(ExactForSub(q, d), p) <=> q = Join(d, p)
<1>0. Here \in AnyPath
  BY DEF AnyPath
<1>1. CASE d = Here
  <2>1. ExactForSub(q, d) = Exact(q)
    BY <1>1 DEF ExactForSub
  <2> QED
    BY <1>1, <2>1 DEF Join, Matches, Exact, IsMatcher
<1>2. CASE d # Here /\ q = d
  <2>1. ExactForSub(q, d) = Exact(Here)
    BY <1>2 DEF ExactForSub
  <2>2. p # Here => d \o p # d
    BY <1>2, PathForm, ConcatEqualIffEmpty
  <2>3. q = Join(d, p) <=> p = Here
    BY <1>2, <2>2 DEF Join
  <2> QED
    BY <1>0, <2>1, <2>3 DEF Matches, Exact, IsMatcher
<1>3. CASE d # Here /\ q # d /\ InSubtree(q, d)
  <2>1. ExactForSub(q, d) = Exact(CutPrefix(q, d))
    BY <1>3 DEF ExactForSub
  <2>2. d \in Seq(Names) /\ Len(d) \in Nat /\ Len(d) > 0
    BY <1>3, PathForm
  <2>3. q # Here
    BY <1>3, <2>2 DEF InSubtree, Here
  <2>4. q \in Seq(Names)
    BY <2>3, PathForm
  <2>5. /\ CutPrefix(q, d) \in Seq(Names) /\ CutPrefix(q, d) # <<>>
        /\ d \o CutPrefix(q, d) = q
    BY <1>3, <2>2, <2>4, CutPrefixJoins
  <2>6. CutPrefix(q, d) \in AnyPath /\ CutPrefix(q, d) # Here
    BY <2>5, HereIsApart DEF AnyPath
  <2>7. ASSUME p # Here, q = d \o p PROVE p = CutPrefix(q, d)
    BY <2>2, <2>7, PathForm, CutPrefixInverts
  <2>8. q = Join(d, p) <=> p = CutPrefix(q, d)
    BY <1>3, <2>5, <2>6, <2>7 DEF Join
  <2> QED
    BY <2>1, <2>6, <2>8 DEF Matches, Exact, IsMatcher
<1>4. CASE d # Here /\ q # d /\ ~InSubtree(q, d)
  <2>1. ExactForSub(q, d) = Nothing
    BY <1>4 DEF ExactForSub
  <2>2. p # Here => InSubtree(d \o p, d)
    BY <1>4, PathForm, CutPrefixInverts
  <2>3. q # Join(d, p)
    BY <1>4, <2>2 DEF Join
  <2> QED
    BY <2>1, <2>3 DEF Matches, Nothing, IsMatcher
<1> QED
  BY <1>1, <1>2, <1>3, <1>4

-----------------------------------------------------------------------------
(* The theorems *)

\* A clone is one of the matchers again, so that it can be cloned in its turn.
LEMMA CloneIsMatcher ==
  ASSUME NEW m, IsMatcher(m), NEW d \in AnyPath
  PROVE  IsMatcher(MatcherForSub(m, d))
<1>1. CASE \E q \in AnyPath : m = Exact(q)
  <2> PICK q \in AnyPath : m = Exact(q)
    BY <1>1
  <2>1. MatcherForSub(m, d) = ExactForSub(q, d)
    BY DEF MatcherForSub, Exact
  <2> QED
    BY <2>1, ExactAgrees
<1>2. CASE \E S : \E prefix \in AnyPath : m = Pattern(S, prefix)
  <2> PICK S : \E prefix \in AnyPath : m = Pattern(S, prefix)
    BY <1>2
  <2> PICK prefix \in AnyPath : m = Pattern(S, prefix)
    OBVIOUS
  <2>1. MatcherForSub(m, d) = Pattern(S, Join(prefix, d))
    BY DEF MatcherForSub, Pattern, PatternForSub
  <2>2. Join(prefix, d) \in AnyPath
    BY JoinIsPath
  <2> QED
    BY <2>1, <2>2 DEF IsMatcher, Pattern
<1>3. CASE m \in {Wildcard, Nothing}
  BY <1>3 DEF MatcherForSub, Wildcard, Nothing, IsMatcher
<1> QED
  BY <1>1, <1>2, <1>3, MatcherForm

\* A matcher that CloneForSub has made matches a path of the sub file system
\* just when the original matches the path as the parent file system names it.
THEOREM ClonesAgree ==
  ASSUME NEW m, IsMatcher(m), NEW d \in AnyPath, NEW p \in AnyPath
  PROVE  CloneAgrees(m, d, p)
<1>1. CASE \E q \in AnyPath : m = Exact(q)
  <2> PICK q \in AnyPath : m = Exact(q)
    BY <1>1
  <2>1. MatcherForSub(m, d) = ExactForSub(q, d)
    BY DEF MatcherForSub, Exact
  <2>2. Matches(m, Join(d, p)) <=> q = Join(d, p)
    BY DEF Matches, Exact
  <2> QED
    BY <2>1, <2>2, ExactAgrees DEF CloneAgrees
<1>2. CASE \E S : \E prefix \in AnyPath : m = Pattern(S, prefix)
  <2> PICK S : \E prefix \in AnyPath : m = Pattern(S, prefix)
    BY <1>2
  <2> PICK prefix \in AnyPath : m = Pattern(S, prefix)
    OBVIOUS
  <2>1. MatcherForSub(m, d) = Pattern(S, Join(prefix, d))
    BY DEF MatcherForSub, Pattern, PatternForSub
  <2>2. Matches(MatcherForSub(m, d), p) <=> Join(Join(prefix, d), p) \in S
    BY <2>1 DEF Matches, Pattern
  <2>3. Matches(m, Join(d, p)) <=> Join(prefix, Join(d, p)) \in S
    BY DEF Matches, Pattern
  <2> QED
    BY <2>2, <2>3, JoinAssociative DEF CloneAgrees
<1>3. CASE m \in {Wildcard, Nothing}
  BY <1>3 DEF CloneAgrees, Matches, MatcherForSub, Wildcard, Nothing
<1> QED
  BY <1>1, <1>2, <1>3, MatcherForm

\* So does the clone of a clone, for Sub of a file system that Sub returned: the
\* prefixes of both are taken into account, in the right order.
THEOREM ClonesOfClonesAgree ==
  ASSUME NEW m, IsMatcher(m), NEW d \in AnyPath, NEW e \in AnyPath, NEW p \in AnyPath
  PROVE  CloneOfCloneAgrees(m, d, e, p)
<1>1. IsMatcher(MatcherForSub(m, d))
  BY CloneIsMatcher
<1>2. Join(e, p) \in AnyPath
  BY JoinIsPath
<1>3. CloneAgrees(MatcherForSub(m, d), e, p)
  BY <1>1, ClonesAgree
<1>4. CloneAgrees(m, d, Join(e, p))
  BY <1>2, ClonesAgree
<1> QED
  BY <1>3, <1>4 DEF CloneAgrees, CloneOfCloneAgrees
=============================================================================
