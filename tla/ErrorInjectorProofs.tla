------------------------ MODULE ErrorInjectorProofs ------------------------
(***************************************************************************)
(* Proofs that the injector keeps its books, for any number of goroutines, *)
(* injectors, operations, paths and rules.                                 *)
(***************************************************************************)
EXTENDS ErrorInjector, FiniteSetTheorems, SequenceTheorems, TLAPS

\* The initial state is well typed.
LEMMA InitTypeOK == Init => TypeOK
BY InjectorAssumption DEF Init, TypeOK, Request, RuleIds, AllOps, Modes, RuleType

\* The arguments that pass validation make a well-typed rule.
LEMMA NewErrorRuleType ==
  ASSUME NEW a \in RuleArgs, ValidateModeAndAfter(a)
  PROVE  NewErrorRule(a) \in RuleType
BY InjectorAssumption DEF ValidateModeAndAfter, NewErrorRule, RuleType, Modes

\* Rules are numbered in the order they are created.
LEMMA RuleNumbers ==
  ASSUME TypeOK
  PROVE  /\ made \in Nat /\ MaxRules \in Nat /\ made <= MaxRules
         /\ 1 .. made \subseteq RuleIds
         /\ \A n \in 0 .. MaxRules - made :
              /\ FreshIds(n) \subseteq RuleIds
              /\ made + n \in 0 .. MaxRules
              /\ \A r \in RuleIds : r \in FreshIds(n) <=> made < r /\ r <= made + n
<1>1. MaxRules \in Nat
  BY InjectorAssumption
<1>2. made \in 0 .. MaxRules
  BY DEF TypeOK
<1> QED
  BY <1>1, <1>2 DEF FreshIds, RuleIds

\* A rule cloned for a sub file system is well typed.
LEMMA RuleForSubType ==
  ASSUME NEW r \in RuleType
  PROVE  RuleForSub(r) \in RuleType
<1>1. {p \in Paths : InParent[p] \in r.match} \in SUBSET Paths
  OBVIOUS
<1> QED
  BY <1>1 DEF RuleForSub, RuleType

\* Creating well-typed rules keeps the rule variables well typed.
LEMMA CreateType ==
  ASSUME TypeOK, NEW n \in 0 .. MaxRules - made, NEW new,
         \A r \in FreshIds(n) : new[r] \in RuleType,
         Create(n, new)
  PROVE  /\ made' \in 0 .. MaxRules
         /\ rules' \in [RuleIds -> RuleType]
         /\ usedOnce' \in [RuleIds -> BOOLEAN]
         /\ hits' \in [RuleIds -> Nat]
BY InjectorAssumption DEF TypeOK, Create, FreshIds, RuleIds

\* The list of a check consists of rules of the two lists it joins.
LEMMA ScanListType ==
  ASSUME TypeOK, NEW i \in Injectors, NEW op \in AllOps
  PROVE  /\ ScanList(i, op) \in Seq(RuleIds)
         /\ \A k \in 1 .. Len(ScanList(i, op)) : ScanList(i, op)[k] \in RuleIds
<1>1. configs[i][op] \in Seq(RuleIds) /\ configs[i][OpUnknown] \in Seq(RuleIds)
  BY DEF TypeOK, AllOps
<1>2. ScanList(i, op) \in Seq(RuleIds)
  BY <1>1, ConcatProperties DEF ScanList
<1> QED
  BY <1>2

\* The position of a scan that meets a rule is one of its list.
LEMMA ScanPosition ==
  ASSUME TypeOK, NEW t \in Threads, ScanRule(t)
  PROVE  at[t] \in 1 .. Len(List(t)) /\ List(t)[at[t]] \in RuleIds
<1>1. req[t].inj \in Injectors /\ req[t].op \in AllOps /\ at[t] \in Nat \ {0}
  BY DEF TypeOK
<1>2. Len(List(t)) \in Nat
  BY <1>1, ScanListType, LenProperties DEF List
<1> QED
  BY <1>1, <1>2, ScanListType DEF ScanRule, List

\* A place in the lists of an injector holds a rule.
LEMMA PlacesType ==
  ASSUME TypeOK, NEW i \in Injectors, NEW pl \in Places(i)
  PROVE  /\ pl[1] \in AllOps
         /\ pl[2] \in 1 .. Len(configs[i][pl[1]])
         /\ configs[i][pl[1]][pl[2]] \in RuleIds
<1>1. PICK op \in AllOps : pl \in {op} \X DOMAIN configs[i][op]
  BY DEF Places
<1>2. configs[i][op] \in Seq(RuleIds)
  BY DEF TypeOK
<1> QED
  BY <1>1, <1>2

\* The rules of a clone are well typed.
LEMMA CloneRuleType ==
  ASSUME TypeOK, NEW i \in Injectors, NEW S, NEW place \in Bijection(S, Places(i)),
         NEW r \in S
  PROVE  RuleForSub(rules[configs[i][place[r][1]][place[r][2]]]) \in RuleType
<1>1. place[r] \in Places(i)
  BY DEF Bijection, Injection
<1>2. configs[i][place[r][1]][place[r][2]] \in RuleIds
  BY <1>1, PlacesType
<1> QED
  BY <1>2, RuleForSubType DEF TypeOK

\* The inverse of a bijection between fresh rules and places gives every place
\* its own fresh rule.
LEMMA CloneIds ==
  ASSUME NEW S, NEW T, NEW place \in Bijection(S, T), NEW pl \in T
  PROVE  /\ Inverse(place, S, T)[pl] \in S
         /\ place[Inverse(place, S, T)[pl]] = pl
BY DEF Bijection, Injection, Surjection, Inverse, Range

\* Every step keeps the types.
LEMMA NextTypeOK == TypeOK /\ [Next]_vars => TypeOK'
<1> SUFFICES ASSUME TypeOK, [Next]_vars PROVE TypeOK'
  OBVIOUS
<1>1. ASSUME UNCHANGED vars PROVE TypeOK'
  BY <1>1 DEF TypeOK, vars, ruleVars, lockVars, callVars, histVars
<1>2. ASSUME NEW t \in Threads, CallCheck(t) PROVE TypeOK'
  <2>1. PICK i \in Injectors, op \in Ops, p \in Paths :
          req' = [req EXCEPT ![t] = Request(i, op, p)]
    BY <1>2 DEF CallCheck, TypeOK
  <2>2. req' \in [Threads -> [inj : Injectors, op : AllOps, path : Paths \cup {NoPath}]]
    BY <2>1 DEF TypeOK, Request, AllOps
  <2>3. /\ checks < MaxChecks /\ checks' = checks + 1
        /\ pc' = [pc EXCEPT ![t] = "rlock"]
        /\ UNCHANGED <<made, rules, usedOnce, hits, configs, live, readers, writer,
                       at, got, writes, returned, passed, shared>>
    BY <1>2 DEF CallCheck, Goto, ruleVars, lockVars
  <2>4. checks' \in 0 .. MaxChecks
    BY <2>3, InjectorAssumption DEF TypeOK
  <2> QED
    BY <2>2, <2>3, <2>4 DEF TypeOK
<1>3. ASSUME NEW t \in Threads, CallWriter(t) PROVE TypeOK'
  <2>1. PICK i \in Injectors : req' = [req EXCEPT ![t] = Request(i, OpUnknown, NoPath)]
    BY <1>3 DEF CallWriter, TypeOK
  <2>2. req' \in [Threads -> [inj : Injectors, op : AllOps, path : Paths \cup {NoPath}]]
    BY <2>1 DEF TypeOK, Request, AllOps
  <2>3. /\ writes < MaxWrites /\ writes' = writes + 1
        /\ pc' = [pc EXCEPT ![t] = "lock"]
        /\ UNCHANGED <<made, rules, usedOnce, hits, configs, live, readers, writer,
                       at, got, checks, returned, passed, shared>>
    BY <1>3 DEF CallWriter, Goto, ruleVars, lockVars
  <2>4. writes' \in 0 .. MaxWrites
    BY <2>3, InjectorAssumption DEF TypeOK
  <2> QED
    BY <2>2, <2>3, <2>4 DEF TypeOK
<1>4. ASSUME NEW t \in Threads, CloneForSub(t) PROVE TypeOK'
  <2>1. PICK i \in live, j \in Injectors \ live, n \in 0 .. MaxRules - made :
          \E place \in Bijection(FreshIds(n), Places(i)) : CloneInto(t, i, j, n, place)
    BY <1>4 DEF CloneForSub
  <2>2. PICK place \in Bijection(FreshIds(n), Places(i)) : CloneInto(t, i, j, n, place)
    BY <2>1
  <2> DEFINE id == Inverse(place, FreshIds(n), Places(i))
             new == [r \in FreshIds(n) |->
                      RuleForSub(rules[configs[i][place[r][1]][place[r][2]]])]
  <2>3. i \in Injectors
    BY DEF TypeOK
  <2>4. \A r \in FreshIds(n) : new[r] \in RuleType
    BY <2>3, CloneRuleType
  <2>5. Create(n, new)
    BY <2>2 DEF CloneInto
  <2>6. made' \in 0 .. MaxRules /\ rules' \in [RuleIds -> RuleType]
        /\ usedOnce' \in [RuleIds -> BOOLEAN] /\ hits' \in [RuleIds -> Nat]
    <3> HIDE DEF new
    <3> QED
      BY <2>4, <2>5, CreateType
  <2>7. configs' \in [Injectors -> [AllOps -> Seq(RuleIds)]]
    <3>1. \A op \in AllOps :
            [k \in DOMAIN configs[i][op] |-> id[<<op, k>>]] \in Seq(RuleIds)
      <4> SUFFICES ASSUME NEW op \in AllOps
                   PROVE  [k \in DOMAIN configs[i][op] |-> id[<<op, k>>]] \in Seq(RuleIds)
        OBVIOUS
      <4>1. configs[i][op] \in Seq(RuleIds)
        BY <2>3 DEF TypeOK
      <4>2. /\ DOMAIN configs[i][op] = 1 .. Len(configs[i][op])
            /\ Len(configs[i][op]) \in Nat
        BY <4>1, LenProperties
      <4>3. \A k \in DOMAIN configs[i][op] : id[<<op, k>>] \in RuleIds
        <5>1. \A k \in DOMAIN configs[i][op] : <<op, k>> \in Places(i)
          BY DEF Places
        <5>2. FreshIds(n) \subseteq RuleIds
          BY RuleNumbers
        <5> QED
          BY <5>1, <5>2, CloneIds
      <4> QED
        BY <4>2, <4>3, IsASeq
    <3> QED
      BY <2>2, <3>1 DEF CloneInto, TypeOK
  <2> QED
    <3>1. writes' \in 0 .. MaxWrites
      BY <2>2, InjectorAssumption DEF CloneInto, TypeOK
    <3>2. live' \subseteq Injectors
      BY <2>2 DEF CloneInto, TypeOK
    <3>3. UNCHANGED <<readers, writer, pc, req, at, got, checks, returned, passed, shared>>
      BY <2>2 DEF CloneInto, lockVars, callVars
    <3> QED
      BY <2>6, <2>7, <3>1, <3>2, <3>3 DEF TypeOK
<1>5. ASSUME NEW t \in Threads, EnterCheck(t) PROVE TypeOK'
  BY <1>5 DEF TypeOK, EnterCheck, RLock, Goto, ruleVars, histVars
<1>6. ASSUME NEW t \in Threads, ScanRule(t) PROVE TypeOK'
  <2> DEFINE r == List(t)[at[t]]
  <2>1. at[t] \in 1 .. Len(List(t)) /\ r \in RuleIds
    BY <1>6, ScanPosition
  <2>2. usedOnce' \in [RuleIds -> BOOLEAN] /\ hits' \in [RuleIds -> Nat]
    <3>1. CASE UNCHANGED <<usedOnce, hits>>
      BY <3>1 DEF TypeOK
    <3>2. CASE CountHit(r)
      <4>1. hits' \in [RuleIds -> Nat]
        BY <2>1, <3>2 DEF CountHit, TypeOK
      <4>2. usedOnce' \in [RuleIds -> BOOLEAN]
        BY <3>2 DEF CountHit, TypeOK
      <4> QED
        BY <4>1, <4>2
    <3> QED
      BY <1>6, <3>1, <3>2 DEF ScanRule
  <2>3. at' \in [Threads -> Nat \ {0}]
    BY <1>6 DEF ScanRule, TypeOK
  <2>4. /\ got' \in [Threads -> RuleIds \cup {NoRule}]
        /\ pc' \in [Threads -> {"idle", "rlock", "scan", "return", "lock", "locked"}]
    BY <1>6, <2>1 DEF ScanRule, Goto, TypeOK
  <2> QED
    BY <1>6, <2>2, <2>3, <2>4 DEF ScanRule, TypeOK, lockVars, histVars
<1>7. ASSUME NEW t \in Threads, ScanEnd(t) PROVE TypeOK'
  BY <1>7 DEF TypeOK, ScanEnd, Goto, ruleVars, lockVars, histVars
<1>8. ASSUME NEW t \in Threads, ReturnCheck(t) PROVE TypeOK'
  <2>1. req' \in [Threads -> [inj : Injectors, op : AllOps, path : Paths \cup {NoPath}]]
    BY <1>8, InjectorAssumption DEF ReturnCheck, TypeOK, Request, AllOps
  <2>2. returned' \in [RuleIds -> Nat] /\ passed' \in [RuleIds -> Nat]
    BY <1>8 DEF ReturnCheck, TypeOK
  <2> QED
    BY <1>8, <2>1, <2>2 DEF TypeOK, ReturnCheck, RUnlock, Goto, ruleVars
<1>9. ASSUME NEW t \in Threads, Announce(t) PROVE TypeOK'
  BY <1>9 DEF TypeOK, Announce, AnnounceLock, Goto, ruleVars, histVars
<1>10. ASSUME NEW t \in Threads, Write(t) PROVE TypeOK'
  <2>1. made' \in 0 .. MaxRules /\ rules' \in [RuleIds -> RuleType]
        /\ usedOnce' \in [RuleIds -> BOOLEAN] /\ hits' \in [RuleIds -> Nat]
    <3>1. CASE AddNew(t)
      <4>1. PICK a \in RuleArgs : /\ ValidateModeAndAfter(a)
                                  /\ Create(1, [r \in FreshIds(1) |-> NewErrorRule(a)])
        BY <3>1 DEF AddNew
      <4>2. 1 \in 0 .. MaxRules - made
        BY <3>1, RuleNumbers DEF AddNew
      <4> QED
        BY <4>1, <4>2, NewErrorRuleType, CreateType
    <3>2. CASE AddForAllOps(t)
      <4>1. PICK a \in RuleArgs, n \in 0 .. MaxRules - made :
              /\ ValidateModeAndAfter(a)
              /\ Create(n, [r \in FreshIds(n) |-> NewErrorRule(a)])
        BY <3>2 DEF AddForAllOps
      <4> QED
        BY <4>1, NewErrorRuleType, CreateType
    <3>3. CASE AddShared(t) \/ Clear(t)
      BY <3>3 DEF AddShared, Clear, ruleVars, TypeOK
    <3> QED
      BY <1>10, <3>1, <3>2, <3>3 DEF Write
  <2>2. configs' \in [Injectors -> [AllOps -> Seq(RuleIds)]]
    <3>1. \A i \in Injectors, op \in AllOps, r \in RuleIds :
            Append(configs[i][op], r) \in Seq(RuleIds)
      BY AppendProperties DEF TypeOK
    <3>2. req[t].inj \in Injectors
      BY DEF TypeOK
    <3>3. CASE AddNew(t)
      <4>1. made + 1 \in RuleIds
        BY <3>3, RuleNumbers DEF AddNew, RuleIds
      <4> QED
        BY <3>1, <3>2, <3>3, <4>1 DEF AddNew, TypeOK
    <3>4. CASE AddShared(t)
      <4>1. 1 .. made \subseteq RuleIds
        BY RuleNumbers
      <4> QED
        BY <3>1, <3>2, <3>4, <4>1 DEF AddShared, TypeOK
    <3>5. CASE AddForAllOps(t)
      <4>1. PICK n \in 0 .. MaxRules - made : \E id \in Bijection(Ops, FreshIds(n)) :
              configs' = [configs EXCEPT ![req[t].inj] =
                [op \in AllOps |-> IF op \in Ops THEN Append(@[op], id[op]) ELSE @[op]]]
        BY <3>5 DEF AddForAllOps
      <4>2. PICK id \in Bijection(Ops, FreshIds(n)) :
              configs' = [configs EXCEPT ![req[t].inj] =
                [op \in AllOps |-> IF op \in Ops THEN Append(@[op], id[op]) ELSE @[op]]]
        BY <4>1
      <4>3. \A op \in Ops : id[op] \in RuleIds
        <5>1. FreshIds(n) \subseteq RuleIds
          BY RuleNumbers
        <5> QED
          BY <4>2, <5>1 DEF Bijection, Injection
      <4> QED
        BY <3>1, <3>2, <4>2, <4>3 DEF TypeOK
    <3>6. CASE Clear(t)
      BY <3>2, <3>6, EmptySeq DEF Clear, TypeOK
    <3> QED
      BY <1>10, <3>3, <3>4, <3>5, <3>6 DEF Write
  <2>3. shared' \subseteq RuleIds
    <3>1. CASE UNCHANGED shared
      BY <3>1 DEF TypeOK
    <3>2. CASE \E r \in 1 .. made : shared' = shared \cup {r}
      BY <3>2, RuleNumbers DEF TypeOK
    <3> QED
      BY <1>10, <3>1, <3>2 DEF Write, AddNew, AddShared, AddForAllOps, Clear
  <2>4. WriterReturns(t)
    BY <1>10 DEF Write, AddNew, AddShared, AddForAllOps, Clear
  <2>5. /\ req' \in [Threads -> [inj : Injectors, op : AllOps, path : Paths \cup {NoPath}]]
        /\ writer' \in [Injectors -> Threads \cup {NoThread}]
    BY <2>4, InjectorAssumption DEF WriterReturns, Unlock, TypeOK, Request, AllOps
  <2> QED
    BY <2>1, <2>2, <2>3, <2>4, <2>5 DEF TypeOK, WriterReturns, Unlock, Goto
<1> QED
  BY <1>1, <1>2, <1>3, <1>4, <1>5, <1>6, <1>7, <1>8, <1>9, <1>10 DEF Next, Invoke, Check

\* Type correctness.
THEOREM TypeCorrect == Spec => []TypeOK
BY InitTypeOK, NextTypeOK, PTL DEF Spec

-----------------------------------------------------------------------------
(* FireAccounting: a rule is untouched until it is created, a goroutine     *)
(* holds a rule's error only between the scan that fired it and the return, *)
(* and the lists hold created rules.                                        *)

Untouched(r) == /\ ~usedOnce[r] /\ hits[r] = 0 /\ returned[r] = 0
                /\ \A t \in Threads : got[t] # r

FreshUntouched == \A r \in RuleIds : r > made => Untouched(r)

HeldOnReturn == \A t \in Threads : pc[t] # "return" => got[t] = NoRule

ListsMade == \A i \in Injectors, op \in AllOps :
               \A k \in 1 .. Len(configs[i][op]) : configs[i][op][k] <= made

AccountInv == TypeOK /\ FreshUntouched /\ HeldOnReturn /\ ListsMade /\ FireAccounting

\* The books are in order at the start.
LEMMA InitAccountInv == Init => AccountInv
<1> SUFFICES ASSUME Init PROVE AccountInv
  OBVIOUS
<1>1. FreshUntouched /\ HeldOnReturn
  BY InjectorAssumption DEF Init, FreshUntouched, HeldOnReturn, Untouched
<1>2. ListsMade
  BY EmptySeq DEF Init, ListsMade
<1>3. FireAccounting
  BY DEF Init, FireAccounting, Accounted
<1> QED
  BY <1>1, <1>2, <1>3, InitTypeOK DEF AccountInv

\* An element of a concatenation is an element of one of its parts.
LEMMA ConcatElement ==
  ASSUME NEW S, NEW s \in Seq(S), NEW u \in Seq(S), NEW k \in 1 .. Len(s \o u)
  PROVE  \/ k \in 1 .. Len(s) /\ (s \o u)[k] = s[k]
         \/ k - Len(s) \in 1 .. Len(u) /\ (s \o u)[k] = u[k - Len(s)]
<1>1. Len(s) \in Nat /\ Len(u) \in Nat
  BY LenProperties
<1>2. /\ Len(s \o u) = Len(s) + Len(u)
      /\ (s \o u)[k] = IF k <= Len(s) THEN s[k] ELSE u[k - Len(s)]
  BY ConcatProperties
<1> QED
  BY <1>1, <1>2

\* A check meets created rules only.
LEMMA ScanListMade ==
  ASSUME TypeOK, ListsMade, NEW i \in Injectors, NEW op \in AllOps,
         NEW k \in 1 .. Len(ScanList(i, op))
  PROVE  ScanList(i, op)[k] \in RuleIds /\ ScanList(i, op)[k] <= made
<1>1. /\ configs[i][op] \in Seq(RuleIds) /\ configs[i][OpUnknown] \in Seq(RuleIds)
      /\ OpUnknown \in AllOps
  BY DEF TypeOK, AllOps
<1>2. \/ /\ k \in 1 .. Len(configs[i][op])
         /\ ScanList(i, op)[k] = configs[i][op][k]
      \/ /\ k - Len(configs[i][op]) \in 1 .. Len(configs[i][OpUnknown])
         /\ ScanList(i, op)[k] = configs[i][OpUnknown][k - Len(configs[i][op])]
  BY <1>1, ConcatElement DEF ScanList
<1> QED
  BY <1>1, <1>2, ScanListType DEF ListsMade

\* Nothing changes in the books of a rule that a step does not touch.
LEMMA AccountedUnchanged ==
  ASSUME NEW r \in RuleIds, Accounted(r),
         rules'[r] = rules[r], usedOnce'[r] = usedOnce[r], hits'[r] = hits[r],
         Fired(r)' = Fired(r)
  PROVE  Accounted(r)'
BY DEF Accounted

\* A rule that nobody holds and that never fired has fired zero times.
LEMMA UntouchedFired ==
  ASSUME NEW r \in RuleIds, Untouched(r)
  PROVE  Fired(r) = 0
<1>1. Holders(r) = {}
  BY DEF Holders, Untouched
<1> QED
  BY <1>1, FS_EmptySet DEF Fired, Untouched

\* The steps that neither touch the counters nor create rules.
LEMMA AccountFrame ==
  ASSUME AccountInv, TypeOK',
         UNCHANGED <<made, rules, usedOnce, hits, configs, got, returned>>,
         HeldOnReturn'
  PROVE  AccountInv'
<1>1. FreshUntouched' /\ ListsMade'
  BY DEF AccountInv, FreshUntouched, Untouched, ListsMade
<1>2. FireAccounting'
  BY DEF AccountInv, FireAccounting, Accounted, Fired, Holders
<1> QED
  BY <1>1, <1>2 DEF AccountInv

\* Creating rules leaves the books in order: the new rules start untouched.
LEMMA AccountCreate ==
  ASSUME AccountInv, NEW n \in 0 .. MaxRules - made, NEW new,
         \A r \in FreshIds(n) : new[r] \in RuleType,
         Create(n, new), UNCHANGED <<got, returned>>
  PROVE  FreshUntouched' /\ FireAccounting'
<1>1. /\ made' = made + n
      /\ \A r \in RuleIds : r \in FreshIds(n) <=> made < r /\ r <= made + n
      /\ TypeOK /\ made \in Nat /\ n \in Nat
  BY RuleNumbers DEF AccountInv, Create
<1>2. \A r \in RuleIds : r \notin FreshIds(n) =>
        /\ rules'[r] = rules[r] /\ usedOnce'[r] = usedOnce[r] /\ hits'[r] = hits[r]
  BY <1>1 DEF Create, TypeOK
<1>3. FreshUntouched'
  <2> SUFFICES ASSUME NEW r \in RuleIds, r > made + n PROVE Untouched(r)'
    BY <1>1 DEF FreshUntouched
  <2>1. r \notin FreshIds(n) /\ r > made
    BY <1>1 DEF RuleIds
  <2> QED
    BY <1>2, <2>1 DEF AccountInv, FreshUntouched, Untouched
<1>4. ASSUME NEW r \in RuleIds PROVE Accounted(r)'
  <2>1. Fired(r)' = Fired(r)
    BY DEF Fired, Holders
  <2>2. CASE r \notin FreshIds(n)
    <3>1. Accounted(r)
      BY DEF AccountInv, FireAccounting
    <3> QED
      BY <1>2, <2>1, <2>2, <3>1, AccountedUnchanged
  <2>3. CASE r \in FreshIds(n)
    <3>1. Untouched(r)
      BY <1>1, <2>3 DEF AccountInv, FreshUntouched, RuleIds
    <3>2. Fired(r)' = 0
      BY <2>1, <3>1, UntouchedFired
    <3>3. ~usedOnce'[r] /\ hits'[r] = 0 /\ rules'[r] \in RuleType
      BY <2>3 DEF Create
    <3>4. rules'[r].mode \in Modes /\ rules'[r].afterN \in Nat
      BY <3>3 DEF RuleType
    <3>5. /\ IF usedOnce'[r] THEN FALSE ELSE Fired(r)' = 0
          /\ Fired(r)' = IF hits'[r] < rules'[r].afterN THEN hits'[r] ELSE rules'[r].afterN
          /\ Fired(r)' = IF hits'[r] > rules'[r].afterN
                           THEN hits'[r] - rules'[r].afterN ELSE 0
      BY <3>2, <3>3, <3>4
    <3> QED
      BY <3>3, <3>4, <3>5 DEF Accounted, Modes
  <2> QED
    BY <2>2, <2>3
<1> QED
  BY <1>3, <1>4 DEF FireAccounting

\* A goroutine that takes a rule's error adds one to what the rule has fired.
LEMMA TakeError ==
  ASSUME TypeOK, NEW t \in Threads, NEW r \in RuleIds, got[t] = NoRule,
         got' = [got EXCEPT ![t] = r], UNCHANGED returned
  PROVE  /\ Fired(r)' = Fired(r) + 1
         /\ \A q \in RuleIds \ {r} : Fired(q)' = Fired(q)
<1>1. r # NoRule
  BY InjectorAssumption
<1>2. Holders(r)' = Holders(r) \cup {t} /\ t \notin Holders(r)
  BY <1>1 DEF Holders, TypeOK
<1>3. IsFiniteSet(Holders(r))
  BY InjectorAssumption, FS_Subset DEF Holders
<1>4. Cardinality(Holders(r)') = Cardinality(Holders(r)) + 1
  BY <1>2, <1>3, FS_AddElement
<1>5. Cardinality(Holders(r)) \in Nat /\ returned[r] \in Nat
  BY <1>3, FS_CardinalityType DEF TypeOK
<1>6. \A q \in RuleIds \ {r} : Holders(q)' = Holders(q)
  BY InjectorAssumption DEF Holders, TypeOK
<1> QED
  BY <1>4, <1>5, <1>6 DEF Fired

\* Returning the error moves it from the goroutine to the history.
LEMMA GiveError ==
  ASSUME TypeOK, NEW t \in Threads, got' = [got EXCEPT ![t] = NoRule],
         returned' = [r \in RuleIds |-> returned[r] + IF got[t] = r THEN 1 ELSE 0]
  PROVE  \A r \in RuleIds : Fired(r)' = Fired(r)
<1> SUFFICES ASSUME NEW r \in RuleIds PROVE Fired(r)' = Fired(r)
  OBVIOUS
<1>1. r # NoRule
  BY InjectorAssumption
<1>2. IsFiniteSet(Holders(r))
  BY InjectorAssumption, FS_Subset DEF Holders
<1>3. Cardinality(Holders(r)) \in Nat /\ returned[r] \in Nat
  BY <1>2, FS_CardinalityType DEF TypeOK
<1>4. CASE got[t] = r
  <2>1. Holders(r)' = Holders(r) \ {t} /\ t \in Holders(r)
    BY <1>1, <1>4 DEF Holders, TypeOK
  <2>2. Cardinality(Holders(r)') = Cardinality(Holders(r)) - 1
    BY <1>2, <2>1, FS_RemoveElement
  <2> QED
    BY <1>3, <1>4, <2>2 DEF Fired
<1>5. CASE got[t] # r
  <2>1. Holders(r)' = Holders(r)
    BY <1>1, <1>5 DEF Holders, TypeOK
  <2>2. returned'[r] = returned[r]
    BY <1>3, <1>5
  <2> QED
    BY <2>1, <2>2 DEF Fired
<1> QED
  BY <1>4, <1>5

\* The number of errors fired is a number.
LEMMA FiredType ==
  ASSUME TypeOK, NEW r \in RuleIds
  PROVE  Fired(r) \in Nat
<1>1. IsFiniteSet(Holders(r))
  BY InjectorAssumption, FS_Subset DEF Holders
<1>2. Cardinality(Holders(r)) \in Nat /\ returned[r] \in Nat
  BY <1>1, FS_CardinalityType DEF TypeOK
<1> QED
  BY <1>2 DEF Fired

\* A call the rule counts and lets pass.
LEMMA CountedOnly ==
  ASSUME TypeOK, NEW r \in RuleIds, Accounted(r), CountHit(r), ~ShouldReturnError(r),
         UNCHANGED rules, Fired(r)' = Fired(r)
  PROVE  Accounted(r)'
<1>1. /\ usedOnce'[r] = IF rules[r].mode = "Once" THEN TRUE ELSE usedOnce[r]
      /\ hits'[r] = IF rules[r].mode \in {"AfterSuccesses", "Next"}
                      THEN hits[r] + 1 ELSE hits[r]
  BY DEF CountHit, TypeOK
<1>2. rules[r].mode \in Modes /\ rules[r].afterN \in Nat /\ hits[r] \in Nat
  BY DEF TypeOK, RuleType
<1>3. CASE rules[r].mode \in {"Once", "Always"}
  BY <1>1, <1>3 DEF Accounted, ShouldReturnError
<1>4. CASE rules[r].mode = "AfterSuccesses"
  BY <1>1, <1>2, <1>4 DEF Accounted, ShouldReturnError
<1>5. CASE rules[r].mode = "Next"
  BY <1>1, <1>2, <1>5 DEF Accounted, ShouldReturnError
<1> QED
  BY <1>2, <1>3, <1>4, <1>5 DEF Modes

\* A call the rule counts and fails.
LEMMA CountedAndFired ==
  ASSUME TypeOK, NEW r \in RuleIds, Accounted(r), CountHit(r), ShouldReturnError(r),
         UNCHANGED rules, Fired(r)' = Fired(r) + 1
  PROVE  Accounted(r)'
<1>1. /\ usedOnce'[r] = IF rules[r].mode = "Once" THEN TRUE ELSE usedOnce[r]
      /\ hits'[r] = IF rules[r].mode \in {"AfterSuccesses", "Next"}
                      THEN hits[r] + 1 ELSE hits[r]
  BY DEF CountHit, TypeOK
<1>2. /\ rules[r].mode \in Modes /\ rules[r].afterN \in Nat
      /\ hits[r] \in Nat /\ Fired(r) \in Nat
  BY FiredType DEF TypeOK, RuleType
<1>3. CASE rules[r].mode = "Once"
  <2>1. Fired(r) = 0
    BY <1>3 DEF Accounted, ShouldReturnError
  <2>2. Fired(r)' = 1 /\ usedOnce'[r]
    BY <1>1, <1>3, <2>1
  <2> QED
    BY <1>3, <2>2 DEF Accounted
<1>4. CASE rules[r].mode = "AfterSuccesses"
  BY <1>1, <1>2, <1>4 DEF Accounted, ShouldReturnError
<1>5. CASE rules[r].mode = "Next"
  BY <1>1, <1>2, <1>5 DEF Accounted, ShouldReturnError
<1>6. CASE rules[r].mode = "Always"
  BY <1>1, <1>6 DEF Accounted
<1> QED
  BY <1>2, <1>3, <1>4, <1>5, <1>6 DEF Modes

\* One rule of a scan: what it fires is what it counts.
LEMMA AccountScan ==
  ASSUME AccountInv, TypeOK', NEW t \in Threads, ScanRule(t)
  PROVE  AccountInv'
<1>1. TypeOK /\ got[t] = NoRule
  BY DEF AccountInv, HeldOnReturn, ScanRule
<1>2. /\ HeldOnReturn' /\ ListsMade'
      /\ UNCHANGED <<made, rules, configs, returned>>
  BY DEF AccountInv, HeldOnReturn, ListsMade, ScanRule, Goto, TypeOK, histVars
<1>3. PICK r \in RuleIds :
        /\ r <= made
        /\ \/ UNCHANGED <<usedOnce, hits, got>>
           \/ CountHit(r) /\ ~ShouldReturnError(r) /\ UNCHANGED got
           \/ CountHit(r) /\ ShouldReturnError(r) /\ got' = [got EXCEPT ![t] = r]
  <2>1. /\ req[t].inj \in Injectors /\ req[t].op \in AllOps
        /\ at[t] \in 1 .. Len(List(t))
    BY <1>1, ScanPosition DEF TypeOK
  <2>2. List(t)[at[t]] \in RuleIds /\ List(t)[at[t]] <= made
    BY <1>1, <2>1, ScanListMade DEF List, AccountInv
  <2> QED
    BY <2>2 DEF ScanRule
<1>4. CASE UNCHANGED <<usedOnce, hits, got>>
  BY <1>2, <1>4, AccountFrame
<1>5. ASSUME CountHit(r) PROVE \A q \in RuleIds \ {r} :
         UNCHANGED <<rules[q], usedOnce[q], hits[q]>>
  BY <1>1, <1>2, <1>5 DEF CountHit, TypeOK
<1>6. ASSUME CountHit(r), \A q \in RuleIds \ {r} : Fired(q)' = Fired(q), Accounted(r)',
             \A q \in RuleIds : q > made => \A u \in Threads : got'[u] # q
      PROVE  AccountInv'
  <2>1. FreshUntouched'
    <3> SUFFICES ASSUME NEW q \in RuleIds, q > made PROVE Untouched(q)'
      BY <1>2 DEF FreshUntouched
    <3>1. q # r
      BY <1>1, <1>3, RuleNumbers DEF RuleIds
    <3> QED
      BY <1>2, <1>5, <1>6, <3>1 DEF AccountInv, FreshUntouched, Untouched
  <2>2. \A q \in RuleIds \ {r} : Accounted(q)'
    BY <1>5, <1>6, AccountedUnchanged DEF AccountInv, FireAccounting
  <2> QED
    BY <1>2, <1>6, <2>1, <2>2 DEF AccountInv, FireAccounting
<1>7. CASE CountHit(r) /\ ~ShouldReturnError(r) /\ UNCHANGED got
  <2>1. \A q \in RuleIds : Fired(q)' = Fired(q)
    BY <1>2, <1>7 DEF Fired, Holders
  <2>2. Accounted(r)'
    BY <1>1, <1>2, <1>3, <1>7, <2>1, CountedOnly DEF AccountInv, FireAccounting
  <2>3. \A q \in RuleIds : q > made => \A u \in Threads : got'[u] # q
    BY <1>7 DEF AccountInv, FreshUntouched, Untouched
  <2> QED
    BY <1>6, <1>7, <2>1, <2>2, <2>3
<1>8. CASE CountHit(r) /\ ShouldReturnError(r) /\ got' = [got EXCEPT ![t] = r]
  <2>1. /\ Fired(r)' = Fired(r) + 1
        /\ \A q \in RuleIds \ {r} : Fired(q)' = Fired(q)
    BY <1>1, <1>2, <1>3, <1>8, TakeError
  <2>2. Accounted(r)'
    BY <1>1, <1>2, <1>3, <1>8, <2>1, CountedAndFired DEF AccountInv, FireAccounting
  <2>3. \A q \in RuleIds : q > made => \A u \in Threads : got'[u] # q
    BY <1>1, <1>3, <1>8, RuleNumbers
       DEF AccountInv, FreshUntouched, Untouched, TypeOK, RuleIds
  <2> QED
    BY <1>6, <1>8, <2>1, <2>2, <2>3
<1> QED
  BY <1>3, <1>4, <1>7, <1>8

\* A return settles the error in the history.
LEMMA AccountReturn ==
  ASSUME AccountInv, TypeOK', NEW t \in Threads, ReturnCheck(t)
  PROVE  AccountInv'
<1>1. /\ UNCHANGED <<made, rules, usedOnce, hits, configs>>
      /\ got' = [got EXCEPT ![t] = NoRule] /\ pc' = [pc EXCEPT ![t] = "idle"]
      /\ returned' = [r \in RuleIds |-> returned[r] + IF got[t] = r THEN 1 ELSE 0]
  BY DEF ReturnCheck, Goto, ruleVars
<1>2. TypeOK
  BY DEF AccountInv
<1>3. HeldOnReturn' /\ ListsMade'
  BY <1>1, <1>2 DEF AccountInv, HeldOnReturn, ListsMade, TypeOK
<1>4. FreshUntouched'
  <2> SUFFICES ASSUME NEW r \in RuleIds, r > made PROVE Untouched(r)'
    BY <1>1 DEF FreshUntouched
  <2>1. Untouched(r)
    BY DEF AccountInv, FreshUntouched
  <2>2. returned'[r] = 0
    BY <1>1, <2>1 DEF Untouched
  <2>3. \A u \in Threads : got'[u] # r
    BY <1>1, <1>2, <2>1, InjectorAssumption DEF Untouched, TypeOK
  <2> QED
    BY <1>1, <2>1, <2>2, <2>3 DEF Untouched
<1>5. \A r \in RuleIds : Fired(r)' = Fired(r)
  BY <1>1, <1>2, GiveError
<1>6. FireAccounting'
  BY <1>1, <1>5, AccountedUnchanged DEF AccountInv, FireAccounting
<1> QED
  BY <1>3, <1>4, <1>6 DEF AccountInv

\* Lists that get created rules appended consist of created rules.
LEMMA ListsMadeAppend ==
  ASSUME TypeOK, TypeOK', ListsMade, made <= made', NEW i \in Injectors,
         \A h \in Injectors \ {i} : configs'[h] = configs[h],
         \A op \in AllOps : \/ configs'[i][op] = configs[i][op]
                            \/ \E r \in RuleIds : r <= made' /\
                                 configs'[i][op] = Append(configs[i][op], r)
  PROVE  ListsMade'
<1> SUFFICES ASSUME NEW h \in Injectors, NEW op \in AllOps,
                    NEW k \in 1 .. Len(configs'[h][op])
             PROVE  configs'[h][op][k] <= made'
  BY DEF ListsMade
<1>1. made \in Nat /\ made' \in Nat /\ configs[h][op] \in Seq(RuleIds)
  BY RuleNumbers DEF TypeOK
<1>2. CASE configs'[h][op] = configs[h][op]
  <2>1. configs[h][op][k] <= made /\ configs[h][op][k] \in RuleIds
    BY <1>1, <1>2 DEF ListsMade
  <2> QED
    BY <1>1, <1>2, <2>1 DEF RuleIds
<1>3. CASE \E r \in RuleIds : r <= made' /\ configs'[h][op] = Append(configs[h][op], r)
  <2>1. PICK r \in RuleIds : r <= made' /\ configs'[h][op] = Append(configs[h][op], r)
    BY <1>3
  <2>2. /\ Len(configs[h][op]) \in Nat
        /\ Len(configs'[h][op]) = Len(configs[h][op]) + 1
        /\ configs'[h][op][k] = IF k <= Len(configs[h][op]) THEN configs[h][op][k] ELSE r
    BY <1>1, <2>1, AppendProperties, LenProperties
  <2>3. CASE k \in 1 .. Len(configs[h][op])
    <3>1. configs[h][op][k] <= made /\ configs[h][op][k] \in RuleIds
      BY <1>1, <2>3 DEF ListsMade
    <3> QED
      BY <1>1, <2>2, <2>3, <3>1 DEF RuleIds
  <2> QED
    BY <2>1, <2>2, <2>3
<1> QED
  BY <1>2, <1>3

\* The steps of the writers.
LEMMA AccountWrite ==
  ASSUME AccountInv, TypeOK', NEW t \in Threads, Write(t)
  PROVE  AccountInv'
<1>1. TypeOK /\ WriterReturns(t)
  BY DEF AccountInv, Write, AddNew, AddShared, AddForAllOps, Clear
<1>2. HeldOnReturn' /\ UNCHANGED <<got, returned>>
  BY <1>1 DEF AccountInv, HeldOnReturn, WriterReturns, Goto, TypeOK
<1>3. req[t].inj \in Injectors
  BY <1>1 DEF TypeOK
<1>4. CASE AddNew(t)
  <2>1. PICK op \in AllOps, a \in RuleArgs :
          /\ ValidateModeAndAfter(a)
          /\ Create(1, [r \in FreshIds(1) |-> NewErrorRule(a)])
          /\ configs' = [configs EXCEPT ![req[t].inj][op] = Append(@, made + 1)]
    BY <1>4 DEF AddNew
  <2>2. 1 \in 0 .. MaxRules - made
    BY <1>1, <1>4, RuleNumbers DEF AddNew
  <2>3. FreshUntouched' /\ FireAccounting'
    BY <1>2, <2>1, <2>2, AccountCreate, NewErrorRuleType
  <2>4. made' = made + 1
    BY <2>1 DEF Create
  <2>5. made + 1 \in RuleIds /\ made + 1 <= made' /\ made <= made'
    BY <1>1, <1>4, <2>4, RuleNumbers DEF AddNew, RuleIds
  <2>6. \A h \in Injectors \ {req[t].inj} : configs'[h] = configs[h]
    BY <2>1
  <2>7. \A o \in AllOps : \/ configs'[req[t].inj][o] = configs[req[t].inj][o]
                          \/ configs'[req[t].inj][o] = Append(configs[req[t].inj][o], made + 1)
    BY <1>1, <1>3, <2>1 DEF TypeOK
  <2>8. ListsMade'
    BY <1>1, <1>3, <2>5, <2>6, <2>7, ListsMadeAppend DEF AccountInv
  <2> QED
    BY <1>2, <2>3, <2>8 DEF AccountInv
<1>5. CASE AddForAllOps(t)
  <2>1. PICK a \in RuleArgs, n \in 0 .. MaxRules - made :
          /\ ValidateModeAndAfter(a)
          /\ Create(n, [r \in FreshIds(n) |-> NewErrorRule(a)])
          /\ \E id \in Bijection(Ops, FreshIds(n)) :
               configs' = [configs EXCEPT ![req[t].inj] =
                 [op \in AllOps |-> IF op \in Ops THEN Append(@[op], id[op]) ELSE @[op]]]
    BY <1>5 DEF AddForAllOps
  <2>2. PICK id \in Bijection(Ops, FreshIds(n)) :
          configs' = [configs EXCEPT ![req[t].inj] =
            [op \in AllOps |-> IF op \in Ops THEN Append(@[op], id[op]) ELSE @[op]]]
    BY <2>1
  <2>3. FreshUntouched' /\ FireAccounting'
    BY <1>2, <2>1, AccountCreate, NewErrorRuleType
  <2>4. made' = made + n /\ made <= made + n
    BY <1>1, <2>1, RuleNumbers DEF Create
  <2>5. \A op \in Ops : id[op] \in RuleIds /\ id[op] <= made + n
    BY <1>1, RuleNumbers DEF Bijection, Injection
  <2>6. ListsMade'
    BY <1>1, <1>3, <2>2, <2>4, <2>5, ListsMadeAppend DEF AccountInv
  <2> QED
    BY <1>2, <2>3, <2>6 DEF AccountInv
<1>6. CASE AddShared(t)
  <2>1. PICK op \in AllOps, r \in 1 .. made :
          configs' = [configs EXCEPT ![req[t].inj][op] = Append(@, r)]
    BY <1>6 DEF AddShared
  <2>2. UNCHANGED <<made, rules, usedOnce, hits>>
    BY <1>6 DEF AddShared, ruleVars
  <2>3. r \in RuleIds /\ r <= made /\ made' <= made'
    BY <1>1, <2>2, RuleNumbers
  <2>4. ListsMade'
    BY <1>1, <1>3, <2>1, <2>2, <2>3, ListsMadeAppend DEF AccountInv
  <2>5. FreshUntouched' /\ FireAccounting'
    BY <1>2, <2>2
       DEF AccountInv, FreshUntouched, Untouched, FireAccounting, Accounted, Fired, Holders
  <2> QED
    BY <1>2, <2>4, <2>5 DEF AccountInv
<1>7. CASE Clear(t)
  <2>1. configs' = [configs EXCEPT ![req[t].inj] = [op \in AllOps |-> <<>>]]
        /\ UNCHANGED <<made, rules, usedOnce, hits>>
    BY <1>7 DEF Clear, ruleVars
  <2>2. ListsMade'
    BY <1>1, <1>3, <2>1, EmptySeq DEF AccountInv, ListsMade, TypeOK
  <2>3. FreshUntouched' /\ FireAccounting'
    BY <1>2, <2>1
       DEF AccountInv, FreshUntouched, Untouched, FireAccounting, Accounted, Fired, Holders
  <2> QED
    BY <1>2, <2>2, <2>3 DEF AccountInv
<1> QED
  BY <1>4, <1>5, <1>6, <1>7 DEF Write

\* The step that clones an injector.
LEMMA AccountClone ==
  ASSUME AccountInv, TypeOK', NEW t \in Threads, CloneForSub(t)
  PROVE  AccountInv'
<1>1. PICK i \in live, j \in Injectors \ live, n \in 0 .. MaxRules - made :
        \E place \in Bijection(FreshIds(n), Places(i)) : CloneInto(t, i, j, n, place)
  BY DEF CloneForSub
<1>2. PICK place \in Bijection(FreshIds(n), Places(i)) : CloneInto(t, i, j, n, place)
  BY <1>1
<1> DEFINE id == Inverse(place, FreshIds(n), Places(i))
           new == [r \in FreshIds(n) |->
                    RuleForSub(rules[configs[i][place[r][1]][place[r][2]]])]
<1>3. TypeOK /\ i \in Injectors /\ HeldOnReturn'
  BY <1>2 DEF AccountInv, TypeOK, HeldOnReturn, CloneInto, callVars
<1>4. FreshUntouched' /\ FireAccounting'
  <2>1. \A r \in FreshIds(n) : new[r] \in RuleType
    BY <1>3, CloneRuleType
  <2>2. Create(n, new) /\ UNCHANGED <<got, returned>>
    BY <1>2 DEF CloneInto, callVars
  <2> HIDE DEF new
  <2> QED
    BY <2>1, <2>2, AccountCreate
<1>5. ListsMade'
  <2> SUFFICES ASSUME NEW h \in Injectors, NEW op \in AllOps,
                      NEW k \in 1 .. Len(configs'[h][op])
               PROVE  configs'[h][op][k] <= made'
    BY DEF ListsMade
  <2>1. made' = made + n /\ made <= made + n
    BY <1>2, <1>3, RuleNumbers DEF CloneInto, Create
  <2>2. CASE h # j
    <3>1. configs'[h] = configs[h]
      BY <1>2, <1>3, <2>2 DEF CloneInto, TypeOK
    <3>2. configs[h][op][k] <= made /\ configs[h][op][k] \in RuleIds
      <4>1. configs[h][op] \in Seq(RuleIds) /\ k \in 1 .. Len(configs[h][op])
        BY <1>3, <3>1 DEF TypeOK
      <4> QED
        BY <4>1 DEF AccountInv, ListsMade
    <3> QED
      BY <1>3, <2>1, <3>1, <3>2, RuleNumbers DEF RuleIds
  <2>3. CASE h = j
    <3>1. configs[i][op] \in Seq(RuleIds)
      BY <1>3 DEF TypeOK
    <3>2. configs'[h][op] = [m \in DOMAIN configs[i][op] |-> id[<<op, m>>]]
      BY <1>2, <1>3, <2>3 DEF CloneInto, TypeOK
    <3>3. configs'[h][op] \in Seq(RuleIds)
      BY DEF TypeOK
    <3>4. k \in DOMAIN configs[i][op] /\ configs'[h][op][k] = id[<<op, k>>]
      BY <3>2, <3>3
    <3>5. <<op, k>> \in Places(i)
      BY <3>4 DEF Places
    <3>6. id[<<op, k>>] \in FreshIds(n)
      BY <3>5, CloneIds
    <3> QED
      BY <1>3, <2>1, <3>4, <3>6, RuleNumbers
  <2> QED
    BY <2>2, <2>3
<1> QED
  BY <1>3, <1>4, <1>5 DEF AccountInv

\* Every step leaves the books in order.
LEMMA NextAccountInv == AccountInv /\ [Next]_vars => AccountInv'
<1> SUFFICES ASSUME AccountInv, [Next]_vars PROVE AccountInv'
  OBVIOUS
<1>1. TypeOK /\ TypeOK'
  BY NextTypeOK DEF AccountInv
<1>2. CASE UNCHANGED vars
  BY <1>1, <1>2, AccountFrame
     DEF vars, ruleVars, lockVars, callVars, histVars, AccountInv, HeldOnReturn
<1>3. ASSUME NEW t \in Threads, CallCheck(t) \/ CallWriter(t) PROVE AccountInv'
  BY <1>1, <1>3, AccountFrame
     DEF CallCheck, CallWriter, Goto, ruleVars, AccountInv, HeldOnReturn, TypeOK
<1>4. ASSUME NEW t \in Threads, CloneForSub(t) PROVE AccountInv'
  BY <1>1, <1>4, AccountClone
<1>5. ASSUME NEW t \in Threads, EnterCheck(t) PROVE AccountInv'
  BY <1>1, <1>5, AccountFrame
     DEF EnterCheck, Goto, ruleVars, histVars, AccountInv, HeldOnReturn, TypeOK
<1>6. ASSUME NEW t \in Threads, ScanRule(t) PROVE AccountInv'
  BY <1>1, <1>6, AccountScan
<1>7. ASSUME NEW t \in Threads, ScanEnd(t) PROVE AccountInv'
  BY <1>1, <1>7, AccountFrame
     DEF ScanEnd, Goto, ruleVars, histVars, AccountInv, HeldOnReturn, TypeOK
<1>8. ASSUME NEW t \in Threads, ReturnCheck(t) PROVE AccountInv'
  BY <1>1, <1>8, AccountReturn
<1>9. ASSUME NEW t \in Threads, Announce(t) PROVE AccountInv'
  BY <1>1, <1>9, AccountFrame
     DEF Announce, Goto, ruleVars, histVars, AccountInv, HeldOnReturn, TypeOK
<1>10. ASSUME NEW t \in Threads, Write(t) PROVE AccountInv'
  BY <1>1, <1>10, AccountWrite
<1> QED
  BY <1>2, <1>3, <1>4, <1>5, <1>6, <1>7, <1>8, <1>9, <1>10 DEF Next, Invoke, Check

\* However the scans of many goroutines interleave, a rule gives its error to
\* exactly as many calls as its mode promises.
THEOREM FiresAsPromised == Spec => []FireAccounting
<1>1. AccountInv => FireAccounting
  BY DEF AccountInv
<1> QED
  BY <1>1, InitAccountInv, NextAccountInv, PTL DEF Spec
=============================================================================
