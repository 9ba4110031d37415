-------------------------- MODULE ErrorScanProofs --------------------------
(***************************************************************************)
(* More proofs about the injector, for any number of goroutines,           *)
(* injectors, operations, paths and rules: the order of a scan, and what   *)
(* separates the lists.                                                    *)
(***************************************************************************)
EXTENDS ErrorInjectorProofs

-----------------------------------------------------------------------------
(* FirstMatchWins: the lists that a goroutine scans stay as they are while *)
(* it holds the lock, and a rule it has gone past does not get an error to *)
(* give again.                                                             *)

Scanning(t) == pc[t] \in {"scan", "return"}

\* FirstMatchWins, of one goroutine in a scan.
FirstWins(t) ==
  /\ \A k \in 1 .. at[t] - 1 :
       /\ k <= Len(List(t))
       /\ Matches(List(t)[k], req[t].path) => Spent(List(t)[k])
  /\ pc[t] = "return" =>
       IF got[t] = NoRule
         THEN at[t] > Len(List(t))
         ELSE /\ at[t] <= Len(List(t))
              /\ List(t)[at[t]] = got[t]
              /\ Matches(got[t], req[t].path)

\* A scan holds the lock of an injector that exists, and starts at the front.
ScanInv(t) ==
  /\ Scanning(t) => t \in readers[req[t].inj] /\ FirstWins(t)
  /\ Scanning(t) \/ pc[t] = "rlock" => req[t].inj \in live
  /\ ~Scanning(t) => at[t] = 1

OrderInv == AccountInv /\ \A t \in Threads : ScanInv(t)

\* Nobody scans at the start.
LEMMA InitOrderInv == Init => OrderInv
BY InitAccountInv DEF Init, OrderInv, ScanInv, Scanning

\* What no step does to a rule that exists: change it, or give it back an error.
RulesKept == \A r \in RuleIds :
  r <= made => rules'[r] = rules[r] /\ (Spent(r) => Spent(r)')

\* A counter only goes up, so what is spent stays spent.
LEMMA CountHitKept ==
  ASSUME TypeOK, NEW r \in RuleIds, CountHit(r), UNCHANGED rules
  PROVE  RulesKept
<1> SUFFICES ASSUME NEW q \in RuleIds, Spent(q) PROVE Spent(q)'
  BY DEF RulesKept
<1>1. /\ hits[q] \in Nat /\ rules[q].afterN \in Nat /\ rules[q].mode \in Modes
  BY DEF TypeOK, RuleType
<1>2. hits'[q] \in {hits[q], hits[q] + 1} /\ (usedOnce[q] => usedOnce'[q])
  BY DEF CountHit, TypeOK
<1>3. CASE rules[q].mode \in {"Always", "Once"}
  BY <1>2, <1>3 DEF Spent
<1>4. CASE rules[q].mode = "AfterSuccesses"
  BY <1>1, <1>2, <1>4 DEF Spent
<1>5. CASE rules[q].mode = "Next"
  BY <1>1, <1>2, <1>5 DEF Spent
<1> QED
  BY <1>1, <1>3, <1>4, <1>5 DEF Modes

\* New rules leave those that exist alone.
LEMMA CreateKept ==
  ASSUME TypeOK, NEW n \in 0 .. MaxRules - made, NEW new, Create(n, new)
  PROVE  RulesKept
<1> SUFFICES ASSUME NEW r \in RuleIds, r <= made
             PROVE  rules'[r] = rules[r] /\ (Spent(r) => Spent(r)')
  BY DEF RulesKept
<1>1. r \notin FreshIds(n)
  BY RuleNumbers DEF RuleIds
<1>2. rules'[r] = rules[r] /\ usedOnce'[r] = usedOnce[r] /\ hits'[r] = hits[r]
  BY <1>1 DEF Create, TypeOK
<1> QED
  BY <1>2 DEF Spent

\* So does a step that changes no rule.
LEMMA SameRulesKept ==
  ASSUME UNCHANGED <<rules, usedOnce, hits>>
  PROVE  RulesKept
BY DEF RulesKept, Spent

\* What a scan has gone past stays as it found it.
LEMMA PastKept ==
  ASSUME OrderInv, NEW t \in Threads, Scanning(t), RulesKept,
         List(t)' = List(t), req'[t] = req[t]
  PROVE  /\ Len(List(t)) \in Nat /\ at[t] \in Nat \ {0}
         /\ \A k \in 1 .. Len(List(t)) : List(t)[k] \in RuleIds /\ List(t)[k] <= made
         /\ \A k \in 1 .. at[t] - 1 :
              /\ k <= Len(List(t))
              /\ (Matches(List(t)[k], req[t].path) => Spent(List(t)[k]))'
<1>1. TypeOK /\ ListsMade /\ FirstWins(t)
  BY DEF OrderInv, AccountInv, ScanInv
<1>2. req[t].inj \in Injectors /\ req[t].op \in AllOps /\ at[t] \in Nat \ {0}
  BY <1>1 DEF TypeOK
<1>3. Len(List(t)) \in Nat
  BY <1>1, <1>2, ScanListType, LenProperties DEF List
<1>4. \A k \in 1 .. Len(List(t)) : List(t)[k] \in RuleIds /\ List(t)[k] <= made
  BY <1>1, <1>2, ScanListMade DEF List
<1>5. ASSUME NEW k \in 1 .. at[t] - 1
      PROVE  /\ k <= Len(List(t))
             /\ (Matches(List(t)[k], req[t].path) => Spent(List(t)[k]))'
  <2>1. k <= Len(List(t)) /\ (Matches(List(t)[k], req[t].path) => Spent(List(t)[k]))
    BY <1>1 DEF FirstWins
  <2>2. k \in 1 .. Len(List(t))
    BY <1>2, <1>3, <2>1
  <2>3. PICK r \in RuleIds : r = List(t)[k] /\ r <= made
    BY <1>4, <2>2
  <2>4. rules'[r] = rules[r] /\ (Spent(r) => Spent(r)')
    BY <2>3 DEF RulesKept
  <2>5. Matches(r, req[t].path) => Spent(r)
    BY <2>1, <2>3
  <2>6. List(t)'[k] = r
    BY <2>3
  <2> QED
    BY <2>1, <2>4, <2>5, <2>6 DEF Matches, Spent
<1> QED
  BY <1>2, <1>3, <1>4, <1>5

\* A goroutine that is not in the step keeps what its scan has found out.
LEMMA OtherScanKept ==
  ASSUME OrderInv, NEW t \in Threads, RulesKept,
         pc'[t] = pc[t], req'[t] = req[t], at'[t] = at[t], got'[t] = got[t],
         t \in readers[req[t].inj] => t \in readers'[req[t].inj],
         live \subseteq live',
         Scanning(t) => configs'[req[t].inj] = configs[req[t].inj]
  PROVE  ScanInv(t)'
<1>1. CASE ~Scanning(t)
  BY <1>1 DEF OrderInv, ScanInv, Scanning
<1>2. CASE Scanning(t)
  <2>1. FirstWins(t) /\ t \in readers[req[t].inj] /\ req[t].inj \in live
    <3>1. ScanInv(t)
      BY DEF OrderInv
    <3> QED
      BY <1>2, <3>1 DEF ScanInv
  <2>2. List(t)' = List(t)
    <3>1. configs'[req'[t].inj] = configs[req[t].inj] /\ req'[t].op = req[t].op
      BY <1>2
    <3> QED
      BY <3>1, Zenon DEF List, ScanList
  <2>3. /\ Len(List(t)) \in Nat /\ at[t] \in Nat \ {0}
        /\ \A k \in 1 .. Len(List(t)) : List(t)[k] \in RuleIds /\ List(t)[k] <= made
        /\ \A k \in 1 .. at[t] - 1 :
             /\ k <= Len(List(t))
             /\ (Matches(List(t)[k], req[t].path) => Spent(List(t)[k]))'
    BY <1>2, <2>2, PastKept
  <2>4. ASSUME pc[t] = "return", got[t] = NoRule
        PROVE  at[t] > Len(List(t))
    BY <2>1, <2>4 DEF FirstWins
  <2>5. ASSUME pc[t] = "return", got[t] # NoRule
        PROVE  at[t] <= Len(List(t)) /\ List(t)[at[t]] = got[t]
               /\ Matches(got[t], req[t].path)'
    <3>1. at[t] <= Len(List(t)) /\ List(t)[at[t]] = got[t] /\ Matches(got[t], req[t].path)
      BY <2>1, <2>5 DEF FirstWins
    <3>2. got[t] \in RuleIds /\ got[t] <= made
      BY <2>3, <3>1
    <3>3. rules'[got[t]] = rules[got[t]]
      BY <3>2 DEF RulesKept
    <3> QED
      BY <3>1, <3>3 DEF Matches
  <2>6. FirstWins(t)'
    BY <2>2, <2>3, <2>4, <2>5 DEF FirstWins
  <2> QED
    BY <1>2, <2>1, <2>6 DEF ScanInv, Scanning
<1> QED
  BY <1>1, <1>2

\* A rule that was counted and had no error for the call has none to give.
LEMMA CountedSpent ==
  ASSUME TypeOK, NEW r \in RuleIds, CountHit(r), ~ShouldReturnError(r), UNCHANGED rules
  PROVE  Spent(r)'
<1>1. /\ usedOnce'[r] = IF rules[r].mode = "Once" THEN TRUE ELSE usedOnce[r]
      /\ hits'[r] = IF rules[r].mode \in {"AfterSuccesses", "Next"}
                      THEN hits[r] + 1 ELSE hits[r]
  BY DEF CountHit, TypeOK
<1>2. rules[r].mode \in Modes /\ rules[r].afterN \in Nat /\ hits[r] \in Nat
  BY DEF TypeOK, RuleType
<1>3. CASE rules[r].mode \in {"Once", "Always"}
  BY <1>1, <1>3 DEF Spent, ShouldReturnError
<1>4. CASE rules[r].mode = "AfterSuccesses"
  BY <1>1, <1>2, <1>4 DEF Spent
<1>5. CASE rules[r].mode = "Next"
  BY <1>1, <1>2, <1>5 DEF Spent, ShouldReturnError
<1> QED
  BY <1>2, <1>3, <1>4, <1>5 DEF Modes

\* What an iteration of a scan does to the rules.
LEMMA ScanRuleKept ==
  ASSUME TypeOK, NEW t \in Threads, ScanRule(t)
  PROVE  RulesKept
<1>1. List(t)[at[t]] \in RuleIds
  BY ScanPosition
<1>2. UNCHANGED rules
  BY DEF ScanRule
<1>3. CASE CountHit(List(t)[at[t]])
  BY <1>1, <1>2, <1>3, CountHitKept
<1>4. CASE UNCHANGED <<usedOnce, hits>>
  BY <1>2, <1>4, SameRulesKept
<1> QED
  BY <1>3, <1>4 DEF ScanRule

\* An iteration of a scan, for the goroutine that makes it.
LEMMA OwnScan ==
  ASSUME OrderInv, NEW t \in Threads, ScanRule(t)
  PROVE  ScanInv(t)'
<1>1. /\ TypeOK /\ pc[t] = "scan" /\ Scanning(t)
      /\ t \in readers[req[t].inj] /\ req[t].inj \in live
  BY DEF OrderInv, AccountInv, ScanRule, ScanInv, Scanning
<1>2. UNCHANGED <<rules, configs, live, readers, req>> /\ List(t)' = List(t)
  BY DEF ScanRule, lockVars, List, ScanList
<1>3. RulesKept
  BY <1>1, ScanRuleKept
<1>4. /\ Len(List(t)) \in Nat /\ at[t] \in Nat \ {0}
      /\ \A k \in 1 .. at[t] - 1 :
           /\ k <= Len(List(t))
           /\ (Matches(List(t)[k], req[t].path) => Spent(List(t)[k]))'
  BY <1>1, <1>2, <1>3, PastKept
<1>5. PICK r \in RuleIds : r = List(t)[at[t]]
  BY <1>1, ScanPosition
<1>6. at[t] <= Len(List(t))
  BY DEF ScanRule
<1>7. CASE Matches(r, req[t].path) /\ ShouldReturnError(r)
  <2>1. pc'[t] = "return" /\ got'[t] = r /\ at'[t] = at[t]
    BY <1>1, <1>5, <1>7 DEF ScanRule, Goto, TypeOK
  <2>2. Matches(r, req[t].path)' /\ r # NoRule
    BY <1>2, <1>7, InjectorAssumption DEF Matches
  <2>3. Matches(got[t], req[t].path)'
    BY <2>1, <2>2 DEF Matches
  <2>4. FirstWins(t)'
    BY <1>2, <1>4, <1>5, <1>6, <2>1, <2>2, <2>3 DEF FirstWins
  <2> QED
    BY <1>1, <1>2, <2>1, <2>4 DEF ScanInv, Scanning
<1>8. ASSUME Matches(r, req[t].path) => Spent(r)',
             pc' = pc, at' = [at EXCEPT ![t] = @ + 1]
      PROVE  ScanInv(t)'
  <2>1. at'[t] = at[t] + 1
    BY <1>1, <1>8 DEF TypeOK
  <2>2. ASSUME NEW k \in 1 .. at'[t] - 1
        PROVE  k <= Len(List(t)) /\ (Matches(List(t)[k], req[t].path) => Spent(List(t)[k]))'
    <3>1. CASE k = at[t]
      <4>1. List(t)'[k] = r /\ k <= Len(List(t))
        BY <1>2, <1>5, <1>6, <3>1
      <4> QED
        BY <1>2, <1>8, <4>1 DEF Matches, Spent
    <3>2. CASE k # at[t]
      BY <1>4, <2>1, <3>2
    <3> QED
      BY <3>1, <3>2
  <2>3. FirstWins(t)'
    BY <1>1, <1>2, <1>8, <2>2 DEF FirstWins
  <2> QED
    BY <1>1, <1>2, <1>8, <2>3 DEF ScanInv, Scanning
<1>9. CASE ~Matches(r, req[t].path)
  BY <1>5, <1>8, <1>9 DEF ScanRule
<1>10. CASE Matches(r, req[t].path) /\ ~ShouldReturnError(r)
  <2>1. CountHit(r) /\ pc' = pc /\ at' = [at EXCEPT ![t] = @ + 1]
    BY <1>5, <1>10 DEF ScanRule
  <2>2. Spent(r)'
    BY <1>1, <1>2, <1>10, <2>1, CountedSpent
  <2> QED
    BY <1>8, <2>1, <2>2
<1> QED
  BY <1>7, <1>9, <1>10

\* The other steps of a check, for the goroutine that makes them.
LEMMA OwnCheck ==
  ASSUME OrderInv, NEW t \in Threads, EnterCheck(t) \/ ScanEnd(t) \/ ReturnCheck(t)
  PROVE  ScanInv(t)'
<1>1. TypeOK /\ HeldOnReturn /\ ScanInv(t)
  BY DEF OrderInv, AccountInv
<1>2. CASE EnterCheck(t)
  <2>1. /\ at'[t] = 1 /\ pc'[t] = "scan" /\ req'[t].inj \in live'
        /\ t \in readers'[req'[t].inj]
    BY <1>1, <1>2 DEF EnterCheck, RLock, Goto, ScanInv, Scanning, TypeOK
  <2>2. FirstWins(t)'
    BY <2>1 DEF FirstWins
  <2> QED
    BY <2>1, <2>2 DEF ScanInv, Scanning
<1>3. CASE ScanEnd(t)
  <2>1. /\ pc[t] = "scan" /\ pc'[t] = "return" /\ got[t] = NoRule
        /\ at[t] > Len(List(t)) /\ List(t)' = List(t)
        /\ UNCHANGED <<rules, usedOnce, hits, live, readers, req, at, got>>
    BY <1>1, <1>3 DEF ScanEnd, Goto, HeldOnReturn, TypeOK, ruleVars, lockVars, List, ScanList
  <2>2. FirstWins(t) /\ t \in readers[req[t].inj] /\ req[t].inj \in live
    BY <1>1, <2>1 DEF ScanInv, Scanning
  <2>3. FirstWins(t)'
    BY <2>1, <2>2 DEF FirstWins, Matches, Spent
  <2> QED
    BY <2>1, <2>2, <2>3 DEF ScanInv, Scanning
<1>4. CASE ReturnCheck(t)
  BY <1>1, <1>4 DEF ReturnCheck, Goto, ScanInv, Scanning, TypeOK
<1> QED
  BY <1>2, <1>3, <1>4

\* The steps of a writer leave the rules alone or create some.
LEMMA WriteRulesKept ==
  ASSUME TypeOK, NEW t \in Threads, Write(t)
  PROVE  RulesKept
<1>1. CASE AddNew(t)
  <2>1. 1 \in 0 .. MaxRules - made
    BY <1>1, RuleNumbers DEF AddNew
  <2>2. \E new : Create(1, new)
    BY <1>1 DEF AddNew
  <2> QED
    BY <2>1, <2>2, CreateKept
<1>2. CASE AddForAllOps(t)
  <2>1. \E n \in 0 .. MaxRules - made : \E new : Create(n, new)
    BY <1>2 DEF AddForAllOps
  <2> QED
    BY <2>1, CreateKept
<1>3. CASE AddShared(t) \/ Clear(t)
  BY <1>3, SameRulesKept DEF AddShared, Clear, ruleVars
<1> QED
  BY <1>1, <1>2, <1>3 DEF Write

\* Every step leaves the scans in order: a writer gets in when nobody scans, a
\* clone is an injector nobody has yet.
LEMMA NextOrderInv == OrderInv /\ [Next]_vars => OrderInv'
<1> SUFFICES ASSUME OrderInv, [Next]_vars PROVE OrderInv'
  OBVIOUS
<1>1. TypeOK /\ AccountInv' /\ \A u \in Threads : ScanInv(u)
  BY NextAccountInv DEF OrderInv, AccountInv
<1> SUFFICES ASSUME NEW u \in Threads PROVE ScanInv(u)'
  BY <1>1 DEF OrderInv
<1>2. CASE UNCHANGED vars
  <2>1. RulesKept
    BY <1>2, SameRulesKept DEF vars, ruleVars
  <2> QED
    BY <1>2, <2>1, OtherScanKept DEF vars, lockVars, callVars
<1>3. ASSUME NEW t \in Threads, CallCheck(t) \/ CallWriter(t) PROVE ScanInv(u)'
  <2>1. UNCHANGED <<rules, usedOnce, hits, configs, live, readers, at, got>>
    BY <1>3 DEF CallCheck, CallWriter, ruleVars, lockVars
  <2>2. CASE u = t
    <3>1. at'[t] = 1
      BY <1>1, <1>3, <2>1 DEF CallCheck, CallWriter, ScanInv, Scanning
    <3>2. pc'[t] \in {"rlock", "lock"} /\ req'[t].inj \in live'
      BY <1>1, <1>3, <2>1 DEF CallCheck, CallWriter, Goto, Request, TypeOK
    <3> QED
      BY <2>2, <3>1, <3>2 DEF ScanInv, Scanning
  <2>3. CASE u # t
    <3>1. pc'[u] = pc[u] /\ req'[u] = req[u]
      BY <1>1, <1>3, <2>3 DEF CallCheck, CallWriter, Goto, TypeOK
    <3> QED
      BY <2>1, <3>1, SameRulesKept, OtherScanKept
  <2> QED
    BY <2>2, <2>3
<1>4. ASSUME NEW t \in Threads, CloneForSub(t) PROVE ScanInv(u)'
  <2>1. PICK i \in live, j \in Injectors \ live, n \in 0 .. MaxRules - made :
          \E place \in Bijection(FreshIds(n), Places(i)) : CloneInto(t, i, j, n, place)
    BY <1>4 DEF CloneForSub
  <2>2. PICK place \in Bijection(FreshIds(n), Places(i)) : CloneInto(t, i, j, n, place)
    BY <2>1
  <2>3. RulesKept
    <3>1. \E new : Create(n, new)
      BY <2>2 DEF CloneInto
    <3> QED
      BY <1>1, <3>1, CreateKept
  <2>4. \A h \in Injectors \ {j} : configs'[h] = configs[h]
    BY <1>1, <2>2 DEF CloneInto, TypeOK
  <2>5. Scanning(u) => req[u].inj # j /\ req[u].inj \in Injectors
    BY <1>1, <2>1 DEF ScanInv, TypeOK
  <2>6. live \subseteq live' /\ UNCHANGED <<readers, pc, req, at, got>>
    BY <2>2 DEF CloneInto, lockVars, callVars
  <2> QED
    BY <2>3, <2>4, <2>5, <2>6, OtherScanKept
<1>5. ASSUME NEW t \in Threads, Check(t) PROVE ScanInv(u)'
  <2>1. CASE u = t
    BY <1>5, <2>1, OwnScan, OwnCheck DEF Check
  <2>2. CASE u # t
    <3>1. RulesKept
      BY <1>1, <1>5, ScanRuleKept, SameRulesKept
         DEF Check, EnterCheck, ScanEnd, ReturnCheck, ruleVars
    <3>2. UNCHANGED <<configs, live>>
      BY <1>5 DEF Check, EnterCheck, ScanRule, ScanEnd, ReturnCheck
    <3>3. pc'[u] = pc[u] /\ req'[u] = req[u] /\ at'[u] = at[u] /\ got'[u] = got[u]
      BY <1>1, <1>5, <2>2 DEF Check, EnterCheck, ScanRule, ScanEnd, ReturnCheck, Goto, TypeOK
    <3>4. \/ UNCHANGED readers
          \/ readers' = [readers EXCEPT ![req[t].inj] = @ \cup {t}]
          \/ readers' = [readers EXCEPT ![req[t].inj] = @ \ {t}]
      BY <1>5 DEF Check, EnterCheck, ScanRule, ScanEnd, ReturnCheck, RLock, RUnlock, lockVars
    <3>5. req[u].inj \in Injectors /\ req[t].inj \in Injectors
      BY <1>1 DEF TypeOK
    <3>6. u \in readers[req[u].inj] => u \in readers'[req[u].inj]
      <4>1. readers \in [Injectors -> SUBSET Threads]
        BY <1>1 DEF TypeOK
      <4>2. PICK h \in Injectors, g \in Injectors : h = req[u].inj /\ g = req[t].inj
        BY <3>5
      <4>3. u \in readers[h] => u \in readers'[h]
        BY <2>2, <3>4, <4>1, <4>2
      <4> QED
        BY <4>2, <4>3
    <3> QED
      BY <3>1, <3>2, <3>3, <3>6, OtherScanKept
  <2> QED
    BY <2>1, <2>2
<1>6. ASSUME NEW t \in Threads, Announce(t) PROVE ScanInv(u)'
  <2>1. UNCHANGED <<rules, usedOnce, hits, configs, live, readers, req, at, got>>
    BY <1>6 DEF Announce, AnnounceLock, ruleVars
  <2>2. CASE u = t
    BY <1>1, <1>6, <2>1, <2>2 DEF Announce, Goto, ScanInv, Scanning, TypeOK
  <2>3. CASE u # t
    <3>1. pc'[u] = pc[u]
      BY <1>1, <1>6, <2>3 DEF Announce, Goto, TypeOK
    <3> QED
      BY <2>1, <3>1, SameRulesKept, OtherScanKept
  <2> QED
    BY <2>2, <2>3
<1>7. ASSUME NEW t \in Threads, Write(t) PROVE ScanInv(u)'
  <2>1. WriterReturns(t)
    BY <1>7 DEF Write, AddNew, AddShared, AddForAllOps, Clear
  <2>2. /\ pc[t] = "locked" /\ readers[req[t].inj] = {} /\ pc' = [pc EXCEPT ![t] = "idle"]
        /\ UNCHANGED <<live, readers, at, got>>
    BY <2>1 DEF WriterReturns, Locked, Unlock, Goto
  <2>3. CASE u = t
    BY <1>1, <2>2, <2>3 DEF ScanInv, Scanning, TypeOK
  <2>4. CASE u # t
    <3>1. pc'[u] = pc[u] /\ req'[u] = req[u]
      BY <1>1, <2>1, <2>2, <2>4 DEF WriterReturns, TypeOK
    <3>2. Scanning(u) => req[u].inj # req[t].inj /\ req[u].inj \in Injectors
      BY <1>1, <2>2 DEF ScanInv, TypeOK
    <3>3. \A h \in Injectors \ {req[t].inj} : configs'[h] = configs[h]
      BY <1>1, <1>7 DEF Write, AddNew, AddShared, AddForAllOps, Clear, TypeOK
    <3>4. RulesKept
      BY <1>1, <1>7, WriteRulesKept
    <3> QED
      BY <2>2, <3>1, <3>2, <3>3, <3>4, OtherScanKept
  <2> QED
    BY <2>3, <2>4
<1> QED
  BY <1>2, <1>3, <1>4, <1>5, <1>6, <1>7 DEF Next, Invoke

\* However writers, clones and other scans interleave with it, a call returns
\* the error of the first rule of its list that has one to give.
THEOREM FirstRuleWins == Spec => []FirstMatchWins
<1>1. OrderInv => FirstMatchWins
  BY DEF OrderInv, ScanInv, Scanning, FirstWins, FirstMatchWins
<1> QED
  BY <1>1, InitOrderInv, NextOrderInv, PTL DEF Spec

-----------------------------------------------------------------------------
(* PlacesDisjoint: a rule enters the lists when it is created, so it       *)
(* differs from all that is there; what is added again is known to be      *)
(* shared.                                                                 *)

\* PlacesDisjoint, place by place.
Apart ==
  \A i, j \in Injectors, o, w \in AllOps :
    \A k \in 1 .. Len(configs[i][o]), m \in 1 .. Len(configs[j][w]) :
      /\ configs[i][o][k] = configs[j][w][m]
      /\ configs[i][o][k] \notin shared
      => i = j /\ o = w /\ k = m

ApartInv == AccountInv /\ Apart

\* The lists are empty at the start.
LEMMA InitApart == Init => ApartInv
BY InitAccountInv, EmptySeq DEF Init, ApartInv, Apart

\* Apart for one pair of places.
LEMMA ApartAt ==
  ASSUME Apart, NEW i \in Injectors, NEW j \in Injectors, NEW o \in AllOps, NEW w \in AllOps,
         NEW k \in 1 .. Len(configs[i][o]), NEW m \in 1 .. Len(configs[j][w]),
         configs[i][o][k] = configs[j][w][m], configs[i][o][k] \notin shared
  PROVE  i = j /\ o = w /\ k = m
<1>1. \A x \in 1 .. Len(configs[i][o]), y \in 1 .. Len(configs[j][w]) :
        configs[i][o][x] = configs[j][w][y] /\ configs[i][o][x] \notin shared
        => i = j /\ o = w /\ x = y
  BY DEF Apart
<1> QED
  BY <1>1

\* The property from its form place by place.
LEMMA ApartPlaces ==
  ASSUME ApartInv
  PROVE  PlacesDisjoint
<1> SUFFICES ASSUME NEW i \in Injectors, NEW j \in Injectors,
                    NEW p \in Places(i), NEW q \in Places(j),
                    configs[i][p[1]][p[2]] = configs[j][q[1]][q[2]],
                    configs[i][p[1]][p[2]] \notin shared
             PROVE  i = j /\ p = q
  BY DEF PlacesDisjoint
<1>1. TypeOK
  BY DEF ApartInv, AccountInv
<1>2. /\ p[1] \in AllOps /\ p[2] \in 1 .. Len(configs[i][p[1]])
      /\ q[1] \in AllOps /\ q[2] \in 1 .. Len(configs[j][q[1]])
  BY <1>1, PlacesType
<1>3. Apart
  BY DEF ApartInv
<1>4. p = <<p[1], p[2]>> /\ q = <<q[1], q[2]>>
  BY DEF Places
<1>5. i = j /\ p[1] = q[1] /\ p[2] = q[2]
  <2>1. PICK o \in AllOps, w \in AllOps : o = p[1] /\ w = q[1]
    BY <1>2
  <2>2. PICK k \in 1 .. Len(configs[i][o]), m \in 1 .. Len(configs[j][w]) :
          k = p[2] /\ m = q[2]
    BY <1>2, <2>1
  <2>3. configs[i][o][k] = configs[j][w][m] /\ configs[i][o][k] \notin shared
    BY <2>1, <2>2
  <2>4. i = j /\ o = w /\ k = m
    BY <1>3, <2>3, ApartAt
  <2> QED
    BY <2>1, <2>2, <2>4
<1> QED
  BY <1>4, <1>5

\* A step that leaves the lists alone.
LEMMA ApartFrame ==
  ASSUME Apart, UNCHANGED <<configs, shared>>
  PROVE  Apart'
BY DEF Apart

\* Rules appended to lists of one injector keep the places apart when each of
\* them is new to the lists, or known to be shared.
LEMMA ApartAppend ==
  ASSUME ApartInv, NEW i \in Injectors, NEW S \in SUBSET AllOps, NEW id,
         shared \subseteq shared',
         \A h \in Injectors \ {i} : configs'[h] = configs[h],
         \A op \in AllOps : configs'[i][op] =
           IF op \in S THEN Append(configs[i][op], id[op]) ELSE configs[i][op],
         \A op \in S : id[op] \in RuleIds /\ (id[op] > made \/ id[op] \in shared'),
         \A op, w \in S : id[op] = id[w] /\ id[op] \notin shared' => op = w
  PROVE  Apart'
<1>1. TypeOK /\ ListsMade /\ Apart
  BY DEF ApartInv, AccountInv
<1>2. ASSUME NEW h \in Injectors, NEW o \in AllOps, NEW k \in 1 .. Len(configs'[h][o])
      PROVE  \/ /\ k \in 1 .. Len(configs[h][o])
                /\ configs'[h][o][k] = configs[h][o][k]
                /\ configs'[h][o][k] \in RuleIds /\ configs'[h][o][k] <= made
             \/ /\ h = i /\ o \in S /\ k = Len(configs[h][o]) + 1
                /\ configs'[h][o][k] = id[o]
  <2>1. configs[h][o] \in Seq(RuleIds) /\ Len(configs[h][o]) \in Nat
    BY <1>1, LenProperties DEF TypeOK
  <2>2. CASE configs'[h][o] = configs[h][o]
    BY <1>1, <2>1, <2>2 DEF ListsMade
  <2>3. CASE configs'[h][o] # configs[h][o]
    <3>1. h = i /\ o \in S /\ configs'[h][o] = Append(configs[h][o], id[o])
      BY <2>3
    <3>2. /\ Len(configs'[h][o]) = Len(configs[h][o]) + 1
          /\ configs'[h][o][k] =
               IF k <= Len(configs[h][o]) THEN configs[h][o][k] ELSE id[o]
      BY <2>1, <3>1, AppendProperties
    <3>3. CASE k \in 1 .. Len(configs[h][o])
      BY <1>1, <2>1, <3>2, <3>3 DEF ListsMade
    <3>4. CASE k \notin 1 .. Len(configs[h][o])
      BY <2>1, <3>1, <3>2, <3>4
    <3> QED
      BY <3>3, <3>4
  <2> QED
    BY <2>2, <2>3
<1> SUFFICES ASSUME NEW h \in Injectors, NEW j \in Injectors,
                    NEW o \in AllOps, NEW w \in AllOps,
                    NEW k \in 1 .. Len(configs'[h][o]),
                    NEW m \in 1 .. Len(configs'[j][w]),
                    configs'[h][o][k] = configs'[j][w][m],
                    configs'[h][o][k] \notin shared'
             PROVE  h = j /\ o = w /\ k = m
  BY DEF Apart
<1>3. made \in Nat
  BY <1>1, RuleNumbers
<1>4. CASE configs'[h][o][k] <= made
  <2>1. configs'[h][o][k] \in RuleIds
    BY <1>2
  <2>2. /\ k \in 1 .. Len(configs[h][o]) /\ configs'[h][o][k] = configs[h][o][k]
        /\ m \in 1 .. Len(configs[j][w]) /\ configs'[j][w][m] = configs[j][w][m]
    BY <1>2, <1>3, <1>4, <2>1 DEF RuleIds
  <2>3. configs[h][o][k] = configs[j][w][m] /\ configs[h][o][k] \notin shared
    BY <2>2
  <2> QED
    BY <1>1, <2>2, <2>3, ApartAt
<1>5. CASE ~(configs'[h][o][k] <= made)
  <2>1. /\ h = i /\ o \in S /\ k = Len(configs[h][o]) + 1 /\ configs'[h][o][k] = id[o]
        /\ j = i /\ w \in S /\ m = Len(configs[j][w]) + 1 /\ configs'[j][w][m] = id[w]
    BY <1>2, <1>5
  <2> QED
    BY <2>1
<1> QED
  BY <1>4, <1>5

\* One list gets a rule, as above.
LEMMA ApartOne ==
  ASSUME ApartInv, NEW i \in Injectors, NEW op \in AllOps, NEW r \in RuleIds,
         shared \subseteq shared', r > made \/ r \in shared',
         configs' = [configs EXCEPT ![i][op] = Append(@, r)]
  PROVE  Apart'
<1>1. PICK S \in SUBSET AllOps : S = {op}
  OBVIOUS
<1>2. PICK id : id = [o \in S |-> r]
  OBVIOUS
<1>3. TypeOK
  BY DEF ApartInv, AccountInv
<1>4. \A h \in Injectors \ {i} : configs'[h] = configs[h]
  OBVIOUS
<1>5. \A o \in AllOps : configs'[i][o] =
        IF o \in S THEN Append(configs[i][o], id[o]) ELSE configs[i][o]
  BY <1>1, <1>2, <1>3 DEF TypeOK
<1>6. \A o \in S : id[o] \in RuleIds /\ (id[o] > made \/ id[o] \in shared')
  BY <1>2
<1>7. \A o, w \in S : id[o] = id[w] /\ id[o] \notin shared' => o = w
  BY <1>1
<1> QED
  BY <1>4, <1>5, <1>6, <1>7, ApartAppend

\* The steps of the writers.
LEMMA ApartWrite ==
  ASSUME ApartInv, NEW t \in Threads, Write(t)
  PROVE  Apart'
<1>1. TypeOK /\ req[t].inj \in Injectors
  BY DEF ApartInv, AccountInv, TypeOK
<1>2. CASE AddNew(t)
  <2>1. PICK op \in AllOps : configs' = [configs EXCEPT ![req[t].inj][op] = Append(@, made + 1)]
    BY <1>2 DEF AddNew
  <2>2. made + 1 \in RuleIds /\ made + 1 > made
    BY <1>1, <1>2, RuleNumbers DEF AddNew, RuleIds
  <2>3. shared' = shared
    BY <1>2 DEF AddNew
  <2> QED
    BY <1>1, <2>1, <2>2, <2>3, ApartOne
<1>3. CASE AddShared(t)
  <2>1. PICK op \in AllOps, r \in 1 .. made :
          /\ configs' = [configs EXCEPT ![req[t].inj][op] = Append(@, r)]
          /\ shared' = shared \cup {r}
    BY <1>3 DEF AddShared
  <2>2. r \in RuleIds
    BY <1>1, RuleNumbers
  <2> QED
    BY <1>1, <2>1, <2>2, ApartOne
<1>4. CASE AddForAllOps(t)
  <2>1. PICK n \in 0 .. MaxRules - made : \E id \in Bijection(Ops, FreshIds(n)) :
          configs' = [configs EXCEPT ![req[t].inj] =
            [op \in AllOps |-> IF op \in Ops THEN Append(@[op], id[op]) ELSE @[op]]]
    BY <1>4 DEF AddForAllOps
  <2>2. PICK id \in Bijection(Ops, FreshIds(n)) :
          configs' = [configs EXCEPT ![req[t].inj] =
            [op \in AllOps |-> IF op \in Ops THEN Append(@[op], id[op]) ELSE @[op]]]
    BY <2>1
  <2>3. PICK i \in Injectors : i = req[t].inj
    BY <1>1
  <2>4. PICK S \in SUBSET AllOps : S = Ops
    BY DEF AllOps
  <2>5. shared \subseteq shared'
    BY <1>4 DEF AddForAllOps
  <2>6. \A h \in Injectors \ {i} : configs'[h] = configs[h]
    BY <2>2, <2>3
  <2>7. \A op \in AllOps : configs'[i][op] =
          IF op \in S THEN Append(configs[i][op], id[op]) ELSE configs[i][op]
    BY <1>1, <2>2, <2>3, <2>4 DEF TypeOK
  <2>8. \A op \in S : id[op] \in RuleIds /\ (id[op] > made \/ id[op] \in shared')
    BY <1>1, <2>4, RuleNumbers DEF Bijection, Injection
  <2>9. \A op, w \in S : id[op] = id[w] /\ id[op] \notin shared' => op = w
    BY <2>4 DEF Bijection, Injection, IsInjective
  <2> QED
    BY <2>5, <2>6, <2>7, <2>8, <2>9, ApartAppend
<1>5. CASE Clear(t)
  <2>1. /\ \A h \in Injectors \ {req[t].inj} : configs'[h] = configs[h]
        /\ \A op \in AllOps : configs'[req[t].inj][op] = <<>>
        /\ shared' = shared
    BY <1>1, <1>5 DEF Clear, TypeOK
  <2>2. ASSUME NEW i \in Injectors, NEW o \in AllOps, NEW k \in 1 .. Len(configs'[i][o])
        PROVE  configs'[i][o] = configs[i][o]
    <3>1. CASE i = req[t].inj
      BY <2>1, <3>1, EmptySeq
    <3> QED
      BY <2>1, <3>1
  <2>3. SUFFICES
          ASSUME NEW i \in Injectors, NEW j \in Injectors, NEW o \in AllOps, NEW w \in AllOps
          PROVE  \A k \in 1 .. Len(configs'[i][o]), m \in 1 .. Len(configs'[j][w]) :
                   /\ configs'[i][o][k] = configs'[j][w][m]
                   /\ configs'[i][o][k] \notin shared'
                   => i = j /\ o = w /\ k = m
    BY DEF Apart
  <2> TAKE k \in 1 .. Len(configs'[i][o]), m \in 1 .. Len(configs'[j][w])
  <2> HAVE configs'[i][o][k] = configs'[j][w][m] /\ configs'[i][o][k] \notin shared'
  <2>4. configs'[i][o] = configs[i][o] /\ configs'[j][w] = configs[j][w]
    BY <2>2
  <2>5. /\ Apart
        /\ k \in 1 .. Len(configs[i][o]) /\ m \in 1 .. Len(configs[j][w])
        /\ configs[i][o][k] = configs[j][w][m] /\ configs[i][o][k] \notin shared
    BY <2>1, <2>4 DEF ApartInv
  <2> QED
    BY <2>5, ApartAt
<1>6. AddNew(t) \/ AddShared(t) \/ AddForAllOps(t) \/ Clear(t)
  BY DEF Write
<1> QED
  BY <1>2, <1>3, <1>4, <1>5, <1>6

\* Every place of a clone gets a rule of its own.
LEMMA ApartClone ==
  ASSUME ApartInv, TypeOK', NEW t \in Threads, CloneForSub(t)
  PROVE  Apart'
<1>1. PICK i \in live, g \in Injectors \ live, n \in 0 .. MaxRules - made :
        \E place \in Bijection(FreshIds(n), Places(i)) : CloneInto(t, i, g, n, place)
  BY DEF CloneForSub
<1>2. PICK place \in Bijection(FreshIds(n), Places(i)) : CloneInto(t, i, g, n, place)
  BY <1>1
<1> DEFINE id == Inverse(place, FreshIds(n), Places(i))
<1>3. /\ TypeOK /\ ListsMade /\ Apart /\ i \in Injectors /\ shared' = shared
      /\ \A h \in Injectors \ {g} : configs'[h] = configs[h]
      /\ \A o \in AllOps : configs'[g][o] = [m \in DOMAIN configs[i][o] |-> id[<<o, m>>]]
  BY <1>2 DEF ApartInv, AccountInv, TypeOK, CloneInto
<1>4. ASSUME NEW o \in AllOps, NEW k \in 1 .. Len(configs'[g][o])
      PROVE  /\ <<o, k>> \in Places(i) /\ configs'[g][o][k] = id[<<o, k>>]
             /\ place[configs'[g][o][k]] = <<o, k>>
             /\ configs'[g][o][k] \in RuleIds /\ configs'[g][o][k] > made
  <2>1. configs[i][o] \in Seq(RuleIds) /\ configs'[g][o] \in Seq(RuleIds)
    BY <1>3 DEF TypeOK
  <2> DEFINE new == [m \in DOMAIN configs[i][o] |-> id[<<o, m>>]]
  <2>5. configs'[g][o] = new
    BY <1>3
  <2>6. DOMAIN configs'[g][o] = DOMAIN configs[i][o] /\ k \in DOMAIN configs'[g][o]
    <3>1. k \in DOMAIN configs'[g][o]
      BY <2>1
    <3>2. DOMAIN new = DOMAIN configs[i][o]
      OBVIOUS
    <3> HIDE DEF new
    <3> QED
      BY <2>5, <3>1, <3>2
  <2>2. k \in DOMAIN configs[i][o] /\ configs'[g][o][k] = id[<<o, k>>]
    BY <2>5, <2>6
  <2>3. <<o, k>> \in Places(i)
    BY <2>2 DEF Places
  <2>4. id[<<o, k>>] \in FreshIds(n) /\ place[id[<<o, k>>]] = <<o, k>>
    BY <2>3, CloneIds
  <2> QED
    BY <1>3, <2>2, <2>3, <2>4, RuleNumbers
<1>5. ASSUME NEW h \in Injectors \ {g}, NEW o \in AllOps, NEW k \in 1 .. Len(configs'[h][o])
      PROVE  /\ k \in 1 .. Len(configs[h][o]) /\ configs'[h][o][k] = configs[h][o][k]
             /\ configs'[h][o][k] \in RuleIds /\ configs'[h][o][k] <= made
  <2>1. configs[h][o] \in Seq(RuleIds) /\ configs'[h][o] = configs[h][o]
    BY <1>3 DEF TypeOK
  <2> QED
    BY <1>3, <2>1 DEF ListsMade
<1> HIDE DEF id
<1> SUFFICES ASSUME NEW h \in Injectors, NEW j \in Injectors,
                    NEW o \in AllOps, NEW w \in AllOps,
                    NEW k \in 1 .. Len(configs'[h][o]),
                    NEW m \in 1 .. Len(configs'[j][w]),
                    configs'[h][o][k] = configs'[j][w][m],
                    configs'[h][o][k] \notin shared'
             PROVE  h = j /\ o = w /\ k = m
  BY DEF Apart
<1>6. made \in Nat
  BY <1>3, RuleNumbers
<1>7. CASE h = g /\ j = g
  <2>1. place[configs'[h][o][k]] = <<o, k>> /\ place[configs'[j][w][m]] = <<w, m>>
    BY <1>4, <1>7
  <2> QED
    BY <1>7, <2>1
<1>8. CASE h # g /\ j # g
  <2>1. /\ k \in 1 .. Len(configs[h][o]) /\ configs'[h][o][k] = configs[h][o][k]
        /\ m \in 1 .. Len(configs[j][w]) /\ configs'[j][w][m] = configs[j][w][m]
    BY <1>5, <1>8
  <2>2. configs[h][o][k] = configs[j][w][m] /\ configs[h][o][k] \notin shared
    BY <1>3, <2>1
  <2> QED
    BY <1>3, <2>1, <2>2, ApartAt
<1>9. CASE h = g /\ j # g
  <2>1. configs'[h][o][k] \in RuleIds /\ configs'[h][o][k] > made
    BY <1>4, <1>9
  <2>2. configs'[j][w][m] <= made
    BY <1>5, <1>9
  <2> QED
    BY <1>6, <2>1, <2>2 DEF RuleIds
<1>10. CASE h # g /\ j = g
  <2>1. configs'[j][w][m] \in RuleIds /\ configs'[j][w][m] > made
    BY <1>4, <1>10
  <2>2. configs'[h][o][k] <= made
    BY <1>5, <1>10
  <2> QED
    BY <1>6, <2>1, <2>2 DEF RuleIds
<1> QED
  BY <1>7, <1>8, <1>9, <1>10

\* Every step keeps the places apart.
LEMMA NextApart == ApartInv /\ [Next]_vars => ApartInv'
<1> SUFFICES ASSUME ApartInv, [Next]_vars PROVE Apart'
  BY NextAccountInv DEF ApartInv
<1>1. TypeOK' /\ Apart
  BY NextTypeOK DEF ApartInv, AccountInv
<1>2. CASE UNCHANGED vars
  BY <1>1, <1>2, ApartFrame DEF vars, histVars
<1>3. ASSUME NEW t \in Threads, CallCheck(t) \/ CallWriter(t) PROVE Apart'
  BY <1>1, <1>3, ApartFrame DEF CallCheck, CallWriter
<1>4. ASSUME NEW t \in Threads, CloneForSub(t) PROVE Apart'
  BY <1>1, <1>4, ApartClone
<1>5. ASSUME NEW t \in Threads, Check(t) PROVE Apart'
  BY <1>1, <1>5, ApartFrame
     DEF Check, EnterCheck, ScanRule, ScanEnd, ReturnCheck, histVars
<1>6. ASSUME NEW t \in Threads, Announce(t) PROVE Apart'
  BY <1>1, <1>6, ApartFrame DEF Announce, histVars
<1>7. ASSUME NEW t \in Threads, Write(t) PROVE Apart'
  BY <1>7, ApartWrite
<1> QED
  BY <1>2, <1>3, <1>4, <1>5, <1>6, <1>7 DEF Next, Invoke

\* No two places hold the same rule object, of an injector or of a clone and
\* its original, unless a user put it there.
THEOREM RulesKeptApart == Spec => []PlacesDisjoint
BY InitApart, NextApart, ApartPlaces, PTL DEF Spec
=============================================================================
