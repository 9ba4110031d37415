--------------------------- MODULE ErrorInjector ---------------------------
(***************************************************************************)
(* error.go: the error injector shared by a MockFS, its open files and the *)
(* goroutines that use them.                                               *)
(*                                                                         *)
(* An injector maps every operation to a list of rules, in the order they  *)
(* were added.  CheckAndApply scans the rules of the operation and then    *)
(* those of OpUnknown, under the read side of a sync.RWMutex; the counters *)
(* of a rule are atomics that concurrent scans advance.  One step of this  *)
(* module is one lock operation or one atomic operation on one rule.       *)
(*                                                                         *)
(* A definition called "wrong" in its comment is not part of the model: it *)
(* is the next one with a mistake in it, which some property must notice.  *)
(***************************************************************************)
EXTENDS Integers, Sequences, FiniteSets, Functions

CONSTANTS
  Threads,      \* goroutines that share the injectors
  NoThread,     \* "no goroutine announced a Lock"
  Injectors,    \* injector objects: the first one and the clones made by Sub
  First,        \* the injector that exists from the start
  Ops,          \* the valid operations, OpStat .. OpRename
  OpUnknown,    \* rules added under OpUnknown apply to every operation
  Paths,        \* path names a check is made with
  NoPath,       \* the calls that take no path
  InParent,     \* a path of the sub file system, as its parent names it
  RuleArgs,     \* arguments NewErrorRule is called with
  NoRule,       \* "no rule returned its error"
  MaxRules,     \* bound: rules ever created
  MaxChecks,    \* bound: calls of CheckAndApply ever started
  MaxWrites     \* bound: calls that change or copy the rules ever started

AllOps  == Ops \cup {OpUnknown}
RuleIds == 1 .. MaxRules
Modes   == {"Always", "Once", "AfterSuccesses", "Next"}

ASSUME InjectorAssumption ==
  /\ IsFiniteSet(Threads)
  /\ NoThread \notin Threads
  /\ First \in Injectors
  /\ OpUnknown \notin Ops
  /\ NoPath \notin Paths
  /\ InParent \in [Paths -> Paths \cup {NoPath}]
  /\ MaxRules \in Nat
  /\ MaxChecks \in Nat
  /\ MaxWrites \in Nat
  /\ NoRule \notin RuleIds
  /\ \A a \in RuleArgs : /\ a.after \in Int
                         /\ a.match \subseteq Paths

VARIABLES
  made,      \* rules 1 .. made have been created
  rules,     \* the immutable part of each created rule
  usedOnce,  \* ErrorRule.usedOnce
  hits,      \* ErrorRule.hits
  configs,   \* errorInjector.configs
  live,      \* the injectors that exist
  readers,   \* goroutines holding RLock of an injector's mutex
  writer,    \* goroutine that announced Lock on an injector's mutex
  pc,        \* what each goroutine is doing
  req,       \* the call each goroutine is in
  at,        \* position of a scan in its rule list
  got,       \* the rule whose error the call is about to return
  checks,    \* calls of CheckAndApply started so far
  writes,    \* calls that change or copy the rules started so far
  returned,  \* history: calls that returned this rule's error
  passed,    \* history: calls matched by this rule that returned without an injected error
  shared     \* history: rules the user added a second time

ruleVars == <<made, rules, usedOnce, hits>>
lockVars == <<readers, writer>>
callVars == <<pc, req, at, got>>
histVars == <<checks, writes, returned, passed, shared>>
vars     == <<ruleVars, configs, live, lockVars, callVars, histVars>>

-----------------------------------------------------------------------------
(* Rules *)

\* Wrong: takes negative counts.
ValidateModeOnly(a) == a.mode \in Modes

\* NewErrorRule rejects an unknown mode, and a negative count for the modes
\* that read it.
ValidateModeAndAfter(a) ==
  /\ a.mode \in Modes
  /\ a.mode \in {"AfterSuccesses", "Next"} => a.after >= 0

\* The modes that do not count keep afterN = 0.
NewErrorRule(a) ==
  [mode   |-> a.mode,
   afterN |-> IF a.mode \in {"AfterSuccesses", "Next"} THEN a.after ELSE 0,
   match  |-> a.match]

\* The matchers of a cloned rule accept a path of the sub file system exactly
\* when the original ones accept that path in the parent.
RuleForSub(r) == [r EXCEPT !.match = {p \in Paths : InParent[p] \in r.match}]

\* A rule without matchers matches nothing.
Matches(r, p) == p \in rules[r].match

\* Wrong: compares the counter as it was before the call.
ShouldReturnErrorLate(r) ==
  CASE rules[r].mode = "Always"         -> TRUE
    [] rules[r].mode = "Once"           -> ~usedOnce[r]
    [] rules[r].mode = "AfterSuccesses" -> hits[r] > rules[r].afterN
    [] rules[r].mode = "Next"           -> hits[r] + 1 <= rules[r].afterN

\* The decision of shouldReturnError, from the counters before the call.
ShouldReturnError(r) ==
  CASE rules[r].mode = "Always"         -> TRUE
    [] rules[r].mode = "Once"           -> ~usedOnce[r]
    [] rules[r].mode = "AfterSuccesses" -> hits[r] + 1 > rules[r].afterN
    [] rules[r].mode = "Next"           -> hits[r] + 1 <= rules[r].afterN

\* What shouldReturnError leaves in the counters: a compare-and-swap for
\* ErrorModeOnce, an atomic increment for the counting modes.
CountHit(r) ==
  /\ usedOnce' = [usedOnce EXCEPT ![r] = IF rules[r].mode = "Once" THEN TRUE ELSE @]
  /\ hits' = [hits EXCEPT ![r] =
                IF rules[r].mode \in {"AfterSuccesses", "Next"} THEN @ + 1 ELSE @]

\* The rules a check for op looks at, in the order it looks at them.
ScanList(i, op) == configs[i][op] \o configs[i][OpUnknown]

Request(i, op, p) == [inj |-> i, op |-> op, path |-> p]

FreshIds(n) == made + 1 .. made + n

\* n new rule objects, new[r] for every fresh r: their counters are zero.
Create(n, new) ==
  /\ made' = made + n
  /\ rules' = [r \in RuleIds |-> IF r \in FreshIds(n) THEN new[r] ELSE rules[r]]
  /\ usedOnce' = [r \in RuleIds |-> r \notin FreshIds(n) /\ usedOnce[r]]
  /\ hits' = [r \in RuleIds |-> IF r \in FreshIds(n) THEN 0 ELSE hits[r]]


Init ==
  /\ made = 0
  /\ rules = [r \in RuleIds |-> [mode |-> "Always", afterN |-> 0, match |-> {}]]
  /\ usedOnce = [r \in RuleIds |-> FALSE]
  /\ hits = [r \in RuleIds |-> 0]
  /\ configs = [i \in Injectors |-> [op \in AllOps |-> <<>>]]
  /\ live = {First}
  /\ readers = [i \in Injectors |-> {}]
  /\ writer = [i \in Injectors |-> NoThread]
  /\ pc = [t \in Threads |-> "idle"]
  /\ req = [t \in Threads |-> Request(First, OpUnknown, NoPath)]
  /\ at = [t \in Threads |-> 1]
  /\ got = [t \in Threads |-> NoRule]
  /\ checks = 0
  /\ writes = 0
  /\ returned = [r \in RuleIds |-> 0]
  /\ passed = [r \in RuleIds |-> 0]
  /\ shared = {}

-----------------------------------------------------------------------------
(* The sync.RWMutex of an injector.  A goroutine that calls Lock first     *)
(* announces itself: from then on no new reader gets in, and it proceeds   *)
(* when the readers that are inside have left.                             *)

Goto(t, label) == pc' = [pc EXCEPT ![t] = label]

\* Wrong: the lock is forgotten.
NoRLock(t, i) == UNCHANGED lockVars

RLock(t, i) ==
  /\ writer[i] = NoThread
  /\ readers' = [readers EXCEPT ![i] = @ \cup {t}]
  /\ UNCHANGED writer

\* Wrong: an early return keeps the lock.
RUnlockAtEnd(t, i) ==
  /\ readers' = [readers EXCEPT ![i] = IF got[t] = NoRule THEN @ \ {t} ELSE @]
  /\ UNCHANGED writer

RUnlock(t, i) ==
  /\ readers' = [readers EXCEPT ![i] = @ \ {t}]
  /\ UNCHANGED writer

AnnounceLock(t, i) ==
  /\ writer[i] = NoThread
  /\ writer' = [writer EXCEPT ![i] = t]
  /\ UNCHANGED readers

Locked(t, i) == writer[i] = t /\ readers[i] = {}

Unlock(t, i) ==
  /\ writer' = [writer EXCEPT ![i] = NoThread]
  /\ UNCHANGED readers

-----------------------------------------------------------------------------
(* CheckAndApply *)

CallCheck(t) == \E i \in live, op \in Ops, p \in Paths :
  /\ pc[t] = "idle"
  /\ checks < MaxChecks
  /\ checks' = checks + 1
  /\ req' = [req EXCEPT ![t] = Request(i, op, p)]
  /\ Goto(t, "rlock")
  /\ UNCHANGED <<ruleVars, configs, live, lockVars, at, got, writes, returned, passed, shared>>

EnterCheck(t) ==
  /\ pc[t] = "rlock"
  /\ RLock(t, req[t].inj)
  /\ Goto(t, "scan")
  /\ UNCHANGED <<ruleVars, configs, live, req, at, got, histVars>>

List(t) == ScanList(req[t].inj, req[t].op)

\* One iteration of a loop of CheckAndApply: the rule at the current position
\* either returns its error or lets the scan go on.
ScanRule(t) ==
  LET r == List(t)[at[t]] IN
  /\ pc[t] = "scan"
  /\ at[t] <= Len(List(t))
  /\ IF Matches(r, req[t].path)
       THEN /\ CountHit(r)
            /\ IF ShouldReturnError(r)
                 THEN /\ got' = [got EXCEPT ![t] = r]
                      /\ Goto(t, "return")
                      /\ UNCHANGED at
                 ELSE /\ at' = [at EXCEPT ![t] = @ + 1]
                      /\ UNCHANGED <<pc, got>>
       ELSE /\ at' = [at EXCEPT ![t] = @ + 1]
            /\ UNCHANGED <<usedOnce, hits, pc, got>>
  /\ UNCHANGED <<made, rules, configs, live, lockVars, req, histVars>>

ScanEnd(t) ==
  /\ pc[t] = "scan"
  /\ at[t] > Len(List(t))
  /\ Goto(t, "return")
  /\ UNCHANGED <<ruleVars, configs, live, lockVars, req, at, got, histVars>>

\* The deferred RUnlock, with the result already chosen.
ReturnCheck(t) ==
  /\ pc[t] = "return"
  /\ RUnlock(t, req[t].inj)
  /\ Goto(t, "idle")
  /\ returned' = [r \in RuleIds |-> returned[r] + IF got[t] = r THEN 1 ELSE 0]
  /\ passed' = [r \in RuleIds |->
       passed[r] + IF got[t] = NoRule /\ r \in Range(List(t)) /\ Matches(r, req[t].path)
                     THEN 1 ELSE 0]
  /\ req' = [req EXCEPT ![t] = Request(First, OpUnknown, NoPath)]
  /\ at' = [at EXCEPT ![t] = 1]
  /\ got' = [got EXCEPT ![t] = NoRule]
  /\ UNCHANGED <<ruleVars, configs, live, checks, writes, shared>>

-----------------------------------------------------------------------------
(* The calls that change the rules, or copy them                           *)

CallWriter(t) == \E i \in live :
  /\ pc[t] = "idle"
  /\ writes < MaxWrites
  /\ writes' = writes + 1
  /\ req' = [req EXCEPT ![t] = Request(i, OpUnknown, NoPath)]
  /\ Goto(t, "lock")
  /\ UNCHANGED <<ruleVars, configs, live, lockVars, at, got, checks, returned, passed, shared>>

Announce(t) ==
  /\ pc[t] = "lock"
  /\ AnnounceLock(t, req[t].inj)
  /\ Goto(t, "locked")
  /\ UNCHANGED <<ruleVars, configs, live, req, at, got, histVars>>

\* The critical section of a writer ends with the deferred Unlock.
WriterReturns(t) ==
  /\ pc[t] = "locked"
  /\ Locked(t, req[t].inj)
  /\ Unlock(t, req[t].inj)
  /\ Goto(t, "idle")
  /\ req' = [req EXCEPT ![t] = Request(First, OpUnknown, NoPath)]
  /\ UNCHANGED <<live, at, got, checks, writes, returned, passed>>

\* AddExact, AddGlob, AddRegexp, AddAll (they differ in the matcher), and the
\* FailX methods of MockFS: a new rule, appended to the rules of one operation.
AddNew(t) == \E op \in AllOps, a \in RuleArgs :
  /\ WriterReturns(t)
  /\ ValidateModeAndAfter(a)
  /\ made < MaxRules
  /\ Create(1, [r \in FreshIds(1) |-> NewErrorRule(a)])
  /\ configs' = [configs EXCEPT ![req[t].inj][op] = Append(@, made + 1)]
  /\ UNCHANGED shared

\* Add with a rule object taken from GetAll: two lists share its counters.
AddShared(t) == \E op \in AllOps, r \in 1 .. made :
  /\ WriterReturns(t)
  /\ Len(configs[req[t].inj][op]) < MaxRules
  /\ configs' = [configs EXCEPT ![req[t].inj][op] = Append(@, r)]
  /\ shared' = shared \cup {r}
  /\ UNCHANGED ruleVars

\* Wrong: one rule for all operations.
AddOneRuleForAllOps(t) == \E a \in RuleArgs :
  /\ WriterReturns(t)
  /\ ValidateModeAndAfter(a)
  /\ made < MaxRules
  /\ Create(1, [r \in FreshIds(1) |-> NewErrorRule(a)])
  /\ configs' = [configs EXCEPT ![req[t].inj] =
       [op \in AllOps |-> IF op \in Ops THEN Append(@[op], made + 1) ELSE @[op]]]
  /\ UNCHANGED shared

\* AddExactForAllOps and its siblings, and MarkNonExistent: one new rule for
\* each valid operation.
AddForAllOps(t) ==
  /\ WriterReturns(t)
  /\ \E a \in RuleArgs, n \in 0 .. MaxRules - made : \E id \in Bijection(Ops, FreshIds(n)) :
       /\ ValidateModeAndAfter(a)
       /\ Create(n, [r \in FreshIds(n) |-> NewErrorRule(a)])
       /\ configs' = [configs EXCEPT ![req[t].inj] =
            [op \in AllOps |-> IF op \in Ops THEN Append(@[op], id[op]) ELSE @[op]]]
       /\ UNCHANGED shared

\* Clear installs a new, empty map.
Clear(t) ==
  /\ WriterReturns(t)
  /\ configs' = [configs EXCEPT ![req[t].inj] = [op \in AllOps |-> <<>>]]
  /\ UNCHANGED <<ruleVars, shared>>

Places(i) == UNION {{op} \X DOMAIN configs[i][op] : op \in AllOps}

\* CloneForSub holds RLock from its first to its last step, so that no writer
\* comes between them; every rule is cloned, once for each place it has in the
\* lists, with fresh counters.
CloneInto(t, i, j, n, place) ==
  LET id == Inverse(place, FreshIds(n), Places(i)) IN
  /\ pc[t] = "idle"
  /\ writes < MaxWrites
  /\ writes' = writes + 1
  /\ writer[i] = NoThread
  /\ Create(n, [r \in FreshIds(n) |->
       RuleForSub(rules[configs[i][place[r][1]][place[r][2]]])])
  /\ configs' = [configs EXCEPT ![j] =
       [op \in AllOps |-> [k \in DOMAIN configs[i][op] |-> id[<<op, k>>]]]]
  /\ live' = live \cup {j}
  /\ UNCHANGED <<lockVars, callVars, checks, returned, passed, shared>>

CloneForSub(t) == \E i \in live, j \in Injectors \ live, n \in 0 .. MaxRules - made :
  \E place \in Bijection(FreshIds(n), Places(i)) : CloneInto(t, i, j, n, place)

-----------------------------------------------------------------------------
Check(t)  == EnterCheck(t) \/ ScanRule(t) \/ ScanEnd(t) \/ ReturnCheck(t)
Write(t)  == AddNew(t) \/ AddShared(t) \/ AddForAllOps(t) \/ Clear(t)
Invoke(t) == CallCheck(t) \/ CallWriter(t) \/ CloneForSub(t)

Next == \E t \in Threads : Invoke(t) \/ Check(t) \/ Announce(t) \/ Write(t)

\* The scheduler runs every goroutine that can run, and sync.RWMutex starves
\* neither readers (they are woken by Unlock) nor writers (the mutex they queue
\* on hands over to the one that waited longest).  Nobody has to make a call.
Fairness == \A t \in Threads :
  /\ SF_vars(EnterCheck(t) \/ Announce(t))
  /\ WF_vars(ScanRule(t) \/ ScanEnd(t) \/ ReturnCheck(t))
  /\ WF_vars(Write(t))

Spec == Init /\ [][Next]_vars /\ Fairness

-----------------------------------------------------------------------------
(* Properties *)

RuleType == [mode : Modes, afterN : Nat, match : SUBSET Paths]

\* Types.
TypeOK ==
  /\ made \in 0 .. MaxRules
  /\ rules \in [RuleIds -> RuleType]
  /\ usedOnce \in [RuleIds -> BOOLEAN]
  /\ hits \in [RuleIds -> Nat]
  /\ configs \in [Injectors -> [AllOps -> Seq(RuleIds)]]
  /\ live \subseteq Injectors
  /\ readers \in [Injectors -> SUBSET Threads]
  /\ writer \in [Injectors -> Threads \cup {NoThread}]
  /\ pc \in [Threads -> {"idle", "rlock", "scan", "return", "lock", "locked"}]
  /\ req \in [Threads -> [inj : Injectors, op : AllOps, path : Paths \cup {NoPath}]]
  /\ at \in [Threads -> Nat \ {0}]
  /\ got \in [Threads -> RuleIds \cup {NoRule}]
  /\ checks \in 0 .. MaxChecks
  /\ writes \in 0 .. MaxWrites
  /\ returned \in [RuleIds -> Nat]
  /\ passed \in [RuleIds -> Nat]
  /\ shared \subseteq RuleIds

\* The calls that are about to return the error of a rule, and all calls that
\* have been given it.
Holders(r) == {t \in Threads : got[t] = r}
Fired(r)   == returned[r] + Cardinality(Holders(r))

\* What a rule has given away, against what it has counted.
Accounted(r) ==
  LET n == rules[r].afterN IN
  CASE rules[r].mode = "Once"           -> Fired(r) = IF usedOnce[r] THEN 1 ELSE 0
    [] rules[r].mode = "Next"           -> Fired(r) = IF hits[r] < n THEN hits[r] ELSE n
    [] rules[r].mode = "AfterSuccesses" -> Fired(r) = IF hits[r] > n THEN hits[r] - n ELSE 0
    [] rules[r].mode = "Always"         -> ~usedOnce[r] /\ hits[r] = 0

\* The number of calls that got the error of a rule, whatever the interleaving
\* of the scans that touched it, is what its mode promises for the calls it has
\* counted: one for ErrorModeOnce, the first N for ErrorModeNext, all after the
\* first N for ErrorModeAfterSuccesses.
FireAccounting == \A r \in RuleIds : Accounted(r)

\* A rule a scan has gone past had no error to give.
Spent(r) ==
  CASE rules[r].mode = "Always"         -> FALSE
    [] rules[r].mode = "Once"           -> usedOnce[r]
    [] rules[r].mode = "AfterSuccesses" -> hits[r] > 0
    [] rules[r].mode = "Next"           -> hits[r] > rules[r].afterN

\* The error a call returns is that of the first rule in the list, as it is
\* while the call holds RLock, that applies to the path and has an error to
\* give; a call that returns none has been past the whole list.
FirstMatchWins == \A t \in Threads :
  pc[t] \in {"scan", "return"} =>
    /\ \A k \in 1 .. at[t] - 1 :
         /\ k <= Len(List(t))
         /\ Matches(List(t)[k], req[t].path) => Spent(List(t)[k])
    /\ pc[t] = "return" =>
         IF got[t] = NoRule
           THEN at[t] > Len(List(t))
           ELSE /\ at[t] <= Len(List(t))
                /\ List(t)[at[t]] = got[t]
                /\ Matches(got[t], req[t].path)

\* The rule objects of different operations, and of a clone and its original,
\* are different objects, so that exhausting one leaves the others alone; only
\* a user who adds a rule object twice makes lists share it.
PlacesDisjoint ==
  \A i, j \in Injectors : \A p \in Places(i), q \in Places(j) :
    /\ configs[i][p[1]][p[2]] = configs[j][q[1]][q[2]]
    /\ configs[i][p[1]][p[2]] \notin shared
    => i = j /\ p = q

\* Every call returns: no reader that leaves early keeps its lock, no writer
\* waits for ever for the readers, no reader for ever for the writers.
EveryCallReturns == \A t \in Threads : pc[t] # "idle" ~> pc[t] = "idle"

\* doc.go, on ErrorModeAfterSuccesses: the error is returned after N successful
\* calls.  (The code counts the calls that reach the rule.)
AfterNSuccesses == \A r \in RuleIds :
  rules[r].mode = "AfterSuccesses" /\ r \notin shared /\ Fired(r) > 0
    => passed[r] >= rules[r].afterN
=============================================================================
