---------------------------- MODULE MockFSProofs -----------------------------
(***************************************************************************)
(* Proofs about MockFS, for any names, goroutines, calls, rules and bounds: *)
(* where the options put their entries, that no failure of the injector is *)
(* lost, that a sub file system fails like its parent; and then, from the  *)
(* types and the lock, that a call answers for one version of the tree,    *)
(* that the statistics count what the callers were told, and that what is  *)
(* marked as missing stays so.  What is known of the tree in a step comes  *)
(* from FileTreeProofs.                                                    *)
(***************************************************************************)
EXTENDS MockFS, PathMatcherProofs, FiniteSetTheorems

-----------------------------------------------------------------------------
(* What is true of one goroutine, and of the rules *)

\* Where no error of the injector is waiting to be returned.
Clean == {"idle", "lock", "fields", "list", "moving", "mark", "read"}

\* The parts of ReadFile that other calls do not have.
InReadFile == {"opened", "read", "close"}

\* The errors that the injector has given a call are in its answer, and nothing
\* else is unless it is a ReadFile.
KeepsErrors(t) ==
  /\ pc[t] \in Clean => dealt[t] = {}
  /\ pc[t] \notin Clean => dealt[t] \subseteq answer[t].err
  /\ pc[t] \in InReadFile => Op(t) = "ReadFile"
  /\ pc[t] = "return" /\ Op(t) # "ReadFile" /\ dealt[t] # {} =>
       answer[t] = [NoAnswer EXCEPT !.err = dealt[t]]

\* A call that goes on has a path, and Sub has cloned the rules that were there.
ClonesRules(t) ==
  /\ pc[t] \in {"lock", "list", "mark"} => Path(t) \in Tree!Paths
  /\ answer[t].sub # None =>
       /\ pc[t] = "return" /\ Path(t) \in Tree!Paths
       /\ \A r \in checked[t] : IsRule(r)
       /\ answer[t].rules = RulesForSub(checked[t], Path(t))

CallInv(t) == KeepsErrors(t) /\ ClonesRules(t)

CallsInv ==
  /\ pc \in [Threads -> Labels]
  /\ DOMAIN call = Threads /\ DOMAIN answer = Threads
  /\ DOMAIN checked = Threads /\ DOMAIN dealt = Threads
  /\ \A t \in Threads : CallInv(t)
  /\ \A r \in rules : IsRule(r)

\* Nobody else is in the step of t.
Alone(t) == \A u \in Threads \ {t} :
  /\ pc'[u] = pc[u] /\ call'[u] = call[u] /\ answer'[u] = answer[u]
  /\ checked'[u] = checked[u] /\ dealt'[u] = dealt[u]

Domains ==
  /\ pc \in [Threads -> Labels]
  /\ DOMAIN call = Threads /\ DOMAIN answer = Threads
  /\ DOMAIN checked = Threads /\ DOMAIN dealt = Threads

LEMMA OneMoves ==
  ASSUME CallsInv, NEW t \in Threads, Domains', Alone(t), CallInv(t)',
         \A r \in rules' : IsRule(r)
  PROVE  CallsInv'
<1>1. ASSUME NEW u \in Threads \ {t} PROVE CallInv(u)'
  BY <1>1 DEF CallsInv, Alone, CallInv, KeepsErrors, ClonesRules, Op, Path
<1> QED
  BY <1>1 DEF CallsInv, Domains

LEMMA PlainAnswer ==
  ASSUME NEW e PROVE [NoAnswer EXCEPT !.err = e].sub = None /\ [NoAnswer EXCEPT !.err = e].err = e
  BY DEF NoAnswer

-----------------------------------------------------------------------------
(* The beginning of a call *)

\* What Begin leaves behind, whatever the rest of the step does.
LEMMA BeginFrame ==
  ASSUME CallsInv, NEW t \in Threads, NEW c \in Calls, At(t, "idle"), Begin(t, c)
  PROVE  /\ call'[t] = c /\ checked'[t] = rules /\ rules' = rules
         /\ DOMAIN call' = Threads /\ DOMAIN checked' = Threads
         /\ \A u \in Threads \ {t} : call'[u] = call[u] /\ checked'[u] = checked[u]
         /\ dealt[t] = {} /\ answer[t].sub = None
         /\ ~Refused(c) => c.path \in Tree!Paths
  BY MockFSAssumption
  DEF CallsInv, CallInv, KeepsErrors, ClonesRules, Clean, At, Begin, Refused, IsCall

LEMMA BeginRefusedKeeps ==
  ASSUME CallsInv, NEW t \in Threads, BeginRefused(t)
  PROVE  CallsInv'
<1> PICK c \in Calls : /\ At(t, "idle") /\ Begin(t, c)
                       /\ Goto(t, "return") /\ Fail(t, Error(ErrorOp(c.op), "ErrInvalid"))
                       /\ UNCHANGED dealt
  BY DEF BeginRefused, MayBegin
<1>1. Domains' /\ Alone(t)
  BY BeginFrame DEF CallsInv, Domains, Alone, Goto, Fail, Reply, Labels
<1>2. pc'[t] = "return" /\ dealt'[t] = {} /\ answer'[t].sub = None
  BY BeginFrame, PlainAnswer DEF CallsInv, Goto, Fail, Reply
<1>3. CallInv(t)'
  BY <1>2 DEF CallInv, KeepsErrors, ClonesRules, Clean, InReadFile, Op, Path
<1> QED
  BY <1>1, <1>3, OneMoves, BeginFrame DEF CallsInv

LEMMA BeginDirectKeeps ==
  ASSUME CallsInv, NEW t \in Threads, BeginDirect(t)
  PROVE  CallsInv'
<1> PICK c \in Calls : /\ At(t, "idle") /\ ~Refused(c) /\ Begin(t, c)
                       /\ \E l \in {"return", "lock"} : Goto(t, l)
                       /\ UNCHANGED <<answer, dealt>>
  BY DEF BeginDirect, MayBegin
<1>1. Domains' /\ Alone(t)
  BY BeginFrame DEF CallsInv, Domains, Alone, Goto, Labels
<1>2. /\ pc'[t] \in {"return", "lock"} /\ dealt'[t] = {} /\ answer'[t].sub = None
      /\ call'[t].path \in Tree!Paths
  BY BeginFrame DEF CallsInv, Goto
<1>3. CallInv(t)'
  BY <1>2 DEF CallInv, KeepsErrors, ClonesRules, Clean, InReadFile, Op, Path
<1> QED
  BY <1>1, <1>3, OneMoves, BeginFrame DEF CallsInv

\* The injector's answer goes into dealt and, if it is an error, is the answer.
LEMMA BeginSimulatedKeeps ==
  ASSUME CallsInv, NEW t \in Threads, BeginSimulated(t)
  PROVE  CallsInv'
<1> PICK c \in Calls : /\ At(t, "idle") /\ ~Refused(c) /\ Begin(t, c)
                       /\ \E op : Injected(t, op, c.path, "lock")
  BY DEF BeginSimulated, MayBegin
<1> PICK op : Injected(t, op, c.path, "lock")
  OBVIOUS
<1> PICK e : /\ dealt' = [dealt EXCEPT ![t] = @ \cup e]
             /\ IF e # {} THEN /\ Goto(t, IF Op(t)' = "ReadFile" THEN "opened" ELSE "return")
                                /\ Fail(t, e)
                ELSE Goto(t, "lock") /\ UNCHANGED answer
  BY DEF Injected
<1>1. Domains' /\ Alone(t)
  BY BeginFrame DEF CallsInv, Domains, Alone, Goto, Fail, Reply, Labels
<1>2. dealt'[t] = e
  BY BeginFrame DEF CallsInv
<1>3. CASE e = {}
  <2>1. pc'[t] = "lock" /\ answer'[t].sub = None /\ call'[t].path \in Tree!Paths
    BY <1>3, BeginFrame DEF CallsInv, Goto
  <2>2. CallInv(t)'
    BY <1>2, <1>3, <2>1 DEF CallInv, KeepsErrors, ClonesRules, Clean, InReadFile, Op, Path
  <2> QED
    BY <1>1, <2>2, OneMoves, BeginFrame DEF CallsInv
<1>4. CASE e # {}
  <2>1. /\ pc'[t] = IF Op(t)' = "ReadFile" THEN "opened" ELSE "return"
        /\ answer'[t] = [NoAnswer EXCEPT !.err = e]
    BY <1>4 DEF CallsInv, Goto, Fail, Reply
  <2>2. answer'[t].sub = None /\ answer'[t].err = e
    BY <2>1, PlainAnswer
  <2>3. CallInv(t)'
    BY <1>2, <2>1, <2>2 DEF CallInv, KeepsErrors, ClonesRules, Clean, InReadFile, Op, Path
  <2> QED
    BY <1>1, <2>3, OneMoves, BeginFrame DEF CallsInv
<1> QED
  BY <1>3, <1>4

-----------------------------------------------------------------------------
(* The steps inside a call *)

\* The answers that have no sub file system.
LEMMA EntryAnswer ==
  ASSUME NEW x, NEW n
  PROVE  /\ [NoAnswer EXCEPT !.entry = x].sub = None
         /\ [NoAnswer EXCEPT !.entry = x, !.names = n].sub = None
         /\ {} \subseteq [NoAnswer EXCEPT !.entry = x].err
         /\ {} \subseteq [NoAnswer EXCEPT !.entry = x, !.names = n].err
  BY DEF NoAnswer

PlainReply(t) ==
  \/ UNCHANGED answer
  \/ \E e : answer' = [answer EXCEPT ![t] = [NoAnswer EXCEPT !.err = e]]
  \/ \E x : answer' = [answer EXCEPT ![t] = [NoAnswer EXCEPT !.entry = x]]
  \/ \E x, n : answer' = [answer EXCEPT ![t] = [NoAnswer EXCEPT !.entry = x, !.names = n]]

LEMMA PlainReplySubs ==
  ASSUME NEW t \in Threads, DOMAIN answer = Threads, answer[t].sub = None, PlainReply(t)
  PROVE  /\ DOMAIN answer' = Threads /\ answer'[t].sub = None
         /\ \A u \in Threads \ {t} : answer'[u] = answer[u]
<1>1. CASE UNCHANGED answer
  BY <1>1
<1>2. ASSUME NEW e, answer' = [answer EXCEPT ![t] = [NoAnswer EXCEPT !.err = e]]
      PROVE  answer'[t].sub = None
  BY <1>2, PlainAnswer
<1>3. ASSUME NEW x, answer' = [answer EXCEPT ![t] = [NoAnswer EXCEPT !.entry = x]]
      PROVE  answer'[t].sub = None
  BY <1>3, EntryAnswer
<1>4. ASSUME NEW x, NEW n,
             answer' = [answer EXCEPT ![t] = [NoAnswer EXCEPT !.entry = x, !.names = n]]
      PROVE  answer'[t].sub = None
  BY <1>4, EntryAnswer
<1> QED
  BY <1>1, <1>2, <1>3, <1>4 DEF PlainReply

\* A step of a call that the injector has given no error so far: it goes on, or
\* it returns an answer without a sub file system.
LEMMA CleanStep ==
  ASSUME CallsInv, NEW t \in Threads, dealt[t] = {}, pc[t] \in Clean \ {"idle"},
         NEW l \in {"fields", "list", "moving", "mark", "opened", "return"},
         pc' = [pc EXCEPT ![t] = l],
         l = "opened" => Op(t) = "ReadFile",
         l \in {"list", "mark"} => Path(t) \in Tree!Paths,
         UNCHANGED <<call, checked, dealt, rules>>,
         PlainReply(t)
  PROVE  CallsInv'
<1>0. answer[t].sub = None
  BY DEF CallsInv, CallInv, ClonesRules, Clean
<1>1. Domains' /\ Alone(t)
  BY <1>0, PlainReplySubs DEF CallsInv, Domains, Alone, Labels
<1>2. pc'[t] = l /\ dealt'[t] = {} /\ call'[t] = call[t]
  BY DEF CallsInv
<1>3. answer'[t].sub = None
  BY <1>0, PlainReplySubs DEF CallsInv
<1>4. CallInv(t)'
  BY <1>2, <1>3 DEF CallInv, KeepsErrors, ClonesRules, Clean, InReadFile, Op, Path
<1> QED
  BY <1>1, <1>4, OneMoves DEF CallsInv

LEMMA LookUpKeeps ==
  ASSUME CallsInv, NEW t \in Threads, LookUp(t)
  PROVE  CallsInv'
<1>1. /\ pc[t] = "lock" /\ dealt[t] = {} /\ Path(t) \in Tree!Paths
      /\ UNCHANGED <<call, checked, dealt, rules>>
  BY DEF LookUp, Section, At, CallsInv, CallInv, KeepsErrors, ClonesRules, Clean,
         Unchanged, callVars
<1>2. \/ \E e : /\ answer' = [answer EXCEPT ![t] = [NoAnswer EXCEPT !.err = e]]
              /\ \/ pc' = [pc EXCEPT ![t] = "return"]
                 \/ Op(t) = "ReadFile" /\ pc' = [pc EXCEPT ![t] = "opened"]
      \/ \E l \in {"fields", "list"} : UNCHANGED answer /\ pc' = [pc EXCEPT ![t] = l]
      \/ \E x : /\ answer' = [answer EXCEPT ![t] = [NoAnswer EXCEPT !.entry = x]]
              /\ \/ pc' = [pc EXCEPT ![t] = "return"]
                 \/ Op(t) = "ReadFile" /\ pc' = [pc EXCEPT ![t] = "opened"]
  <2>1. CASE ~Tree!Exists(files, Path(t))
    BY <2>1 DEF LookUp, Goto, Fail, Reply
  <2>2. CASE Tree!Exists(files, Path(t)) /\ (Op(t) = "Stat" \/ Tree!IsDir(files, Path(t)))
    BY <2>2 DEF LookUp, Goto
  <2>3. CASE /\ Tree!Exists(files, Path(t)) /\ Op(t) # "Stat" /\ ~Tree!IsDir(files, Path(t))
             /\ Op(t) \in {"ReadDir", "Sub"}
    BY <2>3 DEF LookUp, Goto, Fail, Reply
  <2>4. CASE /\ Tree!Exists(files, Path(t)) /\ Op(t) # "Stat" /\ ~Tree!IsDir(files, Path(t))
             /\ Op(t) \notin {"ReadDir", "Sub"}
    BY <2>4 DEF LookUp, Goto, Reply
  <2> QED
    BY <2>1, <2>2, <2>3, <2>4
<1>3. PICK l \in {"fields", "list", "opened", "return"} :
        /\ pc' = [pc EXCEPT ![t] = l]
        /\ l = "opened" => Op(t) = "ReadFile"
  BY <1>2
<1>4. PlainReply(t)
  BY <1>2 DEF PlainReply
<1> QED
  BY <1>1, <1>3, <1>4, CleanStep DEF Clean

LEMMA ReadFieldsKeeps ==
  ASSUME CallsInv, NEW t \in Threads, ReadFields(t)
  PROVE  CallsInv'
<1>1. /\ pc[t] = "fields" /\ dealt[t] = {}
      /\ pc' = [pc EXCEPT ![t] = "return"]
      /\ UNCHANGED <<call, checked, dealt, rules>>
  BY DEF ReadFields, At, Goto, CallsInv, CallInv, KeepsErrors, Clean, Unchanged, callVars
<1>2. \E x : answer' = [answer EXCEPT ![t] = [NoAnswer EXCEPT !.entry = x]]
  BY DEF ReadFields, Reply
<1>3. PlainReply(t)
  BY <1>2 DEF PlainReply
<1> QED
  BY <1>1, <1>3, CleanStep DEF Clean

LEMMA ListKeeps ==
  ASSUME CallsInv, NEW t \in Threads, List(t)
  PROVE  CallsInv'
<1>1. /\ pc[t] = "list" /\ dealt[t] = {}
      /\ pc' = [pc EXCEPT ![t] = IF Op(t) = "ReadFile" THEN "opened" ELSE "return"]
      /\ UNCHANGED <<call, checked, dealt, rules>>
  BY DEF List, At, Goto, CallsInv, CallInv, KeepsErrors, Clean, Unchanged, callVars
<1>2. \E x, n : answer' = [answer EXCEPT ![t] = [NoAnswer EXCEPT !.entry = x, !.names = n]]
  BY DEF List, Reply
<1>3. PlainReply(t)
  BY <1>2 DEF PlainReply
<1>4. PICK l \in {"opened", "return"} :
        pc' = [pc EXCEPT ![t] = l] /\ (l = "opened" => Op(t) = "ReadFile")
  BY <1>1
<1> QED
  BY <1>1, <1>3, <1>4, CleanStep DEF Clean

\* The rules that Sub clones are those that the check of the clone will see.
LEMMA CopyKeeps ==
  ASSUME CallsInv, NEW t \in Threads, Copy(t)
  PROVE  CallsInv'
<1>1. /\ pc[t] = "list" /\ dealt[t] = {} /\ Path(t) \in Tree!Paths /\ Op(t) = "Sub"
      /\ pc' = [pc EXCEPT ![t] = "return"]
      /\ checked' = [checked EXCEPT ![t] = rules]
      /\ UNCHANGED <<call, dealt, rules>>
  BY DEF Copy, At, Goto, CallsInv, CallInv, KeepsErrors, ClonesRules, Clean
<1>2. PICK sub : answer' = [answer EXCEPT ![t] =
                    [NoAnswer EXCEPT !.sub = sub, !.rules = RulesForSub(rules, Path(t))]]
  BY DEF Copy, Reply
<1>3. Domains' /\ Alone(t)
  BY <1>1, <1>2 DEF CallsInv, Domains, Alone, Labels
<1>4. /\ pc'[t] = "return" /\ dealt'[t] = {} /\ call'[t] = call[t] /\ checked'[t] = rules
      /\ answer'[t] = [NoAnswer EXCEPT !.sub = sub, !.rules = RulesForSub(rules, Path(t))]
  BY <1>1, <1>2 DEF CallsInv
<1>5. answer'[t].rules = RulesForSub(rules, Path(t))
  BY <1>4 DEF NoAnswer
<1>6. CallInv(t)'
  BY <1>1, <1>4, <1>5 DEF CallsInv, CallInv, KeepsErrors, ClonesRules, Clean, InReadFile, Op, Path
<1> QED
  BY <1>1, <1>3, <1>6, OneMoves DEF CallsInv

\* The steps that change the tree all end alike.
LEMMA EndSectionKeeps ==
  ASSUME CallsInv, NEW t \in Threads, pc[t] \in {"lock", "moving"},
         NEW err, NEW lost, NEW l \in {"return", "moving", "mark"},
         l = "mark" => pc[t] = "lock",
         EndSection(t, err, lost, l)
  PROVE  CallsInv'
<1>1. /\ dealt[t] = {} /\ (l = "mark" => Path(t) \in Tree!Paths)
      /\ pc' = [pc EXCEPT ![t] = l]
      /\ UNCHANGED <<call, checked, dealt, rules>>
  BY DEF EndSection, Goto, CallsInv, CallInv, KeepsErrors, ClonesRules, Clean
<1>2. \E e : answer' = [answer EXCEPT ![t] = [NoAnswer EXCEPT !.err = e]]
  BY DEF EndSection, Fail, Reply
<1>3. PlainReply(t)
  BY <1>2 DEF PlainReply
<1> QED
  BY <1>1, <1>3, CleanStep DEF Clean

LEMMA ChangeKeeps ==
  ASSUME CallsInv, NEW t \in Threads, Change(t)
  PROVE  CallsInv'
<1>1. CASE Mkdir(t)
  BY <1>1, EndSectionKeeps DEF Mkdir, Section, At
<1>2. CASE MkdirAll(t)
  BY <1>2, EndSectionKeeps DEF MkdirAll, Section, At
<1>3. CASE AddFile(t)
  BY <1>3, EndSectionKeeps DEF AddFile, Section, At
<1>4. CASE Remove(t)
  BY <1>4, EndSectionKeeps DEF Remove, Section, At
<1>5. CASE RemoveAll(t)
  BY <1>5, EndSectionKeeps DEF RemoveAll, Section, At
<1>6. CASE WriteFile(t)
  BY <1>6, EndSectionKeeps DEF WriteFile, Section, At
<1>7. CASE RenameNothing(t)
  BY <1>7, EndSectionKeeps DEF RenameNothing, Section, At
<1>8. CASE RenameOne(t)
  BY <1>8, EndSectionKeeps DEF RenameOne, Section, At
<1>9. CASE RenameBegin(t)
  BY <1>9, EndSectionKeeps DEF RenameBegin, Section, At
<1>10. CASE RenameVisit(t)
  BY <1>10, EndSectionKeeps DEF RenameVisit, At
<1>11. CASE RenameEnd(t)
  BY <1>11, EndSectionKeeps DEF RenameEnd, At
<1> QED
  BY <1>1, <1>2, <1>3, <1>4, <1>5, <1>6, <1>7, <1>8, <1>9, <1>10, <1>11 DEF Change

-----------------------------------------------------------------------------
(* ReadFile, MarkNonExistent, and the end of a call *)

LEMMA AddMarkKeeps ==
  ASSUME CallsInv, NEW t \in Threads, AddMark(t)
  PROVE  CallsInv'
<1>1. /\ pc[t] = "mark" /\ dealt[t] = {} /\ Path(t) \in Tree!Paths /\ answer[t].sub = None
      /\ pc' = [pc EXCEPT ![t] = "return"]
      /\ rules' = rules \cup {Mark(Path(t))}
      /\ UNCHANGED <<call, checked, dealt, answer>>
  BY DEF AddMark, At, Goto, CallsInv, CallInv, KeepsErrors, ClonesRules, Clean, callVars
<1>2. IsRule(Mark(Path(t)))
  BY DEF IsRule, Mark, IsMatcher, Pattern, AnyPath
<1>3. Domains' /\ Alone(t)
  BY <1>1 DEF CallsInv, Domains, Alone, Labels
<1>4. CallInv(t)'
  BY <1>1 DEF CallsInv, CallInv, KeepsErrors, ClonesRules, Clean, InReadFile, Op, Path
<1> QED
  BY <1>1, <1>2, <1>3, <1>4, OneMoves DEF CallsInv

LEMMA OpenedKeeps ==
  ASSUME CallsInv, NEW t \in Threads, Opened(t)
  PROVE  CallsInv'
<1>1. /\ pc[t] = "opened" /\ Op(t) = "ReadFile"
      /\ dealt[t] \subseteq answer[t].err /\ answer[t].sub = None
      /\ pc' = [pc EXCEPT ![t] = IF answer[t].err # {} THEN "return" ELSE "read"]
      /\ UNCHANGED <<call, checked, dealt, answer, rules>>
  BY DEF Opened, At, Goto, CallsInv, CallInv, KeepsErrors, ClonesRules, Clean, InReadFile, callVars
<1>2. Domains' /\ Alone(t)
  BY <1>1 DEF CallsInv, Domains, Alone, Labels
<1>3. CallInv(t)'
  BY <1>1 DEF CallsInv, CallInv, KeepsErrors, ClonesRules, Clean, InReadFile, Op, Path
<1> QED
  BY <1>1, <1>2, <1>3, OneMoves DEF CallsInv

LEMMA ReadAllKeeps ==
  ASSUME CallsInv, NEW t \in Threads, ReadAll(t)
  PROVE  CallsInv'
<1>1. PICK e : /\ pc[t] = "read" /\ dealt' = [dealt EXCEPT ![t] = @ \cup e]
               /\ answer' = [answer EXCEPT ![t] = [NoAnswer EXCEPT !.err = e]]
               /\ pc' = [pc EXCEPT ![t] = "close"]
               /\ UNCHANGED <<call, checked, rules>>
  BY DEF ReadAll, At, Goto, Fail, Reply, callVars
<1>2. dealt[t] = {} /\ Op(t) = "ReadFile"
  BY <1>1 DEF CallsInv, CallInv, KeepsErrors, Clean, InReadFile
<1>3. Domains' /\ Alone(t)
  BY <1>1 DEF CallsInv, Domains, Alone, Labels
<1>4. /\ pc'[t] = "close" /\ dealt'[t] = e /\ call'[t] = call[t]
      /\ answer'[t].err = e /\ answer'[t].sub = None
  BY <1>1, <1>2, PlainAnswer DEF CallsInv
<1>5. CallInv(t)'
  BY <1>2, <1>4 DEF CallInv, KeepsErrors, ClonesRules, Clean, InReadFile, Op, Path
<1> QED
  BY <1>1, <1>3, <1>5, OneMoves DEF CallsInv

LEMMA CloseFileKeeps ==
  ASSUME CallsInv, NEW t \in Threads, CloseFile(t)
  PROVE  CallsInv'
<1>1. PICK e : /\ pc[t] = "close" /\ dealt' = [dealt EXCEPT ![t] = @ \cup e]
               /\ answer' = [answer EXCEPT ![t] = [NoAnswer EXCEPT !.err = answer[t].err \cup e]]
               /\ pc' = [pc EXCEPT ![t] = "return"]
               /\ UNCHANGED <<call, checked, rules>>
  BY DEF CloseFile, At, Goto, Fail, Reply, Joined, callVars
<1>2. dealt[t] \subseteq answer[t].err /\ Op(t) = "ReadFile"
  BY <1>1 DEF CallsInv, CallInv, KeepsErrors, Clean, InReadFile
<1>3. Domains' /\ Alone(t)
  BY <1>1 DEF CallsInv, Domains, Alone, Labels
<1>4. /\ pc'[t] = "return" /\ dealt'[t] = dealt[t] \cup e /\ call'[t] = call[t]
      /\ answer'[t].err = answer[t].err \cup e /\ answer'[t].sub = None
  BY <1>1, PlainAnswer DEF CallsInv
<1>5. CallInv(t)'
  BY <1>2, <1>4 DEF CallInv, KeepsErrors, ClonesRules, Clean, InReadFile, Op, Path
<1> QED
  BY <1>1, <1>3, <1>5, OneMoves DEF CallsInv

LEMMA ReturnKeeps ==
  ASSUME CallsInv, NEW t \in Threads, Return(t)
  PROVE  CallsInv'
<1>1. /\ pc' = [pc EXCEPT ![t] = "idle"] /\ call' = [call EXCEPT ![t] = NoCall]
      /\ answer' = [answer EXCEPT ![t] = NoAnswer] /\ dealt' = [dealt EXCEPT ![t] = {}]
      /\ checked' = [checked EXCEPT ![t] = {}] /\ UNCHANGED rules
  BY DEF Return, Goto
<1>2. Domains' /\ Alone(t)
  BY <1>1 DEF CallsInv, Domains, Alone, Labels
<1>3. pc'[t] = "idle" /\ dealt'[t] = {} /\ answer'[t].sub = None
  BY <1>1 DEF CallsInv, NoAnswer
<1>4. CallInv(t)'
  BY <1>3 DEF CallInv, KeepsErrors, ClonesRules, Clean, InReadFile, Op, Path
<1> QED
  BY <1>1, <1>2, <1>4, OneMoves DEF CallsInv

LEMMA CallsFrame ==
  ASSUME CallsInv, UNCHANGED <<pc, call, answer, checked, dealt>>, \A r \in rules' : IsRule(r)
  PROVE  CallsInv'
  BY DEF CallsInv, CallInv, KeepsErrors, ClonesRules, Op, Path

LEMMA InitCallsInv == Init => CallsInv
<1> SUFFICES ASSUME Init PROVE CallsInv
  OBVIOUS
<1>1. /\ pc = [t \in Threads |-> "idle"] /\ call = [t \in Threads |-> NoCall]
      /\ answer = [t \in Threads |-> NoAnswer] /\ dealt = [t \in Threads |-> {}]
      /\ checked = [t \in Threads |-> {}] /\ rules = {}
  BY DEF Init
<1>2. NoAnswer.sub = None
  BY DEF NoAnswer
<1>3. ASSUME NEW t \in Threads PROVE CallInv(t)
  BY <1>1, <1>2 DEF CallInv, KeepsErrors, ClonesRules, Clean, InReadFile, Op, Path
<1> QED
  BY <1>1, <1>3 DEF CallsInv, Labels

LEMMA NextCallsInv == CallsInv /\ [Next]_vars => CallsInv'
<1> SUFFICES ASSUME CallsInv, [Next]_vars PROVE CallsInv'
  OBVIOUS
<1>1. CASE Build
  <2>1. OthersIdle
    BY <1>1 DEF Build, FileOption, DirOption, DirReturns, BadOption, Built
  <2> QED
    BY <2>1, CallsFrame DEF OthersIdle, callVars, CallsInv
<1>2. ASSUME NEW t \in Threads, Step(t) PROVE CallsInv'
  BY <1>2, BeginRefusedKeeps, BeginSimulatedKeeps, BeginDirectKeeps, LookUpKeeps,
     ReadFieldsKeeps, ListKeeps, CopyKeeps, ChangeKeeps, AddMarkKeeps, OpenedKeeps,
     ReadAllKeeps, CloseFileKeeps, ReturnKeeps
  DEF Step
<1>3. CASE AddRule
  BY <1>3, CallsFrame, MockFSAssumption DEF AddRule, CallsInv
<1>4. CASE ClearErrors
  BY <1>4, CallsFrame DEF ClearErrors
<1>5. CASE UNCHANGED vars
  BY <1>5, CallsFrame DEF vars, callVars, CallsInv
<1> QED
  BY <1>1, <1>2, <1>3, <1>4, <1>5 DEF Next, Done

LEMMA CallsInvHolds == Spec => []CallsInv
<1>1. Init => CallsInv
  BY InitCallsInv
<1>2. CallsInv /\ [Next]_vars => CallsInv'
  BY NextCallsInv
<1> QED
  BY <1>1, <1>2, PTL DEF Spec

-----------------------------------------------------------------------------
(* What follows from it *)

\* A call returns every failure that the injector gave to a part of it; for a
\* ReadFile that has failed in its Open, a Read or its Close too.
THEOREM NoFailureLost == Spec => []ErrorsReported
<1>1. CallsInv => ErrorsReported
  <2> SUFFICES ASSUME CallsInv, NEW t \in Threads, At(t, "return")
               PROVE  /\ dealt[t] \subseteq answer[t].err
                      /\ Op(t) # "ReadFile" /\ dealt[t] # {} =>
                           answer[t] = [NoAnswer EXCEPT !.err = dealt[t]]
    BY DEF ErrorsReported
  <2> QED
    BY DEF CallsInv, CallInv, KeepsErrors, Clean, At
<1> QED
  BY <1>1, CallsInvHolds, PTL

LEMMA PathsArePaths == Tree!Paths \subseteq AnyPath
  BY DEF Tree!Paths, Tree!Root, AnyPath, Here, Tree!Seqs!BoundedSeq, Tree!Seqs!SeqOf

\* Rules that are cloned differ in what they match only.
LEMMA RuleForSub ==
  ASSUME NEW r, IsRule(r), NEW m, IsMatcher(m)
  PROVE  LET q == [r EXCEPT !.match = m]
         IN IsRule(q) /\ q.op = r.op /\ q.err = r.err /\ q.always = r.always /\ q.match = m
  BY DEF IsRule

LEMMA ClonedRules ==
  ASSUME NEW R, \A r \in R : IsRule(r), NEW d \in AnyPath
  PROVE  /\ \A q \in RulesForSub(R, d) : IsRule(q) /\ \E r \in R :
              /\ q.op = r.op /\ q.err = r.err /\ q.always = r.always
              /\ q.match = MatcherForSub(r.match, d)
         /\ \A r \in R : \E q \in RulesForSub(R, d) :
              /\ q.op = r.op /\ q.err = r.err /\ q.always = r.always
              /\ q.match = MatcherForSub(r.match, d)
<1>1. ASSUME NEW r \in R
      PROVE  LET q == [r EXCEPT !.match = MatcherForSub(r.match, d)]
             IN /\ q \in RulesForSub(R, d) /\ IsRule(q)
                /\ q.op = r.op /\ q.err = r.err /\ q.always = r.always
                /\ q.match = MatcherForSub(r.match, d)
  <2>1. IsMatcher(MatcherForSub(r.match, d))
    BY CloneIsMatcher DEF IsRule
  <2>2. [r EXCEPT !.match = MatcherForSub(r.match, d)] \in RulesForSub(R, d)
    BY DEF RulesForSub
  <2> QED
    BY <2>1, <2>2, RuleForSub
<1>2. ASSUME NEW q \in RulesForSub(R, d)
      PROVE  IsRule(q) /\ \E r \in R :
               /\ q.op = r.op /\ q.err = r.err /\ q.always = r.always
               /\ q.match = MatcherForSub(r.match, d)
  <2>1. PICK r \in R : q = [r EXCEPT !.match = MatcherForSub(r.match, d)]
    BY DEF RulesForSub
  <2> QED
    BY <1>1, <2>1
<1>3. ASSUME NEW r \in R
      PROVE  \E q \in RulesForSub(R, d) :
               /\ q.op = r.op /\ q.err = r.err /\ q.always = r.always
               /\ q.match = MatcherForSub(r.match, d)
  BY <1>1
<1> QED
  BY <1>2, <1>3

\* What a call may fail with, in the sub file system and in its parent.
LEMMA OutcomesOfClone ==
  ASSUME NEW R, \A r \in R : IsRule(r), NEW d \in AnyPath, NEW p \in AnyPath, NEW op
  PROVE  Outcomes(RulesForSub(R, d), op, p) = Outcomes(R, op, Join(d, p))
<1>1. ASSUME NEW r \in R
      PROVE  Matches(MatcherForSub(r.match, d), p) <=> Matches(r.match, Join(d, p))
  BY ClonesAgree DEF CloneAgrees, IsRule
<1>2. \A q \in Applying(RulesForSub(R, d), op, p) : \E r \in Applying(R, op, Join(d, p)) :
        q.err = r.err /\ q.always = r.always
  BY <1>1, ClonedRules DEF Applying
<1>3. \A r \in Applying(R, op, Join(d, p)) : \E q \in Applying(RulesForSub(R, d), op, p) :
        q.err = r.err /\ q.always = r.always
  BY <1>1, ClonedRules DEF Applying
<1> QED
  BY <1>2, <1>3 DEF Outcomes

\* The rules that Sub clones, with all their matchers and prefixes, fail a call in
\* the sub file system when the parent's rules fail it there, whatever the depth
\* of Sub and the order of the other goroutines' calls.
THEOREM SubFailsLikeParent == Spec => []SubFailsAlike
<1>1. CallsInv => SubFailsAlike
  <2> SUFFICES ASSUME CallsInv, NEW t \in Threads, answer[t].sub # None,
                      NEW op, NEW p \in Tree!Paths, NEW e \in Tree!Paths
               PROVE  LET whole == Fails(checked[t], op, Join(Path(t), Join(e, p)))
                      IN /\ Fails(RulesForSub(answer[t].rules, e), op, p) = whole
                         /\ Fails(answer[t].rules, op, Join(e, p)) = whole
    BY DEF SubFailsAlike
  <2> DEFINE R == checked[t]  d == Path(t)
  <2>1. /\ \A r \in R : IsRule(r)
        /\ answer[t].rules = RulesForSub(R, d)
        /\ d \in AnyPath /\ e \in AnyPath /\ p \in AnyPath
    BY PathsArePaths DEF CallsInv, CallInv, ClonesRules
  <2>2. Join(e, p) \in AnyPath
    BY <2>1, JoinIsPath
  <2>3. \A q \in RulesForSub(R, d) : IsRule(q)
    BY <2>1, ClonedRules
  <2>4. Outcomes(RulesForSub(RulesForSub(R, d), e), op, p)
          = Outcomes(RulesForSub(R, d), op, Join(e, p))
    BY <2>1, <2>3, OutcomesOfClone
  <2>5. Outcomes(RulesForSub(R, d), op, Join(e, p)) = Outcomes(R, op, Join(d, Join(e, p)))
    BY <2>1, <2>2, OutcomesOfClone
  <2> QED
    BY <2>1, <2>4, <2>5 DEF Fails
<1> QED
  BY <1>1, CallsInvHolds, PTL

-----------------------------------------------------------------------------
(* The options of NewMockFS *)

\* The names of the first n Dir options around the next one, as a path.
Context(n) == IF n = 0 THEN Here ELSE [k \in 1 .. n |-> nest[k].name]

\* The context is the path of the Dir options that are being applied, each of
\* them will give its caller's context back, and nobody uses the file system.
BuildInv == phase = "build" =>
  /\ nest \in Seq([name : Names, callerCtx : AnyPath])
  /\ buildCtx = Context(Len(nest))
  /\ \A k \in 1 .. Len(nest) : nest[k].callerCtx = Context(k - 1)
  /\ files = written
  /\ \A t \in Threads : pc[t] = "idle"

\* Names put together are a path, and not ".".
LEMMA ContextIsPath ==
  ASSUME nest \in Seq([name : Names, callerCtx : AnyPath]), NEW n \in 0 .. Len(nest)
  PROVE  /\ Context(n) \in AnyPath
         /\ n # 0 => Context(n) \in Seq(Names) /\ Len(Context(n)) = n /\ Context(n) # Here
<1>1. Len(nest) \in Nat /\ n \in Nat
  BY LenProperties
<1>2. CASE n = 0
  BY <1>2 DEF Context, AnyPath
<1>3. CASE n # 0
  <2>0. \A k \in 1 .. n : k \in 1 .. Len(nest)
    BY <1>1
  <2>1. \A k \in 1 .. n : nest[k] \in [name : Names, callerCtx : AnyPath]
    BY <2>0, ElementOfSeq
  <2>2. \A k \in 1 .. n : nest[k].name \in Names
    BY <2>1
  <2>3. Context(n) \in [1 .. n -> Names]
    BY <1>3, <2>2 DEF Context
  <2>4. Context(n) \in Seq(Names) /\ Len(Context(n)) = n
    BY <1>1, <2>3
  <2>5. Context(n) # Here /\ Context(n) # <<>>
    BY <1>1, <1>3, <2>4, HereIsApart
  <2> QED
    BY <2>4, <2>5 DEF AnyPath
<1> QED
  BY <1>2, <1>3

\* An option puts its entry where it is written.
LEMMA PutInPlace ==
  ASSUME BuildInv, phase = "build", NEW x \in Names
  PROVE  InContext(x) = Written(x)
<1>1. Len(nest) \in Nat /\ nest \in Seq([name : Names, callerCtx : AnyPath])
  BY LenProperties DEF BuildInv
<1>2. CASE Len(nest) = 0
  <2>1. InContext(x) = <<x>>
    BY <1>2 DEF BuildInv, InContext, Tree!Child, Tree!Root, Context, Here
  <2>2. [k \in 1 .. Len(nest) |-> nest[k].name] = <<>>
    BY <1>2
  <2>3. <<x>> \in Seq(Names)
    OBVIOUS
  <2> QED
    BY <2>1, <2>2, <2>3, ConcatEmptySeq DEF Written
<1>3. CASE Len(nest) # 0
  <2> DEFINE s == [k \in 1 .. Len(nest) |-> nest[k].name]
  <2>1. Context(Len(nest)) = s
    BY <1>3 DEF Context
  <2>0. Len(nest) \in 0 .. Len(nest)
    BY <1>1
  <2>2. s \in Seq(Names) /\ s # Here
    BY <1>1, <1>3, <2>0, <2>1, ContextIsPath
  <2>3. buildCtx = s
    BY <2>1 DEF BuildInv
  <2>4. InContext(x) = Append(s, x)
    BY <2>2, <2>3 DEF InContext, Tree!Child, Tree!Root, Here
  <2>5. Append(s, x) = s \o <<x>>
    BY <2>2, AppendIsConcat
  <2> QED
    BY <2>4, <2>5 DEF Written
<1> QED
  BY <1>2, <1>3

LEMMA ContextKept ==
  ASSUME NEW n \in Nat, \A k \in 1 .. n : nest'[k] = nest[k]
  PROVE  Context(n)' = Context(n)
  BY DEF Context

LEMMA FileOptionKeeps ==
  ASSUME BuildInv, NEW x \in Names, FileOption(x)
  PROVE  BuildInv'
<1>1. phase = "build" /\ UNCHANGED <<phase, buildCtx, nest, pc>>
  BY DEF FileOption, Put, OthersIdle
<1>2. files' = written'
  BY <1>1, PutInPlace DEF FileOption, Put, BuildInv
<1> QED
  BY <1>1, <1>2 DEF BuildInv, Context

LEMMA DirOptionKeeps ==
  ASSUME BuildInv, NEW x \in Names, DirOption(x)
  PROVE  BuildInv'
<1> DEFINE option == [name |-> x, callerCtx |-> buildCtx]
<1>1. /\ phase = "build" /\ UNCHANGED <<phase, pc>>
      /\ nest' = Append(nest, option) /\ buildCtx' = InContext(x)
  BY DEF DirOption, Put, OthersIdle
<1>2. files' = written'
  BY <1>1, PutInPlace DEF DirOption, Put, BuildInv
<1>3. /\ nest \in Seq([name : Names, callerCtx : AnyPath]) /\ Len(nest) \in Nat
      /\ buildCtx = Context(Len(nest))
      /\ \A k \in 1 .. Len(nest) : nest[k].callerCtx = Context(k - 1)
  BY <1>1, LenProperties DEF BuildInv
<1>4. option \in [name : Names, callerCtx : AnyPath]
  <2>1. Len(nest) \in 0 .. Len(nest)
    BY <1>3
  <2> QED
    BY <1>3, <2>1, ContextIsPath
<1>5. /\ nest' \in Seq([name : Names, callerCtx : AnyPath])
      /\ Len(nest') = Len(nest) + 1
      /\ \A k \in 1 .. Len(nest) : nest'[k] = nest[k]
      /\ nest'[Len(nest) + 1] = option
  BY <1>1, <1>3, <1>4, AppendProperties
<1>6. ASSUME NEW n \in 0 .. Len(nest) PROVE Context(n)' = Context(n)
  <2>1. n \in Nat /\ \A k \in 1 .. n : k \in 1 .. Len(nest)
    BY <1>3
  <2> QED
    BY <1>5, <2>1, ContextKept
<1>7. ASSUME NEW k \in 1 .. Len(nest') PROVE nest'[k].callerCtx = Context(k - 1)'
  <2>1. CASE k \in 1 .. Len(nest)
    <3>1. k - 1 \in 0 .. Len(nest)
      BY <1>3, <2>1
    <3> QED
      BY <1>3, <1>5, <1>6, <2>1, <3>1
  <2>2. CASE k = Len(nest) + 1
    <3>1. k - 1 = Len(nest) /\ Len(nest) \in 0 .. Len(nest)
      BY <1>3, <2>2
    <3> QED
      BY <1>3, <1>5, <1>6, <2>2, <3>1
  <2> QED
    BY <1>3, <1>5, <2>1, <2>2
<1>8. buildCtx' = IF Len(nest') = 0 THEN Here ELSE [k \in 1 .. Len(nest') |-> nest'[k].name]
  <2> DEFINE s == [k \in 1 .. Len(nest) |-> nest[k].name]
             u == [k \in 1 .. Len(nest) + 1 |-> nest'[k].name]
  <2>1. buildCtx' = s \o <<x>>
    BY <1>1, PutInPlace DEF Written
  <2>2. Len(nest') # 0 /\ [k \in 1 .. Len(nest') |-> nest'[k].name] = u
    BY <1>3, <1>5
  <2>3. \A k \in 1 .. Len(nest) : nest[k].name \in Names
    <3>1. \A k \in 1 .. Len(nest) : nest[k] \in [name : Names, callerCtx : AnyPath]
      BY <1>3, ElementOfSeq
    <3> QED
      BY <3>1
  <2>4. s \in Seq(Names) /\ Len(s) = Len(nest) /\ <<x>> \in Seq(Names) /\ Len(<<x>>) = 1
    BY <1>3, <2>3
  <2>5. \A k \in 1 .. Len(nest) + 1 : u[k] = IF k <= Len(nest) THEN s[k] ELSE x
    BY <1>3, <1>5
  <2>6. u \in Seq(Names) /\ Len(u) = Len(nest) + 1
    <3>1. \A k \in 1 .. Len(nest) + 1 : u[k] \in Names
      BY <1>3, <2>3, <2>5
    <3> QED
      BY <1>3, <3>1
  <2>7. /\ s \o <<x>> \in Seq(Names) /\ Len(s \o <<x>>) = Len(nest) + 1
        /\ \A k \in 1 .. Len(nest) + 1 :
             (s \o <<x>>)[k] = IF k <= Len(nest) THEN s[k] ELSE <<x>>[k - Len(nest)]
    BY <2>4, ConcatProperties
  <2>8. \A k \in 1 .. Len(nest) + 1 : k <= Len(nest) \/ k - Len(nest) = 1
    BY <1>3
  <2>9. \A k \in 1 .. Len(nest) + 1 : u[k] = (s \o <<x>>)[k]
    BY <2>5, <2>7, <2>8
  <2>10. u = s \o <<x>>
    BY <2>6, <2>7, <2>9, SeqEqual
  <2> QED
    BY <2>1, <2>2, <2>10
<1> QED
  <2>1. \A t \in Threads : pc'[t] = "idle"
    BY <1>1 DEF BuildInv
  <2>2. (buildCtx = Context(Len(nest)))'
    BY <1>8 DEF Context
  <2> QED
    BY <1>2, <1>5, <1>7, <2>1, <2>2 DEF BuildInv

LEMMA DirReturnsKeeps ==
  ASSUME BuildInv, DirReturns
  PROVE  BuildInv'
<1>1. /\ phase = "build" /\ nest # <<>> /\ UNCHANGED <<files, phase, written, pc>>
      /\ nest' = SubSeq(nest, 1, Len(nest) - 1)
      /\ buildCtx' = nest[Len(nest)].callerCtx
  BY DEF DirReturns, OthersIdle, Tree!Seqs!Front, Tree!Seqs!Last
<1>2. /\ nest \in Seq([name : Names, callerCtx : AnyPath])
      /\ \A k \in 1 .. Len(nest) : nest[k].callerCtx = Context(k - 1)
  BY <1>1 DEF BuildInv
<1>3. Len(nest) \in Nat /\ Len(nest) > 0
  BY <1>1, <1>2, EmptySeq
<1>4. \A k \in 1 .. Len(nest) - 1 : nest[k] \in [name : Names, callerCtx : AnyPath]
  <2>1. \A k \in 1 .. Len(nest) - 1 : k \in 1 .. Len(nest)
    BY <1>3
  <2> QED
    BY <1>2, <2>1, ElementOfSeq
<1> PICK n \in Nat : n = Len(nest) - 1
  BY <1>3
<1>5. /\ nest' \in Seq([name : Names, callerCtx : AnyPath])
      /\ Len(nest') = n
      /\ \A k \in 1 .. n : nest'[k] = nest[k]
  <2>1. /\ nest' \in Seq([name : Names, callerCtx : AnyPath])
        /\ Len(nest') = IF 1 <= n THEN n - 1 + 1 ELSE 0
        /\ \A k \in 1 .. n - 1 + 1 : nest'[k] = nest[1 + k - 1]
    BY <1>1, <1>4, SubSeqProperties
  <2>2. n - 1 + 1 = n /\ (~(1 <= n) => n = 0) /\ \A k \in 1 .. n : 1 + k - 1 = k
    OBVIOUS
  <2> QED
    BY <2>1, <2>2
<1>6. ASSUME NEW m \in 0 .. n PROVE Context(m)' = Context(m)
  <2>1. m \in Nat /\ \A k \in 1 .. m : k \in 1 .. n
    OBVIOUS
  <2> QED
    BY <1>5, <2>1, ContextKept
<1>7. ASSUME NEW k \in 1 .. Len(nest') PROVE nest'[k].callerCtx = Context(k - 1)'
  <2>1. k \in 1 .. n /\ k \in 1 .. Len(nest) /\ k - 1 \in 0 .. n
    BY <1>3, <1>5
  <2> QED
    BY <1>2, <1>5, <1>6, <2>1
<1>8. (buildCtx = Context(Len(nest)))'
  <2>1. Len(nest) \in 1 .. Len(nest) /\ Len(nest) - 1 = n /\ n \in 0 .. n
    BY <1>3
  <2>2. buildCtx' = Context(n)'
    BY <1>1, <1>2, <1>6, <2>1
  <2> QED
    BY <1>5, <2>2 DEF Context
<1>9. files' = written' /\ \A t \in Threads : pc'[t] = "idle"
  BY <1>1 DEF BuildInv
<1> QED
  BY <1>5, <1>7, <1>8, <1>9 DEF BuildInv

\* No call begins before NewMockFS has returned, and so no other one goes on.
LEMMA StepsAfterBuild ==
  ASSUME BuildInv, NEW t \in Threads, Step(t)
  PROVE  phase # "build" /\ UNCHANGED phase
<1>1. UNCHANGED phase
  BY DEF Step, BeginRefused, BeginSimulated, BeginDirect, Begin, LookUp, ReadFields, List, Copy,
         Change, Mkdir, MkdirAll, AddFile, Remove, RemoveAll, WriteFile, RenameNothing,
         RenameOne, RenameBegin, RenameVisit, RenameEnd, EndSection, AddMark, Opened, ReadAll,
         CloseFile, Return, Unchanged, buildVars
<1>2. pc[t] # "idle" \/ phase = "ready"
  BY DEF Step, BeginRefused, BeginSimulated, BeginDirect, MayBegin, MoreCalls, LookUp,
         ReadFields, List, Copy, Change, Mkdir, MkdirAll, AddFile, Remove, RemoveAll, WriteFile,
         RenameNothing, RenameOne, RenameBegin, RenameVisit, RenameEnd, AddMark, Opened,
         ReadAll, CloseFile, Return, Section, At
<1> QED
  BY <1>1, <1>2 DEF BuildInv

LEMMA NextBuildInv == BuildInv /\ [Next]_vars => BuildInv'
<1> SUFFICES ASSUME BuildInv, [Next]_vars PROVE BuildInv'
  OBVIOUS
<1>1. ASSUME NEW x \in Names, FileOption(x) \/ DirOption(x) PROVE BuildInv'
  BY <1>1, FileOptionKeeps, DirOptionKeeps
<1>2. CASE DirReturns
  BY <1>2, DirReturnsKeeps
<1>3. CASE BadOption \/ Built
  BY <1>3 DEF BadOption, Built, BuildInv
<1>4. ASSUME NEW t \in Threads, Step(t) PROVE BuildInv'
  BY <1>4, StepsAfterBuild DEF BuildInv
<1>5. CASE AddRule \/ ClearErrors
  BY <1>5 DEF AddRule, ClearErrors, MoreCalls, buildVars, BuildInv
<1>6. CASE UNCHANGED vars
  BY <1>6 DEF vars, buildVars, treeVars, BuildInv, Context
<1> QED
  BY <1>1, <1>2, <1>3, <1>4, <1>5, <1>6 DEF Next, Build, Done

LEMMA InitBuildInv == Init => BuildInv
<1> SUFFICES ASSUME Init PROVE BuildInv
  OBVIOUS
<1>1. /\ nest = <<>> /\ buildCtx = Here /\ files = written
      /\ pc = [t \in Threads |-> "idle"]
  BY DEF Init
<1>2. nest \in Seq([name : Names, callerCtx : AnyPath]) /\ Len(nest) = 0
  BY <1>1, EmptySeq
<1> QED
  BY <1>1, <1>2 DEF BuildInv, Context

\* Nested Dir options fill the directory they are written in, for any nesting,
\* order and number of options, a directory option among its siblings included.
THEOREM OptionsFillTheirDirectory == Spec => []BuiltWhereWritten
<1>1. BuildInv => BuiltWhereWritten
  BY DEF BuildInv, BuiltWhereWritten
<1> QED
  BY <1>1, InitBuildInv, NextBuildInv, PTL DEF Spec

-----------------------------------------------------------------------------
(* What is proved of FileTree is so of the tree here *)

TreeProofs == INSTANCE FileTreeProofs

\* The definitions are the same.
LEMMA SameType == Tree!TypeOK <=> TreeProofs!TypeOK
  BY Zenon
  DEF Tree!TypeOK, TreeProofs!TypeOK, Tree!Trees, TreeProofs!Trees, Tree!Keys, TreeProofs!Keys,
      Tree!Paths, TreeProofs!Paths, Tree!Root, TreeProofs!Root, Tree!Entries, TreeProofs!Entries,
      Tree!NoMove, TreeProofs!NoMove, Tree!Exists, TreeProofs!Exists, Tree!Below, TreeProofs!Below,
      Tree!Under, TreeProofs!Under, Tree!Seqs!BoundedSeq, TreeProofs!Seqs!BoundedSeq,
      Tree!Seqs!IsStrictPrefix, TreeProofs!Seqs!IsStrictPrefix, Tree!Seqs!IsPrefix,
      TreeProofs!Seqs!IsPrefix, Tree!Seqs!SeqOf, TreeProofs!Seqs!SeqOf

LEMMA SameNext == Tree!Next => TreeProofs!Next
  BY ZenonT(60)
  DEF Tree!Next, TreeProofs!Next, Tree!Mkdir, TreeProofs!Mkdir, Tree!MkdirAll, TreeProofs!MkdirAll,
      Tree!Remove, TreeProofs!Remove, Tree!RemoveAll, TreeProofs!RemoveAll, Tree!AddFile,
      TreeProofs!AddFile, Tree!WriteFile, TreeProofs!WriteFile, Tree!RenameOne,
      TreeProofs!RenameOne, Tree!RenameBegin, TreeProofs!RenameBegin, Tree!RenameVisit,
      TreeProofs!RenameVisit, Tree!RenameEnd, TreeProofs!RenameEnd, Tree!Change, TreeProofs!Change,
      Tree!Unlocked, TreeProofs!Unlocked, Tree!MkdirTree, TreeProofs!MkdirTree, Tree!MkdirErr,
      TreeProofs!MkdirErr, Tree!Parent, TreeProofs!Parent, Tree!Root, TreeProofs!Root, Tree!Exists,
      TreeProofs!Exists, Tree!IsDir, TreeProofs!IsDir, Tree!IsFile, TreeProofs!IsFile, Tree!Dir,
      TreeProofs!Dir, Tree!File, TreeProofs!File, Tree!Without, TreeProofs!Without,
      Tree!MkdirAllTree, TreeProofs!MkdirAllTree, Tree!Blocked, TreeProofs!Blocked, Tree!Steps,
      TreeProofs!Steps, Tree!MkdirAllErr, TreeProofs!MkdirAllErr, Tree!WithParents,
      TreeProofs!WithParents, Tree!ParentsErr, TreeProofs!ParentsErr, Tree!AddFileErr,
      TreeProofs!AddFileErr, Tree!AddFileTree, TreeProofs!AddFileTree, Tree!RemoveErr,
      TreeProofs!RemoveErr, Tree!RemoveTree, TreeProofs!RemoveTree, Tree!RemoveAllTree,
      TreeProofs!RemoveAllTree, Tree!WriteFileErr, TreeProofs!WriteFileErr, Tree!WriteFileTree,
      TreeProofs!WriteFileTree, Tree!ToVisit, TreeProofs!ToVisit, Tree!Under, TreeProofs!Under,
      Tree!Below, TreeProofs!Below, Tree!Rebase, TreeProofs!Rebase, Tree!Keys, TreeProofs!Keys,
      Tree!Paths, TreeProofs!Paths, Tree!NoMove, TreeProofs!NoMove, Tree!Trees, TreeProofs!Trees,
      Tree!Entries, TreeProofs!Entries, Tree!vars, TreeProofs!vars, Tree!Seqs!BoundedSeq,
      TreeProofs!Seqs!BoundedSeq, Tree!Seqs!SeqOf, TreeProofs!Seqs!SeqOf, Tree!Seqs!IsStrictPrefix,
      TreeProofs!Seqs!IsStrictPrefix, Tree!Seqs!IsPrefix, TreeProofs!Seqs!IsPrefix, Tree!Seqs!Front,
      TreeProofs!Seqs!Front

LEMMA SameTrees == Tree!Trees = TreeProofs!Trees
  BY Zenon
  DEF Tree!Trees, TreeProofs!Trees, Tree!Keys, TreeProofs!Keys, Tree!Paths, TreeProofs!Paths,
      Tree!Root, TreeProofs!Root, Tree!Entries, TreeProofs!Entries, Tree!Seqs!BoundedSeq,
      TreeProofs!Seqs!BoundedSeq, Tree!Seqs!SeqOf, TreeProofs!Seqs!SeqOf

\* The assumptions on the constants of FileTree.
LEMMA TreeConstants ==
  /\ Dot \notin Names
  /\ MaxDepth \in Nat \ {0}
  /\ MaxSize \in Nat
  /\ None \notin [dir : BOOLEAN, size : Nat]
  /\ CreateIfMissing \in BOOLEAN
  /\ WriteMode \in {"readOnly", "overwrite", "append"}
  /\ None \notin TreeProofs!Trees /\ None \notin Tree!Trees
  BY MockFSAssumption, SameTrees, Zenon

\* The types of the tree.
LEMMA TreeTypeKept ==
  ASSUME Tree!TypeOK, Tree!Next
  PROVE  Tree!TypeOK'
<1>1. TreeProofs!TypeOK /\ [TreeProofs!Next]_(TreeProofs!vars)
  BY SameType, SameNext
<1>2. TreeProofs!TypeOK'
  BY <1>1, TreeConstants, TreeProofs!NextTreeType, Zenon
<1> QED
  BY <1>2, SameType, PTL
-----------------------------------------------------------------------------
(* Types, and who holds the lock *)

\* The bounds; while the options are applied there are no calls and no rules.
Bounds ==
  /\ phase \in {"build", "ready", "failed"}
  /\ options \in 0 .. MaxOptions /\ made \in 0 .. MaxCalls[options]
  /\ Len(nest) <= MaxDepth
  /\ phase = "build" => made = 0 /\ rules = {}
  /\ phase # "build" => buildCtx = Here

Counters == [Simulated -> {s \in [total : Nat, failure : Nat] : s.failure <= s.total}]

\* Where a call has a path that is not refused.
InCall == Labels \ {"idle", "return"}

CallTyped(t) ==
  /\ call[t] \in Calls \cup {NoCall}
  /\ pc[t] \in InCall => call[t] \in Calls /\ ~Refused(call[t])

\* The lock is kept between two steps by one Rename, of the paths of its call.
Mover ==
  /\ \A t \in Threads : At(t, "moving") =>
       ~Tree!Unlocked /\ moving.from = Path(t) /\ moving.to = call[t].to
  /\ \A t, u \in Threads : At(t, "moving") /\ At(u, "moving") => t = u
  /\ ~Tree!Unlocked => \E t \in Threads : At(t, "moving")

TypeInv ==
  /\ Tree!TypeOK
  /\ Bounds
  /\ stats \in Counters
  /\ held \in [Threads -> Tree!Entries \cup {None}]
  /\ \A t \in Threads : CallTyped(t)
  /\ Mover

Inv == CallsInv /\ BuildInv /\ TypeInv

\* A call begins.
Starts(t) == \E c \in Calls, l \in {"lock", "return", "opened"} :
  /\ At(t, "idle") /\ MoreCalls
  /\ Begin(t, c) /\ Goto(t, l)
  /\ l # "return" => ~Refused(c)

\* A call looks at the tree, or goes on, and changes nothing but its answer, the
\* rules and the statistics.
Looks(t) == \E l \in Labels \ {"idle", "lock", "moving"} :
  /\ pc[t] \in InCall \ {"moving"}
  /\ Goto(t, l)
  /\ UNCHANGED <<treeVars, buildVars, call, held, made, seen, tally>>

LEMMA StepKinds ==
  ASSUME NEW t \in Threads, Step(t)
  PROVE  Starts(t) \/ Looks(t) \/ Change(t) \/ Return(t)
<1>1. ASSUME BeginRefused(t) PROVE Starts(t)
  BY <1>1 DEF BeginRefused, MayBegin, Starts
<1>2. ASSUME BeginDirect(t) PROVE Starts(t)
  BY <1>2 DEF BeginDirect, MayBegin, Starts
<1>3. ASSUME BeginSimulated(t) PROVE Starts(t)
  <2> PICK c \in Calls : /\ At(t, "idle") /\ MoreCalls /\ ~Refused(c) /\ Begin(t, c)
                         /\ \E op : Injected(t, op, c.path, "lock")
    BY <1>3 DEF BeginSimulated, MayBegin
  <2>1. \E l \in {"lock", "return", "opened"} : Goto(t, l)
    BY DEF Injected
  <2> QED
    BY <2>1 DEF Starts
<1>4. ASSUME LookUp(t) PROVE Looks(t)
  <2>1. \E l \in {"fields", "list", "opened", "return"} : Goto(t, l)
    BY <1>4 DEF LookUp
  <2> QED
    BY <1>4, <2>1 DEF LookUp, Section, At, Looks, InCall, Labels, Unchanged, callVars
<1>5. ASSUME ReadFields(t) \/ List(t) \/ Copy(t) PROVE Looks(t)
  BY <1>5 DEF ReadFields, List, Copy, At, Looks, InCall, Labels, Unchanged, callVars
<1>6. ASSUME AddMark(t) \/ Opened(t) \/ ReadAll(t) \/ CloseFile(t) PROVE Looks(t)
  BY <1>6 DEF AddMark, Opened, ReadAll, CloseFile, At, Looks, InCall, Labels, callVars
<1> QED
  BY <1>1, <1>2, <1>3, <1>4, <1>5, <1>6 DEF Step

\* A call that goes on has paths and a size.
LEMMA CallArguments ==
  ASSUME TypeInv, NEW t \in Threads, pc[t] \in InCall
  PROVE  /\ Path(t) \in Tree!Paths /\ call[t].to \in Tree!Paths
         /\ call[t].size \in 0 .. MaxSize
         /\ Path(t) \in Tree!Keys /\ call[t].to \in Tree!Keys
<1>1. call[t] \in Calls /\ ~Refused(call[t])
  BY DEF TypeInv, CallTyped
<1>2. IsCall(call[t])
  BY <1>1, MockFSAssumption
<1> QED
  BY <1>1, <1>2 DEF IsCall, Refused, Path, Tree!Keys

\* What a call does to the tree is a step of FileTree.
LEMMA ChangeIsNext ==
  ASSUME TypeInv, NEW t \in Threads, Change(t)
  PROVE  Tree!Next \/ UNCHANGED treeVars
<1>1. pc[t] \in {"lock", "moving"}
  BY DEF Change, Mkdir, MkdirAll, AddFile, Remove, RemoveAll, WriteFile, RenameNothing,
         RenameOne, RenameBegin, RenameVisit, RenameEnd, Section, At
<1>2. /\ Path(t) \in Tree!Paths /\ call[t].to \in Tree!Paths
      /\ call[t].size \in 0 .. MaxSize
  BY <1>1, CallArguments DEF InCall, Labels
<1>3. CASE Mkdir(t) \/ MkdirAll(t) \/ Remove(t) \/ RemoveAll(t)
  BY <1>2, <1>3 DEF Mkdir, MkdirAll, Remove, RemoveAll, Tree!Next
<1>4. CASE AddFile(t) \/ WriteFile(t)
  BY <1>2, <1>4 DEF AddFile, WriteFile, Tree!Next
<1>5. CASE RenameNothing(t)
  BY <1>5 DEF RenameNothing
<1>6. CASE RenameOne(t) \/ RenameBegin(t)
  BY <1>2, <1>6 DEF RenameOne, RenameBegin, Tree!Next
<1>7. CASE RenameVisit(t) \/ RenameEnd(t)
  BY <1>7 DEF RenameVisit, RenameEnd, Tree!Next
<1> QED
  BY <1>3, <1>4, <1>5, <1>6, <1>7 DEF Change

\* The steps that leave the tree alone leave its types.
LEMMA SameTreeTyped ==
  ASSUME Tree!TypeOK, UNCHANGED treeVars
  PROVE  Tree!TypeOK'
  BY DEF Tree!TypeOK, treeVars, Tree!Below, Tree!Exists, Tree!Under, Tree!NoMove, Tree!Trees,
         Tree!Keys, Tree!Paths, Tree!Entries, Tree!Root

\* The statistics are changed by Opened and by Return only.
LEMMA RecordedTyped ==
  ASSUME NEW s \in Counters, NEW op \in Simulated, NEW failed
  PROVE  /\ Recorded(s, op, failed) \in Counters
         /\ Recorded(s, op, failed)[op].total = s[op].total + 1
         /\ Recorded(s, op, failed)[op].failure = s[op].failure + IF failed THEN 1 ELSE 0
         /\ \A o \in Simulated \ {op} : Recorded(s, op, failed)[o] = s[o]
<1> DEFINE n == IF failed THEN 1 ELSE 0
           k == [total |-> s[op].total + 1, failure |-> s[op].failure + n]
<1>1. s[op] \in [total : Nat, failure : Nat] /\ s[op].failure <= s[op].total
  BY DEF Counters
<1>2. n \in {0, 1}
  OBVIOUS
<1>3. Recorded(s, op, failed) = [s EXCEPT ![op] = k]
  BY DEF Recorded
<1> HIDE DEF n
<1>4. /\ k \in [total : Nat, failure : Nat] /\ k.failure <= k.total
      /\ k.total = s[op].total + 1 /\ k.failure = s[op].failure + n
  BY <1>1, <1>2
<1> HIDE DEF k
<1>5. /\ Recorded(s, op, failed) \in Counters
      /\ Recorded(s, op, failed)[op] = k
      /\ \A o \in Simulated \ {op} : Recorded(s, op, failed)[o] = s[o]
  BY <1>3, <1>4 DEF Counters
<1> QED
  BY <1>4, <1>5 DEF n

LEMMA StepStats ==
  ASSUME stats \in Counters, NEW t \in Threads, Step(t)
  PROVE  stats' \in Counters
<1>1. CASE Opened(t)
  <2>1. stats' = [stats EXCEPT !["Open"] = Recorded(stats, "Open", answer[t].err # {})["Open"]]
    BY <1>1 DEF Opened
  <2>2. Recorded(stats, "Open", answer[t].err # {}) \in Counters
    BY RecordedTyped DEF Simulated
  <2> QED
    BY <2>1, <2>2 DEF Counters, Simulated
<1>2. CASE Return(t)
  BY <1>2, RecordedTyped DEF Return, DeferredRecord
<1>3. CASE UNCHANGED stats
  BY <1>3
<1> QED
  BY <1>1, <1>2, <1>3
  DEF Step, BeginRefused, BeginSimulated, BeginDirect, Begin, LookUp, ReadFields, List, Copy,
      Change, Mkdir, MkdirAll, AddFile, Remove, RemoveAll, WriteFile, RenameNothing,
      RenameOne, RenameBegin, RenameVisit, RenameEnd, EndSection, AddMark, ReadAll,
      CloseFile, Unchanged

\* What two of the parts are about, when one goroutine goes from place to place.
LEMMA GoesTyped ==
  ASSUME TypeInv, pc \in [Threads -> Labels], NEW t \in Threads, NEW l \in Labels, Goto(t, l),
         l \in InCall => pc[t] \in InCall,
         l = "moving" <=> pc[t] = "moving",
         UNCHANGED <<moving, call>>
  PROVE  (\A u \in Threads : CallTyped(u)') /\ Mover'
<1>1. /\ pc'[t] = l /\ \A u \in Threads \ {t} : pc'[u] = pc[u]
      /\ \A u \in Threads : CallTyped(u)
      /\ Mover
  BY DEF Goto, TypeInv
<1>2. \A u \in Threads : At(u, "moving")' <=> At(u, "moving")
  BY <1>1 DEF At
<1>3. Mover'
  BY <1>1, <1>2 DEF Mover, Tree!Unlocked, Tree!NoMove, Path
<1>4. ASSUME NEW u \in Threads PROVE CallTyped(u)'
  BY <1>1 DEF CallTyped, Refused
<1> QED
  BY <1>3, <1>4

LEMMA LooksTyped ==
  ASSUME Inv, NEW t \in Threads, Step(t), Looks(t)
  PROVE  TypeInv'
<1> PICK l \in Labels \ {"idle", "lock", "moving"} :
         /\ pc[t] \in InCall \ {"moving"}
         /\ Goto(t, l)
         /\ UNCHANGED <<treeVars, buildVars, call, held, made, seen, tally>>
  BY DEF Looks
<1>1. Tree!TypeOK'
  BY SameTreeTyped DEF Inv, TypeInv
<1>2. Bounds'
  BY StepsAfterBuild DEF Inv, TypeInv, Bounds, buildVars
<1>3. stats' \in Counters
  BY StepStats DEF Inv, TypeInv
<1>4. (\A u \in Threads : CallTyped(u)') /\ Mover'
  BY GoesTyped DEF Inv, CallsInv, treeVars
<1> QED
  BY <1>1, <1>2, <1>3, <1>4 DEF Inv, TypeInv

LEMMA StartsTyped ==
  ASSUME Inv, NEW t \in Threads, Step(t), Starts(t)
  PROVE  TypeInv'
<1> PICK c \in Calls, l \in {"lock", "return", "opened"} :
         /\ At(t, "idle") /\ MoreCalls
         /\ Begin(t, c) /\ Goto(t, l)
         /\ l # "return" => ~Refused(c)
  BY DEF Starts
<1>1. Tree!TypeOK'
  BY SameTreeTyped DEF Inv, TypeInv, Begin
<1>2. Bounds'
  <2>1. /\ made \in 0 .. MaxCalls[options] /\ made < MaxCalls[options] /\ options \in 0 .. MaxOptions
        /\ made' = made + 1 /\ options' = options
    BY DEF Inv, TypeInv, Bounds, MoreCalls, Begin, buildVars
  <2>2. made' \in 0 .. MaxCalls[options]
    BY <2>1, MockFSAssumption
  <2> QED
    BY <2>1, <2>2, StepsAfterBuild DEF Inv, TypeInv, Bounds, Begin, buildVars
<1>3. stats' \in Counters
  BY StepStats DEF Inv, TypeInv
<1>4. /\ pc'[t] = l /\ pc[t] = "idle" /\ \A u \in Threads \ {t} : pc'[u] = pc[u]
      /\ call'[t] = c /\ \A u \in Threads \ {t} : call'[u] = call[u]
      /\ UNCHANGED <<moving, held>>
  BY DEF Inv, CallsInv, Goto, Begin, At, treeVars
<1>5. ASSUME NEW u \in Threads PROVE CallTyped(u)'
  BY <1>4 DEF Inv, TypeInv, CallTyped, Refused, InCall
<1>6. \A u \in Threads : At(u, "moving")' <=> At(u, "moving")
  BY <1>4 DEF At
<1>7. Mover'
  BY <1>4, <1>6 DEF Inv, TypeInv, Mover, At, Tree!Unlocked, Tree!NoMove, Path
<1> QED
  BY <1>1, <1>2, <1>3, <1>4, <1>5, <1>7 DEF Inv, TypeInv

LEMMA ReturnTyped ==
  ASSUME Inv, NEW t \in Threads, Return(t)
  PROVE  TypeInv'
<1>1. Tree!TypeOK'
  BY SameTreeTyped DEF Inv, TypeInv, Return
<1>2. Bounds'
  BY StepsAfterBuild DEF Inv, TypeInv, Bounds, Return, buildVars, Step
<1>3. stats' \in Counters
  BY StepStats DEF Inv, TypeInv, Step
<1>4. /\ pc'[t] = "idle" /\ pc[t] = "return" /\ \A u \in Threads \ {t} : pc'[u] = pc[u]
      /\ call'[t] = NoCall /\ \A u \in Threads \ {t} : call'[u] = call[u]
      /\ UNCHANGED moving
  BY DEF Inv, CallsInv, Goto, Return, At, treeVars
<1>5. ASSUME NEW u \in Threads PROVE CallTyped(u)'
  BY <1>4 DEF Inv, TypeInv, CallTyped, Refused, InCall
<1>6. \A u \in Threads : At(u, "moving")' <=> At(u, "moving")
  BY <1>4 DEF At
<1>7. Mover'
  BY <1>4, <1>6 DEF Inv, TypeInv, Mover, At, Tree!Unlocked, Tree!NoMove, Path
<1>8. held' \in [Threads -> Tree!Entries \cup {None}]
  BY DEF Inv, TypeInv, Return
<1> QED
  BY <1>1, <1>2, <1>3, <1>5, <1>7, <1>8 DEF Inv, TypeInv

\* A call that changes the tree does it in one section, or is a Rename that begins
\* its loop, visits one entry in it or ends it.
ChangeForm(t, err, lost, l) ==
  /\ EndSection(t, err, lost, l)
  /\ \/ /\ pc[t] = "lock" /\ l \in {"return", "mark"}
        /\ Tree!Unlocked /\ UNCHANGED moving
     \/ /\ pc[t] = "lock" /\ l = "moving" /\ Tree!RenameBegin(Path(t), call[t].to)
     \/ /\ pc[t] = "moving" /\ l = "moving"
        /\ \E q \in Tree!Keys : Tree!RenameVisit(q)
     \/ /\ pc[t] = "moving" /\ l = "return" /\ Tree!RenameEnd

LEMMA ChangeForms ==
  ASSUME NEW t \in Threads, Change(t)
  PROVE  \E err, lost, l : ChangeForm(t, err, lost, l)
<1>1. CASE Mkdir(t) \/ MkdirAll(t) \/ Remove(t) \/ AddFile(t) \/ WriteFile(t)
  <2>1. \E err, lost : EndSection(t, err, lost, "return")
    BY <1>1 DEF Mkdir, MkdirAll, AddFile, Remove, WriteFile
  <2>2. pc[t] = "lock" /\ Tree!Unlocked /\ UNCHANGED moving
    BY <1>1 DEF Mkdir, MkdirAll, AddFile, Remove, WriteFile, Section, At, Tree!Mkdir,
                Tree!MkdirAll, Tree!AddFile, Tree!Remove, Tree!WriteFile, Tree!Change
  <2> QED
    BY <2>1, <2>2 DEF ChangeForm
<1>2. CASE RemoveAll(t)
  <2> DEFINE lost == {Path(t)} \cup Tree!Under[Path(t)]
             l    == IF Op(t) = "MarkNonExistent" THEN "mark" ELSE "return"
  <2>1. EndSection(t, "nil", lost, l) /\ l \in {"return", "mark"}
    BY <1>2 DEF RemoveAll
  <2>2. pc[t] = "lock" /\ Tree!Unlocked /\ UNCHANGED moving
    BY <1>2 DEF RemoveAll, Section, At, Tree!RemoveAll, Tree!Change
  <2> QED
    BY <2>1, <2>2 DEF ChangeForm
<1>3. CASE RenameNothing(t) \/ RenameOne(t)
  <2>1. \E err, lost : EndSection(t, err, lost, "return")
    BY <1>3 DEF RenameNothing, RenameOne
  <2>2. pc[t] = "lock" /\ Tree!Unlocked /\ UNCHANGED moving
    BY <1>3 DEF RenameNothing, RenameOne, Section, At, Tree!RenameOne, Tree!Change, treeVars
  <2> QED
    BY <2>1, <2>2 DEF ChangeForm
<1>4. CASE RenameBegin(t)
  BY <1>4 DEF RenameBegin, Section, At, ChangeForm
<1>5. CASE RenameVisit(t)
  BY <1>5 DEF RenameVisit, At, ChangeForm
<1>6. CASE RenameEnd(t)
  BY <1>6 DEF RenameEnd, At, ChangeForm
<1> QED
  BY <1>1, <1>2, <1>3, <1>4, <1>5, <1>6 DEF Change

\* The loop of a Rename keeps its paths and has a tree to go back to.
LEMMA VisitKeepsMove ==
  ASSUME Tree!TypeOK, ~Tree!Unlocked, NEW q \in Tree!Keys, Tree!RenameVisit(q)
  PROVE  /\ ~Tree!Unlocked'
         /\ moving'.from = moving.from /\ moving'.to = moving.to
         /\ moving'.before = moving.before
<1>1. /\ moving \in [from : Tree!Paths, to : Tree!Paths, todo : SUBSET Tree!Keys,
                      added : SUBSET Tree!Keys, before : Tree!Trees]
      /\ moving.before # None
  BY TreeConstants DEF Tree!TypeOK, Tree!Unlocked
<1>2. PICK todo, added : moving' = [moving EXCEPT !.todo = todo, !.added = added]
  BY DEF Tree!RenameVisit
<1>3. /\ moving'.from = moving.from /\ moving'.to = moving.to
      /\ moving'.before = moving.before
  BY <1>1, <1>2
<1> QED
  BY <1>1, <1>3 DEF Tree!Unlocked, Tree!NoMove

LEMMA ChangeMover ==
  ASSUME TypeInv, pc \in [Threads -> Labels], NEW t \in Threads,
         NEW err, NEW lost, NEW l, ChangeForm(t, err, lost, l)
  PROVE  Mover'
<1>1. /\ pc'[t] = l /\ \A u \in Threads \ {t} : pc'[u] = pc[u]
      /\ call' = call
      /\ Tree!TypeOK /\ Mover
  BY DEF ChangeForm, EndSection, Goto, TypeInv
<1>2. CASE pc[t] = "lock" /\ l # "moving" /\ UNCHANGED moving
  <2>1. \A u \in Threads : At(u, "moving")' <=> At(u, "moving")
    BY <1>1, <1>2 DEF At
  <2> QED
    BY <1>1, <1>2, <2>1 DEF Mover, Tree!Unlocked, Tree!NoMove, Path
<1>3. CASE pc[t] = "lock" /\ l = "moving" /\ Tree!RenameBegin(Path(t), call[t].to)
  <2>0. files # None
    BY <1>1, TreeConstants DEF Tree!TypeOK
  <2>1. /\ moving'.from = Path(t) /\ moving'.to = call[t].to
        /\ moving'.before = files /\ Tree!Unlocked
    BY <1>3 DEF Tree!RenameBegin
  <2>2. ~Tree!Unlocked'
    BY <2>0, <2>1 DEF Tree!Unlocked, Tree!NoMove
  <2>3. \A u \in Threads : At(u, "moving")' <=> u = t
    BY <1>1, <1>3, <2>1 DEF At, Mover
  <2> QED
    BY <1>1, <2>1, <2>2, <2>3 DEF Mover, Path
<1>4. CASE pc[t] = "moving" /\ l = "moving" /\ \E q \in Tree!Keys : Tree!RenameVisit(q)
  <2>1. ~Tree!Unlocked
    BY <1>1, <1>4 DEF Mover, At
  <2>2. ~Tree!Unlocked' /\ moving'.from = moving.from /\ moving'.to = moving.to
    BY <1>1, <1>4, <2>1, VisitKeepsMove
  <2>3. \A u \in Threads : At(u, "moving")' <=> At(u, "moving")
    BY <1>1, <1>4 DEF At
  <2> QED
    BY <1>1, <2>1, <2>2, <2>3 DEF Mover, Path
<1>5. CASE pc[t] = "moving" /\ l = "return" /\ Tree!RenameEnd
  <2>1. Tree!Unlocked'
    BY <1>5 DEF Tree!RenameEnd, Tree!Unlocked, Tree!NoMove
  <2>2. \A u \in Threads : ~At(u, "moving")'
    BY <1>1, <1>5 DEF At, Mover
  <2> QED
    BY <2>1, <2>2 DEF Mover
<1> QED
  BY <1>2, <1>3, <1>4, <1>5 DEF ChangeForm

LEMMA ChangeTyped ==
  ASSUME Inv, NEW t \in Threads, Change(t)
  PROVE  TypeInv'
<1> PICK err, lost, l : ChangeForm(t, err, lost, l)
  BY ChangeForms
<1>0. /\ pc[t] \in InCall /\ Step(t)
      /\ UNCHANGED <<buildVars, rules, call, made>>
      /\ pc \in [Threads -> Labels]
  BY DEF ChangeForm, EndSection, InCall, Labels, Step, Inv, CallsInv
<1>1. Tree!TypeOK'
  BY ChangeIsNext, TreeTypeKept, SameTreeTyped DEF Inv, TypeInv
<1>2. Bounds'
  BY <1>0, StepsAfterBuild DEF Inv, TypeInv, Bounds, buildVars
<1>3. stats' \in Counters
  BY <1>0, StepStats DEF Inv, TypeInv
<1>4. ASSUME NEW u \in Threads PROVE CallTyped(u)'
  <2>1. pc'[u] \in InCall => pc[u] \in InCall
    BY <1>0 DEF ChangeForm, EndSection, Goto
  <2> QED
    BY <1>0, <2>1 DEF Inv, TypeInv, CallTyped, Refused
<1>5. Mover'
  BY <1>0, ChangeMover DEF Inv
<1>6. held' \in [Threads -> Tree!Entries \cup {None}]
  <2>1. PICK S : held' = [u \in Threads |->
          IF At(u, "fields") /\ held[u] = None /\ Path(u) \in S THEN files[Path(u)] ELSE held[u]]
    BY DEF ChangeForm, EndSection, Lose
  <2>2. ASSUME NEW u \in Threads, At(u, "fields")
        PROVE  files[Path(u)] \in Tree!Entries \cup {None}
    <3>1. Path(u) \in Tree!Keys
      BY <2>2, CallArguments DEF Inv, At, InCall, Labels
    <3>2. files \in [Tree!Keys -> Tree!Entries \cup {None}]
      BY DEF Inv, TypeInv, Tree!TypeOK, Tree!Trees
    <3> QED
      BY <3>1, <3>2
  <2>3. \A u \in Threads : held[u] \in Tree!Entries \cup {None}
    BY DEF Inv, TypeInv
  <2> QED
    BY <2>1, <2>2, <2>3
<1> QED
  BY <1>1, <1>2, <1>3, <1>4, <1>5, <1>6 DEF TypeInv

\* An option puts an entry, or opens or closes a directory, or is the last.
LEMMA BuildTyped ==
  ASSUME Inv, Build
  PROVE  TypeInv'
<1>1. /\ phase = "build"
      /\ UNCHANGED <<moving, rules, stats, pc, call, held, made>>
      /\ \A t \in Threads : pc[t] = "idle"
  BY DEF Build, FileOption, DirOption, DirReturns, BadOption, Built, Put, OthersIdle, callVars,
         Inv, BuildInv
<1>2. moving = Tree!NoMove /\ Tree!TypeOK /\ Bounds /\ files \in Tree!Trees
  BY <1>1 DEF Inv, TypeInv, Mover, At, Tree!Unlocked, Tree!TypeOK
<1>3. Tree!TypeOK'
  <2>1. CASE \E p : \E e \in {Tree!File(0), Tree!Dir} : files' = [files EXCEPT ![p] = e]
    <3>1. Tree!File(0) \in Tree!Entries /\ Tree!Dir \in Tree!Entries
      BY TreeConstants DEF Tree!File, Tree!Dir, Tree!Entries
    <3>2. files' \in Tree!Trees
      BY <1>2, <2>1, <3>1 DEF Tree!Trees
    <3> QED
      BY <1>1, <1>2, <3>2 DEF Tree!TypeOK, Tree!NoMove
  <2>2. CASE UNCHANGED files
    BY <1>1, <1>2, <2>2, SameTreeTyped DEF treeVars
  <2> QED
    BY <2>1, <2>2 DEF Build, FileOption, DirOption, DirReturns, BadOption, Built, Put
<1>4. Len(nest) \in Nat /\ nest \in Seq([name : Names, callerCtx : AnyPath])
  BY <1>1, LenProperties DEF Inv, BuildInv
<1>5. Bounds'
  <2>1. options \in 0 .. MaxOptions /\ made = 0 /\ rules = {} /\ Len(nest) <= MaxDepth
    BY <1>1, <1>2 DEF Bounds
  <2>2. \A n \in 0 .. MaxOptions : 0 \in 0 .. MaxCalls[n]
    BY MockFSAssumption
  <2>3. MaxDepth \in Nat /\ MaxOptions \in Nat
    BY MockFSAssumption
  <2>4. ASSUME NEW x \in Names, FileOption(x) PROVE Bounds'
    <3>1. options' = options + 1 /\ options < MaxOptions /\ UNCHANGED <<nest, phase, buildCtx>>
      BY <2>4 DEF FileOption, Put
    <3> QED
      BY <1>1, <2>1, <2>2, <2>3, <3>1 DEF Bounds
  <2>5. ASSUME NEW x \in Names, DirOption(x) PROVE Bounds'
    <3>1. /\ options' = options + 1 /\ options < MaxOptions /\ phase' = phase
          /\ Len(nest) < MaxDepth /\ nest' = Append(nest, [name |-> x, callerCtx |-> buildCtx])
      BY <2>5 DEF DirOption, Put
    <3>2. Len(nest') = Len(nest) + 1
      BY <1>4, <3>1
    <3> QED
      BY <1>1, <1>4, <2>1, <2>2, <2>3, <3>1, <3>2 DEF Bounds
  <2>6. CASE DirReturns
    <3>1. /\ options' = options /\ nest # <<>> /\ phase' = phase
          /\ nest' = SubSeq(nest, 1, Len(nest) - 1)
      BY <2>6 DEF DirReturns, Tree!Seqs!Front
    <3>2. Len(nest) > 0
      BY <1>4, <3>1, EmptySeq
    <3>3. Len(nest') = Len(nest) - 1
      <4> PICK n \in Nat : n = Len(nest) - 1
        BY <1>4, <3>2
      <4>1. \A k \in 1 .. n : k \in 1 .. Len(nest)
        BY <1>4
      <4>2. \A k \in 1 .. n : nest[k] \in [name : Names, callerCtx : AnyPath]
        BY <1>4, <4>1, ElementOfSeq
      <4>3. Len(SubSeq(nest, 1, n)) = IF 1 <= n THEN n - 1 + 1 ELSE 0
        BY <4>2, SubSeqProperties
      <4> QED
        BY <3>1, <4>3
    <3> QED
      BY <1>1, <1>4, <2>1, <2>2, <2>3, <3>1, <3>2, <3>3 DEF Bounds
  <2>7. CASE BadOption
    BY <1>1, <2>1, <2>2, <2>3, <2>7, EmptySeq DEF BadOption, Bounds
  <2>8. CASE Built
    <3>1. buildCtx = Here
      BY <1>1, <2>8, EmptySeq DEF Built, Inv, BuildInv, Context
    <3> QED
      BY <1>1, <2>1, <2>2, <2>3, <2>8, <3>1, EmptySeq DEF Built, Bounds
  <2> QED
    BY <2>4, <2>5, <2>6, <2>7, <2>8 DEF Build
<1>6. \A t \in Threads : CallTyped(t)'
  BY <1>1 DEF Inv, TypeInv, CallTyped, Refused
<1>7. Mover'
  BY <1>1, <1>2 DEF Mover, At, Tree!Unlocked, Tree!NoMove
<1> QED
  BY <1>1, <1>3, <1>5, <1>6, <1>7 DEF Inv, TypeInv

LEMMA InitTyped == Init => TypeInv
<1> SUFFICES ASSUME Init PROVE TypeInv
  OBVIOUS
<1>1. Tree!TypeOK
  <2>1. TreeProofs!Init
    BY DEF Init, Tree!Init, TreeProofs!Init, Tree!Keys, TreeProofs!Keys, Tree!Paths,
           TreeProofs!Paths, Tree!Root, TreeProofs!Root, Tree!Dir, TreeProofs!Dir, Tree!NoMove,
           TreeProofs!NoMove, Tree!Seqs!BoundedSeq, TreeProofs!Seqs!BoundedSeq,
           Tree!Seqs!SeqOf, TreeProofs!Seqs!SeqOf
  <2>2. TreeProofs!TypeOK
    BY <2>1, TreeConstants, TreeProofs!InitTreeType, Zenon
  <2> QED
    BY <2>2, SameType
<1>2. Bounds
  <2>1. /\ phase = "build" /\ options = 0 /\ made = 0 /\ rules = {} /\ Len(nest) = 0
    BY EmptySeq DEF Init
  <2>2. 0 \in 0 .. MaxOptions /\ 0 \in 0 .. MaxCalls[0] /\ 0 <= MaxDepth
    BY MockFSAssumption
  <2> QED
    BY <2>1, <2>2 DEF Bounds
<1>3. stats \in Counters
  BY DEF Init, NoOutcomes, Counters
<1>4. held \in [Threads -> Tree!Entries \cup {None}]
  BY DEF Init
<1>5. \A t \in Threads : CallTyped(t)
  BY DEF Init, CallTyped, InCall
<1>6. Mover
  BY DEF Init, Mover, At, Tree!Init, Tree!Unlocked
<1> QED
  BY <1>1, <1>2, <1>3, <1>4, <1>5, <1>6 DEF TypeInv

LEMMA NextTyped == Inv /\ [Next]_vars => TypeInv'
<1> SUFFICES ASSUME Inv, [Next]_vars PROVE TypeInv'
  OBVIOUS
<1>1. CASE Build
  BY <1>1, BuildTyped
<1>2. ASSUME NEW t \in Threads, Step(t) PROVE TypeInv'
  BY <1>2, StepKinds, StartsTyped, LooksTyped, ChangeTyped, ReturnTyped
<1>3. CASE AddRule \/ ClearErrors
  <2>1. /\ UNCHANGED <<treeVars, buildVars, stats, pc, call, held>>
        /\ MoreCalls /\ made' = made + 1
    BY <1>3 DEF AddRule, ClearErrors
  <2>2. Bounds'
    <3>1. /\ made \in 0 .. MaxCalls[options] /\ made < MaxCalls[options] /\ phase = "ready"
          /\ options \in 0 .. MaxOptions /\ made' = made + 1 /\ options' = options
      BY <2>1 DEF Inv, TypeInv, Bounds, MoreCalls, buildVars
    <3>2. made' \in 0 .. MaxCalls[options]
      BY <3>1, MockFSAssumption
    <3> QED
      BY <2>1, <3>1, <3>2 DEF Inv, TypeInv, Bounds, buildVars
  <2>3. Mover' /\ \A t \in Threads : CallTyped(t)'
    BY <2>1 DEF Inv, TypeInv, CallTyped, Refused, Mover, At, Path, Tree!Unlocked, Tree!NoMove,
                treeVars
  <2> QED
    BY <2>1, <2>2, <2>3, SameTreeTyped DEF Inv, TypeInv
<1>4. CASE UNCHANGED vars
  <2>1. /\ UNCHANGED <<treeVars, buildVars, rules, stats, pc, call, held, made>>
    BY <1>4 DEF vars, callVars
  <2>2. Bounds'
    BY <2>1 DEF Inv, TypeInv, Bounds, buildVars
  <2>3. Mover' /\ \A t \in Threads : CallTyped(t)'
    BY <2>1 DEF Inv, TypeInv, CallTyped, Refused, Mover, At, Path, Tree!Unlocked, Tree!NoMove,
                treeVars
  <2> QED
    BY <2>1, <2>2, <2>3, SameTreeTyped DEF Inv, TypeInv
<1> QED
  BY <1>1, <1>2, <1>3, <1>4 DEF Next, Done

LEMMA InvHolds == Spec => []Inv
<1>1. Init => Inv
  BY InitCallsInv, InitBuildInv, InitTyped DEF Inv
<1>2. Inv /\ [Next]_vars => Inv'
  BY NextCallsInv, NextBuildInv, NextTyped DEF Inv
<1> QED
  BY <1>1, <1>2, PTL DEF Spec

\* One goroutine at most is in the loop of a Rename.
LEMMA MoversCount ==
  ASSUME Mover
  PROVE  Cardinality({t \in Threads : At(t, "moving")}) = IF Tree!Unlocked THEN 0 ELSE 1
<1>1. CASE Tree!Unlocked
  <2>1. {t \in Threads : At(t, "moving")} = {}
    BY <1>1 DEF Mover
  <2> QED
    BY <1>1, <2>1, FS_EmptySet
<1>2. CASE ~Tree!Unlocked
  <2>1. PICK t \in Threads : At(t, "moving")
    BY <1>2 DEF Mover
  <2>2. {u \in Threads : At(u, "moving")} = {t}
    BY <2>1 DEF Mover
  <2> QED
    BY <1>2, <2>2, FS_Singleton
<1> QED
  BY <1>1, <1>2

\* The types, for any calls, rules and bounds; the context of the options is always
\* a path, and the lock is kept between steps by the Rename in its loop and by it only.
THEOREM CallsTyped == Spec => []TypeOK
<1>1. Inv => TypeOK
  <2> SUFFICES ASSUME Inv PROVE TypeOK
    OBVIOUS
  <2>1. buildCtx \in Tree!Paths
    <3>1. CASE phase # "build"
      BY <3>1 DEF Inv, TypeInv, Bounds, Tree!Paths, Tree!Root, Here
    <3>2. CASE phase = "build"
      <4>1. /\ nest \in Seq([name : Names, callerCtx : AnyPath]) /\ Len(nest) \in Nat
            /\ Len(nest) <= MaxDepth /\ buildCtx = Context(Len(nest))
        BY <3>2, LenProperties DEF Inv, BuildInv, TypeInv, Bounds
      <4>2. Len(nest) \in 0 .. Len(nest)
        BY <4>1
      <4>3. CASE Len(nest) = 0
        BY <4>1, <4>3 DEF Context, Tree!Paths, Tree!Root, Here
      <4>4. CASE Len(nest) # 0
        <5>1. buildCtx \in Seq(Names) /\ Len(buildCtx) = Len(nest)
          BY <4>1, <4>2, <4>4, ContextIsPath
        <5>2. buildCtx \in [1 .. Len(nest) -> Names] /\ buildCtx # <<>>
          BY <4>1, <4>4, <5>1
        <5>3. buildCtx \in Tree!Seqs!BoundedSeq(Names, MaxDepth)
          <6>1. Len(nest) \in 0 .. MaxDepth
            BY <4>1, TreeConstants
          <6> QED
            BY <5>2, <6>1 DEF Tree!Seqs!BoundedSeq, Tree!Seqs!SeqOf
        <5> QED
          BY <5>2, <5>3 DEF Tree!Paths
      <4> QED
        BY <4>3, <4>4
    <3> QED
      BY <3>1, <3>2
  <2>2. \A op \in Simulated : stats[op].failure \in 0 .. stats[op].total
    BY DEF Inv, TypeInv, Counters
  <2>3. \A t \in Threads : call[t] \in Calls \cup {NoCall}
    BY DEF Inv, TypeInv, CallTyped
  <2>4. files \in Tree!Trees
    BY DEF Inv, TypeInv, Tree!TypeOK
  <2> QED
    BY <2>1, <2>2, <2>3, <2>4, MoversCount DEF Inv, CallsInv, TypeInv, Bounds, TypeOK
<1> QED
  BY <1>1, InvHolds, PTL

-----------------------------------------------------------------------------
(* Answers from one version of the tree *)

\* An answer, by the fields that two answers are compared in.
IsAnswer(a, err, entry, names, sub) ==
  a.err = err /\ a.entry = entry /\ a.names = names /\ a.sub = sub

LEMMA AnswerForms ==
  ASSUME NEW e, NEW x, NEW n, NEW r
  PROVE  /\ IsAnswer(NoAnswer, {}, None, {}, None)
         /\ IsAnswer([NoAnswer EXCEPT !.err = e], e, None, {}, None)
         /\ IsAnswer([NoAnswer EXCEPT !.entry = x], {}, x, {}, None)
         /\ IsAnswer([NoAnswer EXCEPT !.names = n], {}, None, n, None)
         /\ IsAnswer([NoAnswer EXCEPT !.sub = x], {}, None, {}, x)
         /\ IsAnswer([NoAnswer EXCEPT !.entry = x, !.names = n], {}, x, n, None)
         /\ IsAnswer([NoAnswer EXCEPT !.sub = x, !.rules = r], {}, None, {}, x)
  BY DEF NoAnswer, IsAnswer

LEMMA SameAnswers ==
  ASSUME NEW a, NEW b, NEW e, NEW x, NEW n, NEW f,
         IsAnswer(a, e, x, n, f), IsAnswer(b, e, x, n, f)
  PROVE  Same(a, b)
  BY DEF IsAnswer, Same

\* What the calls that change the tree answer.
LEMMA ChangesAnswer ==
  ASSUME NEW c, NEW v
  PROVE  /\ c.op = "Mkdir" => Atomic(c, v) = Failed(c, Tree!MkdirErr(v, c.path))
         /\ c.op \in {"MkdirAll", "AddDir"} =>
              Atomic(c, v) = Failed(c, Tree!MkdirAllErr(v, c.path))
         /\ c.op = "AddFile" => Atomic(c, v) = Failed(c, Tree!AddFileErr(v, c.path))
         /\ c.op = "Remove" => Atomic(c, v) = Failed(c, Tree!RemoveErr(v, c.path))
         /\ c.op = "Rename" => Atomic(c, v) =
              Failed(c, IF Tree!Exists(v, c.path) THEN "nil" ELSE "ErrNotExist")
         /\ c.op = "Write" => Atomic(c, v) = Failed(c, Tree!WriteFileErr(v, c.path))
         /\ c.op \in {"RemoveAll", "RemoveEntry", "MarkNonExistent"} => Atomic(c, v) = NoAnswer
         /\ c.op \in Looking /\ ~(c.op = "Sub" /\ c.path = Here) => Atomic(c, v) = Found(c, v)
         /\ c.op = "Sub" /\ c.path = Here => Atomic(c, v) = NoAnswer
  BY DEF Atomic, Looking

\* What ReadFile asks is what Open asks.
LEMMA AskedForm ==
  ASSUME NEW c \in Calls
  PROVE  /\ Asked(c).path = c.path
         /\ Asked(c).op = IF c.op = "ReadFile" THEN "Open" ELSE c.op
         /\ c.op # "ReadFile" => Asked(c) = c
<1>1. c = [op |-> c.op, path |-> c.path, to |-> c.to, size |-> c.size]
  BY MockFSAssumption DEF IsCall
<1>2. [c EXCEPT !.op = "Open"].path = c.path /\ [c EXCEPT !.op = "Open"].op = "Open"
  BY <1>1
<1> QED
  BY <1>2 DEF Asked

\* The entry at the path of a Stat, as it will read it.
EntrySeen(t) ==
  IF held[t] = None THEN /\ Tree!Exists(files, Path(t))
                         /\ \E v \in seen[t] : v[Path(t)] = files[Path(t)]
  ELSE \E v \in seen[t] : v[Path(t)] = held[t]

OneVersion(t) == FromOneOf(Asked(call[t]), answer[t], seen[t])

\* The tree is among those that a call has seen, and what it has found so far is
\* so in one of them.
LooksRight(t) ==
  /\ pc[t] # "idle" => Tree!tree \in seen[t]
  /\ pc[t] = "idle" => answer[t] = NoAnswer
  /\ pc[t] \in {"idle", "lock"} => held[t] = None
  /\ pc[t] \in {"lock", "list"} => ~(Op(t) = "Sub" /\ Path(t) = Here)
  /\ pc[t] = "fields" => Op(t) = "Stat" /\ EntrySeen(t)
  /\ pc[t] = "list" => /\ Op(t) \in Listed \cup {"ReadFile"}
                       /\ \E v \in seen[t] : Tree!IsDir(v, Path(t))
  /\ pc[t] = "moving" => /\ Op(t) = "Rename"
                         /\ \E v \in seen[t] : Tree!Exists(v, Path(t))
  /\ pc[t] = "mark" => Op(t) = "MarkNonExistent" /\ answer[t] = NoAnswer
  /\ Answered(t) => OneVersion(t)

SeenInv ==
  /\ DOMAIN seen = Threads
  /\ \A t \in Threads : LooksRight(t)

LEMMA MoreToChoose ==
  ASSUME NEW c, NEW told, NEW S, NEW U, S \subseteq U, FromOneOf(c, told, S)
  PROVE  FromOneOf(c, told, U)
  BY DEF FromOneOf

\* Nobody else is in a step that leaves the tree alone.
LEMMA QuietStep ==
  ASSUME Inv, SeenInv, NEW t \in Threads, LooksRight(t)', UNCHANGED treeVars,
         DOMAIN seen' = Threads,
         \A u \in Threads \ {t} :
           /\ pc'[u] = pc[u] /\ call'[u] = call[u] /\ answer'[u] = answer[u]
           /\ dealt'[u] = dealt[u] /\ seen'[u] = seen[u] /\ held'[u] = held[u]
  PROVE  SeenInv'
<1>1. Tree!tree' = Tree!tree /\ files' = files
  BY DEF treeVars, Tree!tree, Tree!Unlocked, Tree!NoMove
<1>2. ASSUME NEW u \in Threads \ {t} PROVE LooksRight(u)'
  <2>1. LooksRight(u)
    BY DEF SeenInv
  <2> QED
    <3>1. Answered(u)' <=> Answered(u)
      BY DEF Answered, At, Op
    <3>2. OneVersion(u)' <=> OneVersion(u)
      BY DEF OneVersion
    <3>3. EntrySeen(u)' <=> EntrySeen(u)
      BY <1>1 DEF EntrySeen, Path, Tree!Exists
    <3>4. Op(u)' = Op(u) /\ Path(u)' = Path(u)
      BY DEF Op, Path
    <3> QED
      BY <1>1, <2>1, <3>1, <3>2, <3>3, <3>4 DEF LooksRight
<1> QED
  BY <1>2 DEF SeenInv

\* The steps inside a call that have an answer from the tree at once.
LEMMA AnsweredNow ==
  ASSUME Inv, SeenInv, NEW t \in Threads, pc[t] # "idle",
         NEW l \in {"opened", "return"}, Goto(t, l), NEW a, Reply(t, a),
         UNCHANGED <<treeVars, call, held, dealt, seen>>,
         FromOneOf(Asked(call[t]), a, seen[t])
  PROVE  SeenInv'
<1>1. /\ pc'[t] = l /\ answer'[t] = a
      /\ \A u \in Threads \ {t} : pc'[u] = pc[u] /\ answer'[u] = answer[u]
  BY DEF Goto, Reply, Inv, CallsInv
<1>2. Tree!tree' = Tree!tree
  BY DEF treeVars, Tree!tree, Tree!Unlocked, Tree!NoMove
<1>3. OneVersion(t)'
  BY <1>1 DEF OneVersion
<1>4. LooksRight(t)'
  BY <1>1, <1>2, <1>3 DEF SeenInv, LooksRight
<1> QED
  BY <1>1, <1>4, QuietStep DEF SeenInv

\* What a call that has the lock knows.
LEMMA InSection ==
  ASSUME Inv, SeenInv, NEW t \in Threads, pc[t] \in InCall, Tree!Unlocked
  PROVE  /\ files \in seen[t] /\ call[t] \in Calls
         /\ Asked(call[t]).path = Path(t)
         /\ Asked(call[t]).op = IF Op(t) = "ReadFile" THEN "Open" ELSE Op(t)
         /\ Op(t) # "ReadFile" => Asked(call[t]) = call[t]
<1>1. Tree!tree \in seen[t] /\ call[t] \in Calls
  BY DEF SeenInv, LooksRight, InCall, Inv, TypeInv, CallTyped
<1> QED
  BY <1>1, AskedForm DEF Op, Path, Tree!tree

LEMMA FromFiles ==
  ASSUME NEW c, NEW told, NEW S, NEW v \in S, told = Atomic(c, v)
  PROVE  FromOneOf(c, told, S)
  BY DEF FromOneOf, Same

LEMMA LookUpRight ==
  ASSUME Inv, SeenInv, NEW t \in Threads, LookUp(t)
  PROVE  SeenInv'
<1> DEFINE c == Asked(call[t])
           p == Path(t)
           l == IF Op(t) = "ReadFile" THEN "opened" ELSE "return"
<1>1. /\ pc[t] = "lock" /\ Op(t) \in Looking /\ Tree!Unlocked
      /\ UNCHANGED <<treeVars, call, held, dealt, seen>>
      /\ pc[t] \in InCall /\ l \in {"opened", "return"}
  BY DEF LookUp, Section, At, Unchanged, callVars, InCall, Labels
<1>2. /\ files \in seen[t] /\ c.path = p
      /\ c.op = IF Op(t) = "ReadFile" THEN "Open" ELSE Op(t)
  BY <1>1, InSection
<1>3. Atomic(c, files) = Found(c, files)
  <2>1. c.op \in Looking /\ ~(c.op = "Sub" /\ c.path = Here)
    BY <1>1, <1>2 DEF SeenInv, LooksRight, Looking
  <2> QED
    BY <2>1, ChangesAnswer
<1> HIDE DEF c
<1>4. CASE ~Tree!Exists(files, p)
  <2>1. Fail(t, Error(c.op, "ErrNotExist")) /\ Goto(t, l)
    BY <1>2, <1>4 DEF LookUp
  <2>2. [NoAnswer EXCEPT !.err = Error(c.op, "ErrNotExist")] = Atomic(c, files)
    BY <1>2, <1>3, <1>4 DEF Found, Failed
  <2>3. FromOneOf(c, [NoAnswer EXCEPT !.err = Error(c.op, "ErrNotExist")], seen[t])
    BY <1>2, <2>2, FromFiles
  <2> QED
    BY <1>1, <2>1, <2>3, AnsweredNow DEF Fail, c
<1>5. CASE Tree!Exists(files, p) /\ Op(t) = "Stat"
  <2>1. pc'[t] = "fields" /\ \A u \in Threads \ {t} : pc'[u] = pc[u]
    BY <1>5 DEF LookUp, Goto, Inv, CallsInv
  <2>2. Tree!tree' = Tree!tree /\ UNCHANGED answer
    BY <1>1, <1>5 DEF treeVars, Tree!tree, Tree!Unlocked, Tree!NoMove, LookUp
  <2>3. held[t] = None /\ Tree!tree \in seen[t]
    BY <1>1 DEF SeenInv, LooksRight
  <2>4. EntrySeen(t)'
    BY <1>1, <1>2, <1>5, <2>3 DEF EntrySeen, treeVars, Tree!Exists, Path
  <2>5. LooksRight(t)'
    BY <1>1, <1>5, <2>1, <2>2, <2>3, <2>4 DEF LooksRight, Answered, At, Op
  <2> QED
    BY <1>1, <2>1, <2>2, <2>5, QuietStep DEF SeenInv
<1>6. CASE Op(t) # "Stat" /\ Tree!IsDir(files, p)
  <2>1. pc'[t] = "list" /\ \A u \in Threads \ {t} : pc'[u] = pc[u]
    BY <1>6 DEF LookUp, Goto, Inv, CallsInv, Tree!IsDir
  <2>2. Tree!tree' = Tree!tree /\ UNCHANGED answer
    BY <1>1, <1>6 DEF treeVars, Tree!tree, Tree!Unlocked, Tree!NoMove, LookUp, Tree!IsDir
  <2>3. Tree!tree \in seen[t] /\ ~(Op(t) = "Sub" /\ p = Here)
    BY <1>1 DEF SeenInv, LooksRight
  <2>4. (\E v \in seen[t] : Tree!IsDir(v, Path(t)))'
    BY <1>1, <1>2, <1>6 DEF Path, Tree!IsDir, Tree!Exists
  <2>5. LooksRight(t)'
    BY <1>1, <1>6, <2>1, <2>2, <2>3, <2>4 DEF LooksRight, Answered, At, Op, Path, Looking, Listed
  <2> QED
    BY <1>1, <2>1, <2>2, <2>5, QuietStep DEF SeenInv
<1>7. CASE /\ Tree!Exists(files, p) /\ Op(t) # "Stat" /\ ~Tree!IsDir(files, p)
           /\ Op(t) \in {"ReadDir", "Sub"}
  <2>1. Fail(t, Error(c.op, "ErrNotDir")) /\ Goto(t, l)
    BY <1>2, <1>7 DEF LookUp
  <2>2. [NoAnswer EXCEPT !.err = Error(c.op, "ErrNotDir")] = Atomic(c, files)
    BY <1>2, <1>3, <1>7 DEF Found, Failed
  <2>3. FromOneOf(c, [NoAnswer EXCEPT !.err = Error(c.op, "ErrNotDir")], seen[t])
    BY <1>2, <2>2, FromFiles
  <2> QED
    BY <1>1, <2>1, <2>3, AnsweredNow DEF Fail, c
<1>8. CASE /\ Tree!Exists(files, p) /\ Op(t) # "Stat" /\ ~Tree!IsDir(files, p)
           /\ Op(t) \notin {"ReadDir", "Sub"}
  <2>1. Reply(t, [NoAnswer EXCEPT !.entry = Tree!File(0)]) /\ Goto(t, l)
    BY <1>8 DEF LookUp
  <2>2. [NoAnswer EXCEPT !.entry = Tree!File(0)] = Atomic(c, files)
    BY <1>1, <1>2, <1>3, <1>8 DEF Found, Looking
  <2>3. FromOneOf(c, [NoAnswer EXCEPT !.entry = Tree!File(0)], seen[t])
    BY <1>2, <2>2, FromFiles
  <2> QED
    BY <1>1, <2>1, <2>3, AnsweredNow DEF c
<1> QED
  BY <1>4, <1>5, <1>6, <1>7, <1>8 DEF Tree!IsDir

\* Stat reads an entry that was at its path at some moment.
LEMMA ReadFieldsRight ==
  ASSUME Inv, SeenInv, NEW t \in Threads, ReadFields(t)
  PROVE  SeenInv'
<1> DEFINE e == IF held[t] = None THEN files[Path(t)] ELSE held[t]
           a == [NoAnswer EXCEPT !.entry = e]
<1>1. /\ pc[t] = "fields" /\ Reply(t, a) /\ Goto(t, "return")
      /\ UNCHANGED <<treeVars, call, held, dealt, seen>>
  BY DEF ReadFields, At, Unchanged, callVars
<1>2. Op(t) = "Stat" /\ call[t] \in Calls /\ EntrySeen(t)
  BY <1>1 DEF SeenInv, LooksRight, Inv, TypeInv, CallTyped, InCall, Labels
<1>3. PICK v \in seen[t] : v[Path(t)] = e /\ Tree!Exists(v, Path(t))
  BY <1>2 DEF EntrySeen, Tree!Exists
<1> HIDE DEF e
<1>4. Asked(call[t]) = call[t]
  BY <1>2, AskedForm DEF Op
<1>5. a = Atomic(call[t], v)
  <2>1. Atomic(call[t], v) = Found(call[t], v)
    BY <1>2, ChangesAnswer DEF Op, Looking
  <2>2. Found(call[t], v) = [NoAnswer EXCEPT !.entry = v[Path(t)]]
    BY <1>2, <1>3 DEF Found, Op, Path
  <2> QED
    BY <1>3, <2>1, <2>2
<1>6. FromOneOf(Asked(call[t]), a, seen[t])
  BY <1>4, <1>5, FromFiles
<1> HIDE DEF a
<1> QED
  BY <1>1, <1>6, AnsweredNow

\* A second section finds its directory as it is now, or without its entry.
LEMMA ListedFrom ==
  ASSUME Inv, SeenInv, NEW t \in Threads, pc[t] = "list", Tree!Unlocked, NEW a,
         Same(a, OfDirectory(Asked(call[t]), files))
  PROVE  FromOneOf(Asked(call[t]), a, seen[t])
<1> DEFINE c == Asked(call[t])
<1>1. /\ files \in seen[t] /\ c.path = Path(t)
      /\ c.op = IF Op(t) = "ReadFile" THEN "Open" ELSE Op(t)
  BY InSection DEF InCall, Labels
<1>2. /\ Op(t) \in Listed \cup {"ReadFile"} /\ ~(Op(t) = "Sub" /\ Path(t) = Here)
      /\ \E v \in seen[t] : Tree!IsDir(v, Path(t))
  BY DEF SeenInv, LooksRight
<1>3. c.op \in Listed /\ c.op \in Looking /\ c.op # "Stat" /\ ~(c.op = "Sub" /\ c.path = Here)
  BY <1>1, <1>2 DEF Listed, Looking
<1> HIDE DEF c
<1>4. CASE Tree!IsDir(files, Path(t))
  <2>1. Atomic(c, files) = Found(c, files)
    BY <1>3, ChangesAnswer
  <2>2. Found(c, files) = OfDirectory(c, files)
    BY <1>1, <1>3, <1>4 DEF Found, Tree!IsDir
  <2> QED
    BY <1>1, <2>1, <2>2 DEF FromOneOf, c
<1>5. CASE ~Tree!IsDir(files, Path(t))
  BY <1>1, <1>2, <1>3, <1>5 DEF FromOneOf, c
<1> QED
  BY <1>4, <1>5

LEMMA ListRight ==
  ASSUME Inv, SeenInv, NEW t \in Threads, List(t)
  PROVE  SeenInv'
<1> DEFINE n == Tree!ListDir(files, Path(t))
           x == IF Op(t) = "ReadDir" THEN None ELSE Tree!Dir
           a == [NoAnswer EXCEPT !.entry = x, !.names = n]
           l == IF Op(t) = "ReadFile" THEN "opened" ELSE "return"
           c == Asked(call[t])
<1>1. /\ pc[t] = "list" /\ Op(t) # "Sub" /\ Tree!Unlocked
      /\ Reply(t, a) /\ Goto(t, l) /\ l \in {"opened", "return"}
      /\ UNCHANGED <<treeVars, call, held, dealt, seen>>
  BY DEF List, At, Unchanged, callVars
<1>2. /\ c.path = Path(t)
      /\ c.op = IF Op(t) = "ReadFile" THEN "Open" ELSE Op(t)
  BY <1>1, InSection DEF InCall, Labels
<1>3. Op(t) \in {"Open", "ReadDir", "ReadFile"}
  BY <1>1 DEF SeenInv, LooksRight, Listed
<1> HIDE DEF c, n
<1>4. Same(a, OfDirectory(c, files))
  <2>1. CASE Op(t) = "ReadDir"
    <3>1. OfDirectory(c, files) = [NoAnswer EXCEPT !.names = n]
      BY <1>2, <2>1 DEF OfDirectory, n
    <3>2. IsAnswer(a, {}, None, n, None) /\ IsAnswer([NoAnswer EXCEPT !.names = n], {}, None, n, None)
      BY <2>1, AnswerForms
    <3> QED
      BY <3>1, <3>2, SameAnswers
  <2>2. CASE Op(t) # "ReadDir"
    <3>1. OfDirectory(c, files) = [NoAnswer EXCEPT !.entry = Tree!Dir, !.names = n]
      BY <1>2, <1>3, <2>2 DEF OfDirectory, n
    <3>2. x = Tree!Dir
      BY <2>2
    <3> QED
      BY <3>1, <3>2 DEF Same
  <2> QED
    BY <2>1, <2>2
<1> HIDE DEF a, l
<1>5. FromOneOf(c, a, seen[t])
  BY <1>1, <1>4, ListedFrom DEF c
<1> QED
  BY <1>1, <1>5, AnsweredNow DEF c

LEMMA CopyRight ==
  ASSUME Inv, SeenInv, NEW t \in Threads, Copy(t)
  PROVE  SeenInv'
<1> DEFINE f == Tree!SubTree([files EXCEPT ![Path(t)] = Tree!Dir], Path(t))
           r == RulesForSub(rules, Path(t))
           a == [NoAnswer EXCEPT !.sub = f, !.rules = r]
           c == Asked(call[t])
<1>1. /\ pc[t] = "list" /\ Op(t) = "Sub" /\ Tree!Unlocked
      /\ Reply(t, a) /\ Goto(t, "return")
      /\ UNCHANGED <<treeVars, call, held, dealt, seen>>
  BY DEF Copy, At
<1>2. c.path = Path(t) /\ c.op = "Sub"
  BY <1>1, InSection DEF InCall, Labels
<1> HIDE DEF c
<1>3. OfDirectory(c, files) = [NoAnswer EXCEPT !.sub = f]
  BY <1>2 DEF OfDirectory
<1> HIDE DEF f, r
<1>4. Same(a, OfDirectory(c, files))
  <2>1. IsAnswer(a, {}, None, {}, f) /\ IsAnswer([NoAnswer EXCEPT !.sub = f], {}, None, {}, f)
    BY AnswerForms
  <2> QED
    BY <1>3, <2>1, SameAnswers
<1> HIDE DEF a
<1>5. FromOneOf(c, a, seen[t])
  BY <1>1, <1>4, ListedFrom DEF c
<1> QED
  BY <1>1, <1>5, AnsweredNow DEF c

\* The beginning of a call, by where it goes on.
StartForm(t, c) ==
  /\ At(t, "idle") /\ Begin(t, c)
  /\ \/ /\ Goto(t, "lock")
        /\ ~(c.op = "Sub" /\ c.path = Here)
     \/ Goto(t, "return") /\ Refused(c)
     \/ /\ \E l \in {"opened", "return"} : Goto(t, l)
        /\ dealt'[t] # {}
     \/ /\ Goto(t, "return") /\ UNCHANGED answer
        /\ c.op = "Sub" /\ c.path = Here
  /\ \A u \in Threads \ {t} : answer'[u] = answer[u] /\ dealt'[u] = dealt[u]

LEMMA StartForms ==
  ASSUME Inv, NEW t \in Threads, BeginRefused(t) \/ BeginSimulated(t) \/ BeginDirect(t)
  PROVE  \E c \in Calls : StartForm(t, c)
<1>1. CASE BeginRefused(t)
  <2> PICK c \in Calls : /\ At(t, "idle") /\ Refused(c) /\ Begin(t, c) /\ Goto(t, "return")
                         /\ Fail(t, Error(ErrorOp(c.op), "ErrInvalid")) /\ UNCHANGED dealt
    BY <1>1 DEF BeginRefused, MayBegin
  <2> QED
    BY DEF StartForm, Fail, Reply
<1>2. CASE BeginDirect(t)
  <2> PICK c \in Calls : /\ At(t, "idle") /\ Begin(t, c) /\ UNCHANGED <<answer, dealt>>
                         /\ Goto(t, IF c.op = "Sub" /\ c.path = Here THEN "return" ELSE "lock")
    BY <1>2 DEF BeginDirect, MayBegin
  <2> QED
    BY DEF StartForm
<1>3. CASE BeginSimulated(t)
  <2> PICK c \in Calls : /\ At(t, "idle") /\ Begin(t, c) /\ c.op \in Simulated \cup {"ReadFile"}
                         /\ \E op : Injected(t, op, c.path, "lock")
    BY <1>3 DEF BeginSimulated, MayBegin
  <2>1. c.op # "Sub"
    BY DEF Simulated
  <2> PICK e : /\ dealt' = [dealt EXCEPT ![t] = @ \cup e]
               /\ IF e # {} THEN /\ Goto(t, IF Op(t)' = "ReadFile" THEN "opened" ELSE "return")
                                 /\ Fail(t, e)
                  ELSE Goto(t, "lock") /\ UNCHANGED answer
    BY DEF Injected
  <2>2. /\ e # {} => dealt'[t] # {}
        /\ \A u \in Threads \ {t} : dealt'[u] = dealt[u]
    BY DEF Inv, CallsInv
  <2>3. CASE e = {}
    BY <2>1, <2>2, <2>3 DEF StartForm
  <2>4. CASE e # {}
    <3>1. \E l \in {"opened", "return"} : Goto(t, l)
      BY <2>4
    <3>2. \A u \in Threads \ {t} : answer'[u] = answer[u]
      <4>1. PICK a : answer' = [answer EXCEPT ![t] = a]
        BY <2>4 DEF Fail, Reply
      <4> QED
        BY <4>1 DEF Inv, CallsInv
    <3> QED
      BY <2>2, <2>4, <3>1, <3>2 DEF StartForm
  <2> QED
    BY <2>3, <2>4
<1> QED
  BY <1>1, <1>2, <1>3

LEMMA StartRight ==
  ASSUME Inv, SeenInv, NEW t \in Threads, NEW c \in Calls, StartForm(t, c)
  PROVE  SeenInv'
<1>1. /\ pc[t] = "idle" /\ UNCHANGED <<treeVars, held>>
      /\ call'[t] = c /\ \A u \in Threads \ {t} : call'[u] = call[u]
      /\ seen'[t] = {Tree!tree} /\ \A u \in Threads \ {t} : seen'[u] = seen[u]
      /\ DOMAIN seen' = Threads
      /\ \A u \in Threads \ {t} : /\ answer'[u] = answer[u] /\ dealt'[u] = dealt[u]
                                  /\ pc'[u] = pc[u]
      /\ answer[t] = NoAnswer /\ held[t] = None
  BY DEF StartForm, Begin, At, Goto, Inv, CallsInv, SeenInv, LooksRight
<1>2. Tree!tree' = Tree!tree
  BY <1>1 DEF treeVars, Tree!tree, Tree!Unlocked, Tree!NoMove
<1>3. CASE Goto(t, "lock") /\ ~(c.op = "Sub" /\ c.path = Here)
  <2>1. pc'[t] = "lock"
    BY <1>3 DEF Goto, Inv, CallsInv
  <2> QED
    <3>1. LooksRight(t)'
      BY <1>1, <1>2, <1>3, <2>1 DEF LooksRight, Answered, At, Op, Path
    <3> QED
      BY <1>1, <3>1, QuietStep
<1>4. CASE Goto(t, "return") /\ Refused(c)
  <2>1. pc'[t] = "return"
    BY <1>4 DEF Goto, Inv, CallsInv
  <2>2. ~Answered(t)'
    BY <1>1, <1>4 DEF Answered, Refused
  <2>3. LooksRight(t)'
    BY <1>1, <1>2, <2>1, <2>2 DEF LooksRight
  <2> QED
    BY <1>1, <2>3, QuietStep
<1>5. CASE (\E l \in {"opened", "return"} : Goto(t, l)) /\ dealt'[t] # {}
  <2>1. pc'[t] \in {"opened", "return"}
    BY <1>5 DEF Goto, Inv, CallsInv
  <2>2. ~Answered(t)'
    BY <1>5 DEF Answered
  <2>3. LooksRight(t)'
    BY <1>1, <1>2, <2>1, <2>2 DEF LooksRight
  <2> QED
    BY <1>1, <2>3, QuietStep
<1>6. CASE Goto(t, "return") /\ UNCHANGED answer /\ c.op = "Sub" /\ c.path = Here
  <2>1. pc'[t] = "return" /\ answer'[t] = NoAnswer
    BY <1>1, <1>6 DEF Goto, Inv, CallsInv
  <2>2. Asked(c) = c
    BY <1>6, AskedForm
  <2>3. Atomic(c, Tree!tree) = NoAnswer
    BY <1>6, ChangesAnswer
  <2>4. FromOneOf(c, NoAnswer, {Tree!tree})
    BY <2>3, FromFiles
  <2>5. OneVersion(t)'
    BY <1>1, <2>1, <2>2, <2>4 DEF OneVersion
  <2>6. LooksRight(t)'
    BY <1>1, <1>2, <2>1, <2>5 DEF LooksRight
  <2> QED
    BY <1>1, <2>6, QuietStep
<1> QED
  BY <1>3, <1>4, <1>5, <1>6 DEF StartForm

\* The parts of ReadFile after its Open, and the mark, ask the tree nothing.
LEMMA RestRight ==
  ASSUME Inv, SeenInv, NEW t \in Threads,
         AddMark(t) \/ Opened(t) \/ ReadAll(t) \/ CloseFile(t)
  PROVE  SeenInv'
<1>1. /\ UNCHANGED <<treeVars, call, held, seen>>
      /\ \A u \in Threads \ {t} : /\ answer'[u] = answer[u] /\ dealt'[u] = dealt[u]
                                  /\ pc'[u] = pc[u]
      /\ pc[t] \in {"mark", "opened", "read", "close"}
  <2>1. /\ UNCHANGED <<treeVars, call, held, seen>>
        /\ pc[t] \in {"mark", "opened", "read", "close"}
        /\ \E l : pc' = [pc EXCEPT ![t] = l]
    BY DEF AddMark, Opened, ReadAll, CloseFile, Goto, callVars, At
  <2>2. UNCHANGED answer \/ \E a : answer' = [answer EXCEPT ![t] = a]
    BY DEF AddMark, Opened, ReadAll, CloseFile, Fail, Reply
  <2>3. UNCHANGED dealt \/ \E d : dealt' = [dealt EXCEPT ![t] = d]
    BY DEF AddMark, Opened, ReadAll, CloseFile
  <2> QED
    BY <2>1, <2>2, <2>3 DEF Inv, CallsInv
<1>2. Tree!tree' = Tree!tree /\ LooksRight(t)
  BY <1>1 DEF treeVars, Tree!tree, Tree!Unlocked, Tree!NoMove, SeenInv
<1>3. CASE AddMark(t)
  <2>1. /\ pc[t] = "mark" /\ pc'[t] = "return" /\ Op(t) = "MarkNonExistent"
        /\ UNCHANGED <<answer, dealt>> /\ answer[t] = NoAnswer /\ Tree!tree \in seen[t]
    BY <1>2, <1>3 DEF AddMark, Goto, Inv, CallsInv, LooksRight, At
  <2>2. Asked(call[t]) = call[t]
    BY <2>1, AskedForm DEF Op, Inv, TypeInv, CallTyped, InCall, Labels
  <2>3. Atomic(call[t], Tree!tree) = NoAnswer
    BY <2>1, ChangesAnswer DEF Op
  <2>4. OneVersion(t)'
    <3>1. FromOneOf(call[t], NoAnswer, seen[t])
      BY <2>1, <2>3, FromFiles
    <3> QED
      BY <1>1, <2>1, <2>2, <3>1 DEF OneVersion
  <2>5. LooksRight(t)'
    BY <1>1, <1>2, <2>1, <2>4 DEF LooksRight
  <2> QED
    BY <1>1, <2>5, QuietStep DEF SeenInv
<1>4. CASE Opened(t) \/ ReadAll(t) \/ CloseFile(t)
  <2>1. pc'[t] \in {"return", "read", "close"} /\ Op(t) = "ReadFile" /\ Tree!tree \in seen[t]
    BY <1>1, <1>2, <1>4
    DEF Opened, ReadAll, CloseFile, At, Goto, Inv, CallsInv, CallInv, KeepsErrors, InReadFile,
        LooksRight
  <2>2. ~Answered(t)'
    BY <1>1, <2>1 DEF Answered, At, Op
  <2>3. LooksRight(t)'
    BY <1>1, <1>2, <2>1, <2>2 DEF LooksRight
  <2> QED
    BY <1>1, <2>3, QuietStep DEF SeenInv
<1> QED
  BY <1>3, <1>4

LEMMA ReturnRight ==
  ASSUME Inv, SeenInv, NEW t \in Threads, Return(t)
  PROVE  SeenInv'
<1>1. /\ UNCHANGED treeVars
      /\ pc'[t] = "idle" /\ answer'[t] = NoAnswer /\ held'[t] = None
      /\ DOMAIN seen' = Threads
      /\ \A u \in Threads \ {t} :
           /\ pc'[u] = pc[u] /\ call'[u] = call[u] /\ answer'[u] = answer[u]
           /\ dealt'[u] = dealt[u] /\ seen'[u] = seen[u] /\ held'[u] = held[u]
  BY DEF Return, Goto, Inv, CallsInv, TypeInv, SeenInv
<1>2. LooksRight(t)'
  BY <1>1 DEF LooksRight, Answered, At
<1> QED
  BY <1>1, <1>2, QuietStep

\* The entries stay at their keys, but for those at S; WriteFile changes them in
\* place, and leaves the lock.
KeepsEntries(S) == \A p \in Tree!Keys \ S :
  Tree!Exists(files, p) => \/ files'[p] = files[p]
                           \/ Tree!Unlocked' /\ files'[p] # None

\* A section that changes the tree: what the other calls have seen is still there,
\* or they have kept it.
LEMMA SectionRight ==
  ASSUME Inv, SeenInv, NEW t \in Threads, pc[t] \in {"lock", "moving"}, Op(t) # "ReadFile",
         NEW err, NEW lost, NEW l \in {"return", "moving", "mark"}, EndSection(t, err, lost, l),
         KeepsEntries(IF err = "nil" THEN lost ELSE {}),
         l = "return" => \E v \in seen[t] : Failed(call[t], err) = Atomic(call[t], v),
         l = "moving" => Op(t) = "Rename" /\ \E v \in seen[t] : Tree!Exists(v, Path(t)),
         l = "mark" => Op(t) = "MarkNonExistent" /\ err = "nil"
  PROVE  SeenInv'
<1> DEFINE S == IF err = "nil" THEN lost ELSE {}
           a == Failed(call[t], err)
<1>1. /\ UNCHANGED <<call, dealt>>
      /\ answer' = [answer EXCEPT ![t] = a] /\ pc' = [pc EXCEPT ![t] = l]
      /\ seen' = [u \in Threads |-> IF At(u, "idle") THEN {} ELSE seen[u] \cup {Tree!tree'}]
      /\ held' = [u \in Threads |->
           IF At(u, "fields") /\ held[u] = None /\ Path(u) \in S THEN files[Path(u)] ELSE held[u]]
  BY DEF EndSection, Fail, Reply, Goto, SeenAfter, Lose, Failed, Op
<1> HIDE DEF S, a
<1>2. /\ answer'[t] = a /\ pc'[t] = l /\ seen'[t] = seen[t] \cup {Tree!tree'}
      /\ DOMAIN seen' = Threads
      /\ \A u \in Threads \ {t} : answer'[u] = answer[u] /\ pc'[u] = pc[u]
  BY <1>1 DEF Inv, CallsInv, At
<1>3. LooksRight(t)'
  <2>1. CASE l = "return"
    <3>1. Asked(call[t]) = call[t]
      BY AskedForm DEF Inv, TypeInv, CallTyped, InCall, Labels, Op
    <3>2. FromOneOf(call[t], a, seen'[t])
      BY <1>2, <2>1, FromFiles DEF a
    <3>3. OneVersion(t)'
      BY <1>1, <1>2, <3>1, <3>2 DEF OneVersion
    <3> QED
      BY <1>2, <2>1, <3>3 DEF LooksRight
  <2>2. CASE l = "moving"
    <3>1. (\E v \in seen[t] : Tree!Exists(v, Path(t)))' /\ Op(t)' = "Rename"
      BY <1>1, <1>2, <2>2 DEF Op, Path, Tree!Exists
    <3> QED
      BY <1>2, <2>2, <3>1 DEF LooksRight, Answered, At
  <2>3. CASE l = "mark"
    <3>1. a = NoAnswer
      <4>1. a = [NoAnswer EXCEPT !.err = {}]
        BY <2>3 DEF a, Failed
      <4> QED
        BY <4>1 DEF NoAnswer
    <3>2. Op(t)' = "MarkNonExistent"
      BY <1>1, <2>3 DEF Op
    <3> QED
      BY <1>2, <2>3, <3>1, <3>2 DEF LooksRight, Answered, At
  <2> QED
    BY <2>1, <2>2, <2>3
<1>4. ASSUME NEW u \in Threads \ {t} PROVE LooksRight(u)'
  <2>1. /\ LooksRight(u) /\ call'[u] = call[u] /\ answer'[u] = answer[u] /\ pc'[u] = pc[u]
        /\ dealt'[u] = dealt[u]
    BY <1>1, <1>2 DEF SeenInv
  <2>2. CASE pc[u] = "idle"
    <3>1. held'[u] = held[u]
      BY <1>1, <2>2 DEF At
    <3> QED
      BY <2>1, <2>2, <3>1 DEF LooksRight, Answered, At
  <2>3. CASE pc[u] # "idle"
    <3>1. seen'[u] = seen[u] \cup {Tree!tree'}
      BY <1>1, <2>3 DEF At
    <3>2. pc[u] # "fields" => held'[u] = held[u]
      BY <1>1 DEF At
    <3>3. OneVersion(u) => OneVersion(u)'
      <4>1. seen[u] \subseteq seen'[u]
        BY <3>1
      <4>2. OneVersion(u) => FromOneOf(Asked(call[u]), answer[u], seen'[u])
        BY <4>1, MoreToChoose DEF OneVersion
      <4> QED
        BY <2>1, <4>2 DEF OneVersion
    <3>4. Answered(u)' <=> Answered(u)
      BY <2>1 DEF Answered, At, Op
    <3>5. Op(u)' = Op(u) /\ Path(u)' = Path(u)
      BY <2>1 DEF Op, Path
    <3>6. ASSUME pc[u] = "fields" PROVE EntrySeen(u)'
      <4> DEFINE p == Path(u)
      <4>1. EntrySeen(u) /\ p \in Tree!Keys
        BY <2>1, <3>6, CallArguments DEF LooksRight, Inv, InCall, Labels
      <4>2. held'[u] = IF held[u] = None /\ p \in S THEN files[p] ELSE held[u]
        BY <1>1, <3>6 DEF At
      <4>3. CASE held[u] # None
        BY <3>1, <3>5, <4>1, <4>2, <4>3 DEF EntrySeen
      <4>4. CASE held[u] = None /\ p \in S
        BY <3>1, <3>5, <4>1, <4>2, <4>4 DEF EntrySeen, Tree!Exists
      <4>5. CASE held[u] = None /\ p \notin S
        <5>1. held'[u] = None /\ Tree!Exists(files, p)
          BY <4>1, <4>2, <4>5 DEF EntrySeen
        <5>2. PICK v \in seen[u] : v[p] = files[p]
          BY <4>1, <4>5 DEF EntrySeen
        <5>3. files'[p] = files[p] \/ (Tree!Unlocked' /\ files'[p] # None)
          BY <4>1, <4>5, <5>1 DEF KeepsEntries, S
        <5>4. CASE files'[p] = files[p]
          BY <3>1, <3>5, <5>1, <5>2, <5>4 DEF EntrySeen, Tree!Exists
        <5>5. CASE Tree!Unlocked' /\ files'[p] # None
          <6>1. Tree!tree' = files'
            BY <5>5 DEF Tree!tree
          <6> QED
            BY <3>1, <3>5, <5>1, <5>5, <6>1 DEF EntrySeen, Tree!Exists
        <5> QED
          BY <5>3, <5>4, <5>5
      <4> QED
        BY <4>3, <4>4, <4>5
    <3>7. pc[u] = "list" => (\E v \in seen[u] : Tree!IsDir(v, Path(u)))'
      BY <2>1, <3>1, <3>5 DEF LooksRight, Tree!IsDir, Tree!Exists
    <3>8. pc[u] = "moving" => (\E v \in seen[u] : Tree!Exists(v, Path(u)))'
      BY <2>1, <3>1, <3>5 DEF LooksRight, Tree!Exists
    <3> QED
      BY <2>1, <2>3, <3>1, <3>2, <3>3, <3>4, <3>5, <3>6, <3>7, <3>8 DEF LooksRight
  <2> QED
    BY <2>2, <2>3
<1> QED
  BY <1>2, <1>3, <1>4 DEF SeenInv

\* What a call in the lock's section works on.
LEMMA SectionFacts ==
  ASSUME Inv, SeenInv, NEW t \in Threads, NEW ops, Section(t, ops)
  PROVE  /\ pc[t] = "lock" /\ Op(t) \in ops /\ call[t].op = Op(t) /\ call[t].path = Path(t)
         /\ files \in seen[t] /\ files \in [Tree!Keys -> Tree!Entries \cup {None}]
         /\ Path(t) \in Tree!Keys /\ call[t].to \in Tree!Keys
         /\ call[t].size \in 0 .. MaxSize
<1>1. pc[t] = "lock" /\ Op(t) \in ops /\ Tree!Unlocked /\ pc[t] \in InCall
  BY DEF Section, At, InCall, Labels
<1>2. files \in [Tree!Keys -> Tree!Entries \cup {None}]
  BY DEF Inv, TypeInv, Tree!TypeOK, Tree!Trees
<1> QED
  BY <1>1, <1>2, InSection, CallArguments DEF Inv, Op, Path

\* MkdirAll and its parents keep what is there.
LEMMA MkdirAllKeeps ==
  ASSUME NEW p, NEW q \in Tree!Keys, Tree!Exists(files, q)
  PROVE  Tree!MkdirAllTree(files, p)[q] = files[q]
  BY DEF Tree!MkdirAllTree

LEMMA MkdirRight ==
  ASSUME Inv, SeenInv, NEW t \in Threads, Mkdir(t) \/ MkdirAll(t)
  PROVE  SeenInv'
<1> DEFINE p == Path(t)  c == call[t]
<1>1. CASE Mkdir(t)
  <2> DEFINE err == Tree!MkdirErr(files, p)
  <2>1. /\ Section(t, {"Mkdir"}) /\ EndSection(t, err, {}, "return")
        /\ files' = Tree!MkdirTree(files, p)
    BY <1>1 DEF Mkdir, Tree!Mkdir, Tree!Change
  <2>2. KeepsEntries(IF err = "nil" THEN {} ELSE {})
    <3>1. err = "nil" => ~Tree!Exists(files, p)
      BY DEF Tree!MkdirErr
    <3>2. \A q \in Tree!Keys : Tree!Exists(files, q) => files'[q] = files[q]
      BY <2>1, <3>1 DEF Tree!MkdirTree
    <3> QED
      BY <3>2 DEF KeepsEntries
  <2>3. Failed(c, err) = Atomic(c, files) /\ files \in seen[t]
    BY <2>1, SectionFacts, ChangesAnswer
  <2> HIDE DEF err
  <2> QED
    BY <2>1, <2>2, <2>3, SectionFacts, SectionRight
<1>2. CASE MkdirAll(t)
  <2> DEFINE err == Tree!MkdirAllErr(files, p)
  <2>1. /\ Section(t, {"MkdirAll", "AddDir"}) /\ EndSection(t, err, {}, "return")
        /\ files' = Tree!MkdirAllTree(files, p)
    BY <1>2 DEF MkdirAll, Tree!MkdirAll, Tree!Change
  <2>2. KeepsEntries(IF err = "nil" THEN {} ELSE {})
    BY <2>1, MkdirAllKeeps DEF KeepsEntries
  <2>3. Failed(c, err) = Atomic(c, files) /\ files \in seen[t]
    BY <2>1, SectionFacts, ChangesAnswer
  <2> HIDE DEF err
  <2> QED
    BY <2>1, <2>2, <2>3, SectionFacts, SectionRight
<1> QED
  BY <1>1, <1>2

LEMMA AddFileRight ==
  ASSUME Inv, SeenInv, NEW t \in Threads, AddFile(t)
  PROVE  SeenInv'
<1> DEFINE p == Path(t)  c == call[t]  err == Tree!AddFileErr(files, p)
<1>1. /\ Section(t, {"AddFile"}) /\ EndSection(t, err, {p}, "return")
      /\ files' = Tree!AddFileTree(files, p, c.size)
  BY DEF AddFile, Tree!AddFile, Tree!Change
<1>2. KeepsEntries(IF err = "nil" THEN {p} ELSE {})
  <2>1. \A q \in Tree!Keys : Tree!Exists(files, q) => Tree!WithParents(files, p)[q] = files[q]
    BY MkdirAllKeeps DEF Tree!WithParents
  <2>2. \/ err = "nil" /\ files' = [Tree!WithParents(files, p) EXCEPT ![p] = Tree!File(c.size)]
        \/ err # "nil" /\ files' = Tree!WithParents(files, p)
    BY <1>1 DEF Tree!AddFileTree
  <2>3. DOMAIN Tree!WithParents(files, p) = Tree!Keys
    BY <1>1, SectionFacts DEF Tree!WithParents, Tree!MkdirAllTree
  <2> HIDE DEF err
  <2>4. CASE err = "nil"
    <3>1. \A q \in Tree!Keys \ {p} : files'[q] = Tree!WithParents(files, p)[q]
      BY <2>2, <2>3, <2>4
    <3> QED
      BY <2>1, <2>4, <3>1 DEF KeepsEntries
  <2>5. CASE err # "nil"
    BY <2>1, <2>2, <2>5 DEF KeepsEntries
  <2> QED
    BY <2>4, <2>5
<1>3. Failed(c, err) = Atomic(c, files) /\ files \in seen[t]
  BY <1>1, SectionFacts, ChangesAnswer
<1> HIDE DEF err
<1> QED
  BY <1>1, <1>2, <1>3, SectionFacts, SectionRight

LEMMA RemoveRight ==
  ASSUME Inv, SeenInv, NEW t \in Threads, Remove(t) \/ RemoveAll(t)
  PROVE  SeenInv'
<1> DEFINE p == Path(t)  c == call[t]
<1>1. CASE Remove(t)
  <2> DEFINE err == Tree!RemoveErr(files, p)
  <2>1. /\ Section(t, {"Remove"}) /\ EndSection(t, err, {p}, "return")
        /\ files' = Tree!RemoveTree(files, p)
    BY <1>1 DEF Remove, Tree!Remove, Tree!Change
  <2>2. Failed(c, err) = Atomic(c, files) /\ files \in seen[t]
    BY <2>1, SectionFacts, ChangesAnswer
  <2>3. files' = IF err = "nil" THEN Tree!Without(files, {p}) ELSE files
    BY <2>1 DEF Tree!RemoveTree
  <2> HIDE DEF err
  <2>4. KeepsEntries(IF err = "nil" THEN {p} ELSE {})
    BY <2>3 DEF KeepsEntries, Tree!Without
  <2> QED
    BY <2>1, <2>2, <2>4, SectionFacts, SectionRight
<1>2. CASE RemoveAll(t)
  <2> DEFINE S == {p} \cup Tree!Under[p]
             l == IF Op(t) = "MarkNonExistent" THEN "mark" ELSE "return"
  <2>1. /\ Section(t, {"RemoveAll", "RemoveEntry", "MarkNonExistent"})
        /\ EndSection(t, "nil", S, l)
        /\ files' = Tree!Without(files, S)
    BY <1>2 DEF RemoveAll, Tree!RemoveAll, Tree!Change, Tree!RemoveAllTree
  <2> HIDE DEF S
  <2>2. KeepsEntries(S)
    BY <2>1 DEF KeepsEntries, Tree!Without
  <2>3. Failed(c, "nil") = Atomic(c, files) /\ files \in seen[t]
    <3>1. Failed(c, "nil") = [NoAnswer EXCEPT !.err = {}]
      BY DEF Failed
    <3>2. [NoAnswer EXCEPT !.err = {}] = NoAnswer
      BY DEF NoAnswer
    <3>3. files \in seen[t] /\ c.op \in {"RemoveAll", "RemoveEntry", "MarkNonExistent"}
      BY <2>1, SectionFacts
    <3>4. Atomic(c, files) = NoAnswer
      BY <3>3, ChangesAnswer
    <3> QED
      BY <3>1, <3>2, <3>3, <3>4
  <2>4. /\ l \in {"return", "mark"} /\ (l = "mark" => Op(t) = "MarkNonExistent")
        /\ pc[t] = "lock" /\ Op(t) # "ReadFile"
    BY <2>1, SectionFacts
  <2> HIDE DEF l
  <2> QED
    BY <2>1, <2>2, <2>3, <2>4, SectionRight
<1> QED
  BY <1>1, <1>2

\* A WriteFile changes the entry that is there, but its lock is free again.
LEMMA WriteFileRight ==
  ASSUME Inv, SeenInv, NEW t \in Threads, WriteFile(t)
  PROVE  SeenInv'
<1> DEFINE p == Path(t)  c == call[t]  err == Tree!WriteFileErr(files, p)
<1>1. /\ Section(t, {"Write"}) /\ EndSection(t, err, {}, "return")
      /\ files' = Tree!WriteFileTree(files, p, c.size)
      /\ Tree!Unlocked'
  BY DEF WriteFile, Tree!WriteFile, Tree!Change, Tree!Unlocked, Tree!NoMove
<1>2. Failed(c, err) = Atomic(c, files) /\ files \in seen[t]
  BY <1>1, SectionFacts, ChangesAnswer
<1>3. files \in [Tree!Keys -> Tree!Entries \cup {None}] /\ p \in Tree!Keys
  BY <1>1, SectionFacts
<1>4. \/ files' = files
      \/ ~Tree!Exists(files, p) /\ \E e : files' = [files EXCEPT ![p] = e]
      \/ /\ Tree!Exists(files, p)
         /\ \E n \in Nat : files' = [files EXCEPT ![p] = [files[p] EXCEPT !.size = n]]
  <2>1. CASE Tree!WriteFileErr(files, p) # "nil" \/ ~Tree!Exists(files, p)
    BY <1>1, <2>1 DEF Tree!WriteFileTree
  <2>2. CASE Tree!WriteFileErr(files, p) = "nil" /\ Tree!Exists(files, p)
    <3>1. c.size \in Nat
      BY <1>1, SectionFacts
    <3>2. files[p] \in Tree!Entries
      BY <1>3, <2>2 DEF Tree!Exists
    <3>3. files[p].size + c.size \in Nat
      BY <3>1, <3>2 DEF Tree!Entries
    <3>4. \/ files' = [files EXCEPT ![p] = [files[p] EXCEPT !.size = c.size]]
          \/ files' = [files EXCEPT ![p] = [files[p] EXCEPT !.size = files[p].size + c.size]]
      BY <1>1, <2>2 DEF Tree!WriteFileTree
    <3> QED
      BY <2>2, <3>1, <3>3, <3>4
  <2> QED
    BY <2>1, <2>2
<1>6. KeepsEntries({})
  <2>1. \A q \in Tree!Keys \ {p} : files'[q] = files[q]
    BY <1>3, <1>4
  <2>2. CASE ~Tree!Exists(files, p)
    BY <2>1, <2>2 DEF KeepsEntries
  <2>3. CASE Tree!Exists(files, p)
    <3>1. files[p] \in Tree!Entries
      BY <1>3, <2>3 DEF Tree!Exists
    <3>2. files'[p] = files[p] \/ \E n \in Nat : files'[p] = [files[p] EXCEPT !.size = n]
      BY <1>3, <1>4, <2>3
    <3>3. files'[p] # None
      <4>1. \A n \in Nat : [files[p] EXCEPT !.size = n] \in [dir : BOOLEAN, size : Nat]
        BY <3>1 DEF Tree!Entries
      <4> QED
        BY <2>3, <3>2, <4>1, TreeConstants DEF Tree!Exists
    <3> QED
      BY <1>1, <2>1, <3>3 DEF KeepsEntries
  <2> QED
    BY <2>2, <2>3
<1> HIDE DEF err
<1> QED
  BY <1>1, <1>2, <1>6, SectionFacts, SectionRight

\* A Rename loses the entries at the keys that it moves, and answers for the tree
\* that it began with.
LEMMA RenameRight ==
  ASSUME Inv, SeenInv, NEW t \in Threads,
         RenameNothing(t) \/ RenameOne(t) \/ RenameBegin(t) \/ RenameVisit(t) \/ RenameEnd(t)
  PROVE  SeenInv'
<1> DEFINE o == Path(t)  n == call[t].to  c == call[t]
<1>0. files \in [Tree!Keys -> Tree!Entries \cup {None}]
  BY DEF Inv, TypeInv, Tree!TypeOK, Tree!Trees
<1>1. CASE RenameNothing(t)
  <2>1. /\ Section(t, {"Rename"}) /\ EndSection(t, "ErrNotExist", {}, "return")
        /\ ~Tree!Exists(files, o) /\ files' = files
    BY <1>1 DEF RenameNothing, treeVars
  <2>2. Failed(c, "ErrNotExist") = Atomic(c, files) /\ files \in seen[t]
    BY <2>1, SectionFacts, ChangesAnswer
  <2>3. KeepsEntries({})
    BY <2>1 DEF KeepsEntries
  <2> QED
    BY <2>1, <2>2, <2>3, SectionFacts, SectionRight
<1>2. CASE RenameOne(t)
  <2>1. /\ Section(t, {"Rename"}) /\ EndSection(t, "nil", {o, n}, "return")
        /\ Tree!Exists(files, o)
        /\ files' = Tree!Without([files EXCEPT ![n] = files[o]], {o})
    BY <1>2 DEF RenameOne, Tree!RenameOne, Tree!Change
  <2>2. Failed(c, "nil") = Atomic(c, files) /\ files \in seen[t]
    BY <2>1, SectionFacts, ChangesAnswer
  <2>3. KeepsEntries({o, n})
    BY <1>0, <2>1 DEF KeepsEntries, Tree!Without
  <2> QED
    BY <2>1, <2>2, <2>3, SectionFacts, SectionRight
<1>3. CASE RenameBegin(t)
  <2>1. /\ Section(t, {"Rename"}) /\ EndSection(t, "nil", {n}, "moving")
        /\ Tree!Exists(files, o)
        /\ files' = [files EXCEPT ![n] = files[o]]
    BY <1>3 DEF RenameBegin, Tree!RenameBegin, Tree!IsDir
  <2>2. Op(t) = "Rename" /\ \E v \in seen[t] : Tree!Exists(v, o)
    BY <2>1, SectionFacts
  <2>3. KeepsEntries({n})
    BY <1>0, <2>1 DEF KeepsEntries
  <2> QED
    BY <2>1, <2>2, <2>3, SectionFacts, SectionRight
<1>4. CASE RenameVisit(t)
  <2>1. PICK q \in Tree!Keys : /\ Tree!RenameVisit(q)
                               /\ EndSection(t, "nil", {q, Tree!Rebase(q, o, n)}, "moving")
    BY <1>4 DEF RenameVisit
  <2>2. /\ pc[t] = "moving" /\ moving.from = o /\ moving.to = n
        /\ Op(t) = "Rename" /\ \E v \in seen[t] : Tree!Exists(v, o)
    BY <1>4 DEF RenameVisit, Inv, TypeInv, Mover, At, SeenInv, LooksRight
  <2> DEFINE nq == Tree!Rebase(q, o, n)
  <2>3. files' = [[files EXCEPT ![nq] = files[q]] EXCEPT ![q] = None] /\ nq \in Tree!Keys
    BY <2>1, <2>2 DEF Tree!RenameVisit
  <2> HIDE DEF nq
  <2>4. KeepsEntries({q, nq})
    BY <1>0, <2>3 DEF KeepsEntries
  <2> QED
    BY <2>1, <2>2, <2>4, SectionRight DEF nq
<1>5. CASE RenameEnd(t)
  <2>1. EndSection(t, "nil", {o}, "return") /\ files' = Tree!Without(files, {moving.from})
    BY <1>5 DEF RenameEnd, Tree!RenameEnd
  <2>2. /\ pc[t] = "moving" /\ moving.from = o
        /\ Op(t) = "Rename" /\ \E v \in seen[t] : Tree!Exists(v, o)
    BY <1>5 DEF RenameEnd, Inv, TypeInv, Mover, At, SeenInv, LooksRight
  <2>3. PICK v \in seen[t] : Tree!Exists(v, o)
    BY <2>2
  <2>4. Failed(c, "nil") = Atomic(c, v)
    <3>1. c.op = "Rename" /\ c.path = o
      BY <2>2 DEF Op, Path
    <3>2. Atomic(c, v) = Failed(c, IF Tree!Exists(v, o) THEN "nil" ELSE "ErrNotExist")
      BY <3>1, ChangesAnswer
    <3> QED
      BY <2>3, <3>2
  <2>5. KeepsEntries({o})
    BY <1>0, <2>1, <2>2 DEF KeepsEntries, Tree!Without
  <2> QED
    BY <2>1, <2>2, <2>4, <2>5, SectionRight
<1> QED
  BY <1>1, <1>2, <1>3, <1>4, <1>5

\* While the options are applied nobody has seen anything.
LEMMA NobodyLooks ==
  ASSUME SeenInv, \A t \in Threads : pc[t] = "idle", UNCHANGED <<pc, answer, held, seen>>
  PROVE  SeenInv'
  BY DEF SeenInv, LooksRight, Answered, At

LEMMA NextSeen == Inv /\ SeenInv /\ [Next]_vars => SeenInv'
<1> SUFFICES ASSUME Inv, SeenInv, [Next]_vars PROVE SeenInv'
  OBVIOUS
<1>1. CASE Build
  <2>1. UNCHANGED <<pc, answer, held, seen>>
    BY <1>1 DEF Build, FileOption, DirOption, DirReturns, BadOption, Built, OthersIdle, callVars
  <2>2. \A t \in Threads : pc[t] = "idle"
    BY <1>1 DEF Build, FileOption, DirOption, DirReturns, BadOption, Built, Put, Inv, BuildInv
  <2> QED
    BY <2>1, <2>2, NobodyLooks
<1>2. ASSUME NEW t \in Threads, Step(t) PROVE SeenInv'
  <2>1. CASE BeginRefused(t) \/ BeginSimulated(t) \/ BeginDirect(t)
    BY <2>1, StartForms, StartRight
  <2>2. CASE LookUp(t) \/ ReadFields(t) \/ List(t) \/ Copy(t)
    BY <2>2, LookUpRight, ReadFieldsRight, ListRight, CopyRight
  <2>3. CASE Change(t)
    BY <2>3, MkdirRight, AddFileRight, RemoveRight, WriteFileRight, RenameRight DEF Change
  <2>4. CASE AddMark(t) \/ Opened(t) \/ ReadAll(t) \/ CloseFile(t)
    BY <2>4, RestRight
  <2>5. CASE Return(t)
    BY <2>5, ReturnRight
  <2> QED
    BY <1>2, <2>1, <2>2, <2>3, <2>4, <2>5 DEF Step
<1>3. CASE AddRule \/ ClearErrors \/ UNCHANGED vars
  <2>1. UNCHANGED <<treeVars, pc, call, held, answer, dealt, seen>>
    BY <1>3 DEF AddRule, ClearErrors, vars, callVars
  <2>2. Tree!tree' = Tree!tree /\ files' = files
    BY <2>1 DEF treeVars, Tree!tree, Tree!Unlocked, Tree!NoMove
  <2>3. ASSUME NEW u \in Threads PROVE LooksRight(u)'
    <3>1. LooksRight(u)
      BY DEF SeenInv
    <3>2. Answered(u)' <=> Answered(u)
      BY <2>1 DEF Answered, At, Op
    <3>3. OneVersion(u)' <=> OneVersion(u)
      BY <2>1 DEF OneVersion
    <3>4. EntrySeen(u)' <=> EntrySeen(u)
      BY <2>1, <2>2 DEF EntrySeen, Path, Tree!Exists
    <3>5. Op(u)' = Op(u) /\ Path(u)' = Path(u)
      BY <2>1 DEF Op, Path
    <3> QED
      BY <2>1, <2>2, <3>1, <3>2, <3>3, <3>4, <3>5 DEF LooksRight
  <2> QED
    BY <2>1, <2>3 DEF SeenInv
<1> QED
  BY <1>1, <1>2, <1>3 DEF Next, Done

LEMMA SeenHolds == Spec => []SeenInv
<1>1. Init => SeenInv
  BY DEF Init, SeenInv, LooksRight, Answered, At
<1> QED
  BY <1>1, NextSeen, InvHolds, PTL DEF Spec

\* A call that no rule fails has the answer that it would have had in one step at
\* some moment of the call, or, of a directory that was removed after it was looked
\* up, the answer from what was left below it: with any calls of any goroutines.
THEOREM AnsweredFromOneVersion == Spec => []AnswersFromOneVersion
<1>1. SeenInv => AnswersFromOneVersion
  BY DEF SeenInv, LooksRight, OneVersion, AnswersFromOneVersion
<1> QED
  BY <1>1, SeenHolds, PTL

-----------------------------------------------------------------------------
(* What the statistics count *)

\* The error of a call names its operation, that of a ReadFile its Open while the
\* Open is not recorded; a ReadFile that goes on has one that did not fail.
NamesItsCall(t) ==
  /\ pc[t] = "opened" => (answer[t].err # {} <=> OpenFailed(t))
  /\ pc[t] \in {"read", "close"} => ~OpenFailed(t)
  /\ pc[t] = "return" /\ Op(t) \in Simulated =>
       (answer[t].err # {} <=> \E w \in answer[t].err : w[1] = Op(t))

\* The ReadFiles that the statistics know of, and their callers do not.
Readers == {t \in Threads : Reading(t)}
FailedReaders == {t \in Threads : Reading(t) /\ OpenFailed(t)}

Pending(op, S) == IF op = "Open" THEN Cardinality(S) ELSE 0

CountsInv ==
  /\ tally \in Counters
  /\ \A t \in Threads : NamesItsCall(t)
  /\ CallsCounted

LEMMA CountedForm ==
  CallsCounted <=>
    \A op \in Simulated :
      /\ stats[op].total = tally[op].total + Pending(op, Readers)
      /\ stats[op].failure = tally[op].failure + Pending(op, FailedReaders)
  BY DEF CallsCounted, Pending, Readers, FailedReaders

\* The errors there are.
LEMMA ErrorNames ==
  ASSUME NEW op, NEW why
  PROVE  Error(op, why) # {} /\ \A w \in Error(op, why) : w[1] = op
  BY DEF Error

LEMMA OutcomeNames ==
  ASSUME NEW R, NEW op, NEW p, NEW e \in Outcomes(R, op, p)
  PROVE  \A w \in e : w[1] = op
<1>1. e = {} \/ \E r \in Applying(R, op, p) : e = Error(op, r.err)
  BY DEF Outcomes
<1> QED
  BY <1>1, ErrorNames

\* Nobody else moves in a step.
LEMMA StepAlone ==
  ASSUME CallsInv, NEW t \in Threads, Step(t)
  PROVE  \A u \in Threads \ {t} : pc'[u] = pc[u] /\ call'[u] = call[u] /\ answer'[u] = answer[u]
<1>1. (UNCHANGED answer \/ \E a : Reply(t, a)) /\ \E l : Goto(t, l)
  <2>1. CASE BeginRefused(t) \/ BeginSimulated(t) \/ BeginDirect(t)
    BY <2>1 DEF BeginRefused, BeginSimulated, BeginDirect, Injected, Fail
  <2>2. CASE LookUp(t)
    <3>1. \E l : Goto(t, l)
      BY <2>2 DEF LookUp
    <3>2. UNCHANGED answer \/ \E a : Reply(t, a)
      BY <2>2 DEF LookUp, Fail
    <3> QED
      BY <3>1, <3>2
  <2>3. CASE ReadFields(t) \/ List(t) \/ Copy(t)
    BY <2>3 DEF ReadFields, List, Copy
  <2>4. CASE Change(t)
    BY <2>4, ChangeForms DEF ChangeForm, EndSection, Fail
  <2>5. CASE AddMark(t) \/ Opened(t) \/ ReadAll(t) \/ CloseFile(t) \/ Return(t)
    BY <2>5 DEF AddMark, Opened, ReadAll, CloseFile, Return, Fail, Reply
  <2> QED
    BY <2>1, <2>2, <2>3, <2>4, <2>5 DEF Step
<1>2. UNCHANGED call \/ \E c : call' = [call EXCEPT ![t] = c]
  BY DEF Step, BeginRefused, BeginSimulated, BeginDirect, Begin, LookUp, ReadFields, List,
         Copy, Change, Mkdir, MkdirAll, AddFile, Remove, RemoveAll, WriteFile, RenameNothing,
         RenameOne, RenameBegin, RenameVisit, RenameEnd, EndSection, AddMark, Opened, ReadAll,
         CloseFile, Return, Unchanged, callVars
<1>3. \A u \in Threads \ {t} : pc'[u] = pc[u]
  BY <1>1 DEF Goto, CallsInv
<1>4. \A u \in Threads \ {t} : call'[u] = call[u]
  BY <1>2 DEF CallsInv
<1>5. \A u \in Threads \ {t} : answer'[u] = answer[u]
  BY <1>1 DEF Reply, CallsInv
<1> QED
  BY <1>3, <1>4, <1>5

\* A step that neither records nor tells an outcome, of a goroutine that is or is
\* not a reader before and after it.
LEMMA UncountedStep ==
  ASSUME CallsInv, CountsInv, NEW t \in Threads, Step(t), NamesItsCall(t)',
         UNCHANGED <<stats, tally>>,
         Reading(t)' <=> Reading(t),
         Reading(t) => (OpenFailed(t)' <=> OpenFailed(t))
  PROVE  CountsInv'
<1>1. \A u \in Threads \ {t} : pc'[u] = pc[u] /\ call'[u] = call[u] /\ answer'[u] = answer[u]
  BY StepAlone
<1>2. \A u \in Threads \ {t} : NamesItsCall(u)'
  BY <1>1 DEF CountsInv, NamesItsCall, OpenFailed, Op
<1>3. \A u \in Threads \ {t} : (Reading(u)' <=> Reading(u)) /\ (OpenFailed(u)' <=> OpenFailed(u))
  BY <1>1 DEF Reading, OpenFailed, Op
<1>4. Readers' = Readers /\ FailedReaders' = FailedReaders
  BY <1>3 DEF Readers, FailedReaders
<1>5. (\A op \in Simulated :
         /\ stats[op].total = tally[op].total + Pending(op, Readers)
         /\ stats[op].failure = tally[op].failure + Pending(op, FailedReaders))'
  BY <1>4, CountedForm DEF CountsInv, Pending
<1>6. CallsCounted'
  BY <1>5, CountedForm, PTL
<1> QED
  BY <1>2, <1>6 DEF CountsInv

\* A call that has just begun is no reader, and its error is its own.
LEMMA StartCounts ==
  ASSUME Inv, CountsInv, NEW t \in Threads,
         BeginRefused(t) \/ BeginSimulated(t) \/ BeginDirect(t)
  PROVE  CountsInv'
<1>1. PICK c \in Calls : At(t, "idle") /\ Begin(t, c)
  BY DEF BeginRefused, BeginSimulated, BeginDirect, MayBegin
<1>2. /\ call'[t] = c /\ pc[t] = "idle"
      /\ UNCHANGED <<stats, tally>> /\ Step(t)
      /\ DOMAIN answer = Threads /\ DOMAIN pc = Threads
      /\ Op(t)' = c.op
  BY <1>1 DEF Inv, CallsInv, Begin, At, Step, Op
<1>3. ~Reading(t)
  BY <1>2 DEF Reading
<1>4. CASE BeginRefused(t)
  <2>1. PICK d \in Calls :
          /\ Refused(d) /\ Begin(t, d) /\ Goto(t, "return")
          /\ Fail(t, Error(ErrorOp(d.op), "ErrInvalid"))
    BY <1>4 DEF BeginRefused
  <2>2. call'[t] = d /\ pc'[t] = "return" /\ Op(t)' = d.op /\ Refused(call'[t])
    BY <1>2, <2>1 DEF Begin, Goto, Inv, CallsInv, Op
  <2>3. answer'[t].err = Error(ErrorOp(d.op), "ErrInvalid")
    BY <1>2, <2>1, PlainAnswer DEF Fail, Reply
  <2>4. d.op \in Simulated => ErrorOp(d.op) = d.op
    BY DEF ErrorOp, Simulated
  <2>5. NamesItsCall(t)'
    BY <2>2, <2>3, <2>4, ErrorNames DEF NamesItsCall
  <2>6. ~Reading(t)'
    BY <2>2 DEF Reading
  <2> QED
    BY <1>2, <1>3, <2>5, <2>6, UncountedStep DEF Inv
<1>5. CASE BeginSimulated(t)
  <2>1. PICK d \in Calls :
          /\ Begin(t, d) /\ d.op \in Simulated \cup {"ReadFile"}
          /\ Injected(t, IF d.op = "ReadFile" THEN "Open" ELSE d.op, d.path, "lock")
    BY <1>5 DEF BeginSimulated
  <2>2. call'[t] = d /\ Op(t)' = d.op
    BY <2>1 DEF Begin, Inv, CallsInv, Op
  <2> DEFINE op == IF d.op = "ReadFile" THEN "Open" ELSE d.op
  <2>3. PICK e \in Outcomes(rules, op, d.path) :
          IF e # {} THEN /\ Goto(t, IF Op(t)' = "ReadFile" THEN "opened" ELSE "return")
                         /\ Fail(t, e)
          ELSE Goto(t, "lock")
    BY <2>1 DEF Injected
  <2>4. \A w \in e : w[1] = op
    BY OutcomeNames
  <2>5. CASE e = {}
    <3>1. pc'[t] = "lock"
      BY <1>2, <2>3, <2>5 DEF Goto
    <3> QED
      BY <1>2, <1>3, <3>1, UncountedStep DEF Inv, NamesItsCall, Reading
  <2>6. CASE e # {}
    <3>1. /\ pc'[t] = IF d.op = "ReadFile" THEN "opened" ELSE "return"
          /\ Fail(t, e)
      BY <1>2, <2>2, <2>3, <2>6 DEF Goto
    <3>2. answer'[t].err = e
      BY <1>2, <3>1, PlainAnswer DEF Fail, Reply
    <3>3. NamesItsCall(t)'
      BY <2>2, <2>4, <2>6, <3>1, <3>2 DEF NamesItsCall, OpenFailed
    <3>4. ~Reading(t)'
      BY <2>2, <3>1 DEF Reading
    <3> QED
      BY <1>2, <1>3, <3>3, <3>4, UncountedStep DEF Inv
  <2> QED
    BY <2>5, <2>6
<1>6. CASE BeginDirect(t)
  <2>1. PICK d \in Calls :
          /\ Begin(t, d) /\ d.op \in Direct
          /\ Goto(t, IF d.op = "Sub" /\ d.path = Here THEN "return" ELSE "lock")
    BY <1>6 DEF BeginDirect
  <2>2. call'[t] = d /\ Op(t)' = d.op /\ pc'[t] \in {"return", "lock"}
    BY <1>2, <2>1 DEF Begin, Goto, Inv, CallsInv, Op
  <2>3. NamesItsCall(t)' /\ ~Reading(t)'
    BY <2>1, <2>2 DEF NamesItsCall, Reading, Direct, Simulated
  <2> QED
    BY <1>2, <1>3, <2>3, UncountedStep DEF Inv
<1> QED
  BY <1>4, <1>5, <1>6

\* No error, or one of the call itself, which is an Open in a ReadFile.
OwnError(t, e) ==
  e = {} \/ \E why : e = Error(IF Op(t) = "ReadFile" THEN "Open" ELSE Op(t), why)

\* A section, or Stat's look at the fields, ends with an error of its own call or
\* with none.
LEMMA SectionCounts ==
  ASSUME Inv, CountsInv, NEW t \in Threads, Step(t),
         pc[t] \in {"lock", "fields", "list", "moving", "mark"},
         UNCHANGED <<stats, call, tally>>,
         NEW l, Goto(t, l),
         l \in {"fields", "list", "moving", "mark", "return", "opened"},
         l = "return" => Op(t) # "ReadFile",
         l = "opened" => Op(t) = "ReadFile",
         l \in {"return", "opened"} /\ Op(t) \in Simulated \cup {"ReadFile"} =>
           OwnError(t, answer'[t].err)
  PROVE  CountsInv'
<1>1. pc'[t] = l /\ Op(t)' = Op(t)
  BY DEF Inv, CallsInv, Goto, Op
<1>2. ~Reading(t) /\ ~Reading(t)'
  BY <1>1 DEF Reading
<1>3. NamesItsCall(t)'
  <2>1. CASE l \notin {"return", "opened"}
    BY <1>1, <2>1 DEF NamesItsCall
  <2>2. CASE l = "return" /\ Op(t) \in Simulated
    <3>1. (answer[t].err)' # {} <=> \E w \in (answer[t].err)' : w[1] = Op(t)
      BY <2>2, ErrorNames DEF OwnError, Simulated
    <3> QED
      BY <1>1, <2>2, <3>1 DEF NamesItsCall
  <2>3. CASE l = "return" /\ Op(t) \notin Simulated
    BY <1>1, <2>3 DEF NamesItsCall
  <2>4. CASE l = "opened"
    <3>1. (answer[t].err)' # {} <=> \E w \in (answer[t].err)' : w[1] = "Open"
      BY <2>4, ErrorNames DEF OwnError
    <3> QED
      BY <1>1, <2>4, <3>1 DEF NamesItsCall, OpenFailed
  <2> QED
    BY <2>1, <2>2, <2>3, <2>4
<1> QED
  BY <1>2, <1>3, UncountedStep DEF Inv

LEMMA LooksCount ==
  ASSUME Inv, SeenInv, CountsInv, NEW t \in Threads,
         LookUp(t) \/ ReadFields(t) \/ List(t) \/ Copy(t)
  PROVE  CountsInv'
<1>1. /\ Step(t) /\ UNCHANGED <<stats, call, tally>> /\ DOMAIN answer = Threads
  BY DEF Step, LookUp, ReadFields, List, Copy, Unchanged, callVars, Inv, CallsInv
<1>2. CASE LookUp(t)
  <2> DEFINE reading == Op(t) = "ReadFile"
             l == IF reading THEN "opened" ELSE "return"
  <2>0. pc[t] = "lock"
    BY <1>2 DEF LookUp, Section, At
  <2>1. CASE \E k \in {"fields", "list"} : Goto(t, k)
    BY <1>1, <2>0, <2>1, SectionCounts
  <2>2. CASE Goto(t, l) /\ \E why : Fail(t, Error(IF reading THEN "Open" ELSE Op(t), why))
    <3>1. OwnError(t, answer'[t].err)
      BY <1>1, <2>2, PlainAnswer DEF Fail, Reply, OwnError
    <3> QED
      BY <1>1, <2>0, <2>2, <3>1, SectionCounts
  <2>3. CASE Goto(t, l) /\ Reply(t, [NoAnswer EXCEPT !.entry = Tree!File(0)])
    <3>1. OwnError(t, answer'[t].err)
      BY <1>1, <2>3, AnswerForms DEF IsAnswer, Reply, OwnError
    <3> QED
      BY <1>1, <2>0, <2>3, <3>1, SectionCounts
  <2>4. CASE ~Tree!Exists(files, Path(t))
    BY <1>2, <2>2, <2>4 DEF LookUp
  <2>5. CASE Tree!Exists(files, Path(t)) /\ (Op(t) = "Stat" \/ Tree!IsDir(files, Path(t)))
    BY <1>2, <2>1, <2>5 DEF LookUp
  <2>6. CASE /\ Tree!Exists(files, Path(t)) /\ Op(t) # "Stat" /\ ~Tree!IsDir(files, Path(t))
             /\ Op(t) \in {"ReadDir", "Sub"}
    BY <1>2, <2>2, <2>6 DEF LookUp
  <2>7. CASE /\ Tree!Exists(files, Path(t)) /\ Op(t) # "Stat" /\ ~Tree!IsDir(files, Path(t))
             /\ Op(t) \notin {"ReadDir", "Sub"}
    BY <1>2, <2>3, <2>7 DEF LookUp
  <2> QED
    BY <2>4, <2>5, <2>6, <2>7
<1>3. CASE ReadFields(t)
  <2>1. pc[t] = "fields" /\ Op(t) = "Stat" /\ Goto(t, "return")
    BY <1>3 DEF ReadFields, At, SeenInv, LooksRight
  <2>2. \E x : Reply(t, [NoAnswer EXCEPT !.entry = x])
    BY <1>3 DEF ReadFields
  <2>3. OwnError(t, answer'[t].err)
    BY <1>1, <2>2, AnswerForms DEF IsAnswer, Reply, OwnError
  <2> QED
    BY <1>1, <2>1, <2>3, SectionCounts
<1>4. CASE List(t)
  <2>1. pc[t] = "list" /\ Goto(t, IF Op(t) = "ReadFile" THEN "opened" ELSE "return")
    BY <1>4 DEF List, At
  <2>2. \E x, n : Reply(t, [NoAnswer EXCEPT !.entry = x, !.names = n])
    BY <1>4 DEF List
  <2>3. OwnError(t, answer'[t].err)
    BY <1>1, <2>2, AnswerForms DEF IsAnswer, Reply, OwnError
  <2> QED
    BY <1>1, <2>1, <2>3, SectionCounts
<1>5. CASE Copy(t)
  <2>1. pc[t] = "list" /\ Op(t) = "Sub" /\ Goto(t, "return")
    BY <1>5 DEF Copy, At
  <2> QED
    BY <1>1, <2>1, SectionCounts DEF Simulated
<1> QED
  BY <1>2, <1>3, <1>4, <1>5

LEMMA ChangeCounts ==
  ASSUME Inv, SeenInv, CountsInv, NEW t \in Threads, Change(t)
  PROVE  CountsInv'
<1> PICK err, lost, l : ChangeForm(t, err, lost, l)
  BY ChangeForms
<1>1. /\ Step(t) /\ UNCHANGED <<stats, call, tally>> /\ DOMAIN answer = Threads
      /\ Goto(t, l) /\ Fail(t, IF err = "nil" THEN {} ELSE Error(Op(t), err))
      /\ pc[t] \in {"lock", "moving"} /\ l \in {"return", "mark", "moving"}
  BY DEF Step, ChangeForm, EndSection, Inv, CallsInv
<1>2. Op(t) # "ReadFile"
  <2>1. CASE RenameVisit(t) \/ RenameEnd(t)
    BY <2>1 DEF RenameVisit, RenameEnd, At, SeenInv, LooksRight
  <2> QED
    BY <2>1 DEF Change, Mkdir, MkdirAll, AddFile, Remove, RemoveAll, WriteFile, RenameNothing,
                RenameOne, RenameBegin, Section
<1>3. OwnError(t, answer'[t].err)
  BY <1>1, <1>2, PlainAnswer DEF Fail, Reply, OwnError
<1> QED
  BY <1>1, <1>2, <1>3, SectionCounts

\* The Reads and the Close of a ReadFile report no error as one of Open.
LEMMA RestCounts ==
  ASSUME Inv, SeenInv, CountsInv, NEW t \in Threads,
         AddMark(t) \/ ReadAll(t) \/ CloseFile(t)
  PROVE  CountsInv'
<1>1. /\ Step(t) /\ UNCHANGED <<stats, call, tally>> /\ DOMAIN answer = Threads
      /\ DOMAIN pc = Threads
  BY DEF Step, AddMark, ReadAll, CloseFile, callVars, Inv, CallsInv
<1>2. CASE AddMark(t)
  <2>1. pc[t] = "mark" /\ Op(t) = "MarkNonExistent" /\ Goto(t, "return")
    BY <1>2 DEF AddMark, At, SeenInv, LooksRight
  <2> QED
    BY <1>1, <2>1, SectionCounts DEF Simulated
<1>3. ASSUME pc[t] \in {"read", "close"}
      PROVE  Op(t) = "ReadFile" /\ ~Refused(call[t]) /\ Reading(t) /\ ~OpenFailed(t)
  <2>1. Op(t) = "ReadFile"
    BY <1>3 DEF Inv, CallsInv, CallInv, KeepsErrors, InReadFile, SeenInv, LooksRight, Op
  <2>2. ~Refused(call[t])
    BY <1>3 DEF Inv, TypeInv, CallTyped, InCall, Labels
  <2> QED
    BY <1>3, <2>1, <2>2 DEF Reading, CountsInv, NamesItsCall
<1>4. CASE ReadAll(t)
  <2>1. PICK e \in Outcomes(rules, "Read", Path(t)) :
          pc[t] = "read" /\ Fail(t, e) /\ Goto(t, "close")
    BY <1>4 DEF ReadAll, At
  <2>2. pc'[t] = "close" /\ answer'[t].err = e /\ Op(t)' = Op(t) /\ Refused(call[t])' = Refused(call[t])
    BY <1>1, <2>1, PlainAnswer DEF Goto, Fail, Reply, Op, Refused
  <2>3. ~OpenFailed(t)'
    BY <2>2, OutcomeNames DEF OpenFailed
  <2>4. Reading(t)' /\ NamesItsCall(t)'
    BY <1>3, <2>1, <2>2, <2>3 DEF Reading, NamesItsCall
  <2> QED
    BY <1>1, <1>3, <2>1, <2>3, <2>4, UncountedStep DEF Inv
<1>5. CASE CloseFile(t)
  <2>1. PICK e \in Outcomes(rules, "Close", Path(t)) :
          pc[t] = "close" /\ Fail(t, Joined(answer[t].err, e)) /\ Goto(t, "return")
    BY <1>5 DEF CloseFile, At
  <2>2. /\ pc'[t] = "return" /\ answer'[t].err = answer[t].err \cup e
        /\ Op(t)' = Op(t) /\ Refused(call[t])' = Refused(call[t])
    BY <1>1, <2>1, PlainAnswer DEF Goto, Fail, Reply, Op, Refused, Joined
  <2>3. ~OpenFailed(t)'
    BY <1>3, <2>1, <2>2, OutcomeNames DEF OpenFailed
  <2>4. Reading(t)' /\ NamesItsCall(t)'
    BY <1>3, <2>1, <2>2, <2>3 DEF Reading, NamesItsCall, Simulated
  <2> QED
    BY <1>1, <1>3, <2>1, <2>3, <2>4, UncountedStep DEF Inv
<1> QED
  BY <1>2, <1>4, <1>5

\* How many readers there are when one begins or ends.
LEMMA OneMore ==
  ASSUME NEW S \in SUBSET Threads, NEW t \in Threads
  PROVE  /\ Cardinality(S) \in Nat
         /\ t \notin S => Cardinality(S \cup {t}) = Cardinality(S) + 1
         /\ t \in S => Cardinality(S) = Cardinality(S \ {t}) + 1
<1>1. IsFiniteSet(S) /\ IsFiniteSet(S \ {t})
  BY MockFSAssumption, FS_Subset
<1>2. Cardinality(S) \in Nat /\ Cardinality(S \ {t}) \in Nat
  BY <1>1, FS_CardinalityType
<1>3. t \notin S => Cardinality(S \cup {t}) = Cardinality(S) + 1
  BY <1>1, FS_AddElement
<1>4. t \in S => Cardinality(S \ {t}) = Cardinality(S) - 1
  BY <1>1, FS_RemoveElement
<1> QED
  BY <1>2, <1>3, <1>4

\* The readers after a step in which t alone begins or ends.
LEMMA ReadersChange ==
  ASSUME Inv, NEW t \in Threads, Step(t)
  PROVE  /\ Readers \in SUBSET Threads /\ FailedReaders \in SUBSET Threads
         /\ Readers' \ {t} = Readers \ {t} /\ FailedReaders' \ {t} = FailedReaders \ {t}
         /\ t \in Readers <=> Reading(t)
         /\ t \in FailedReaders <=> Reading(t) /\ OpenFailed(t)
         /\ t \in Readers' <=> Reading(t)'
         /\ t \in FailedReaders' <=> Reading(t)' /\ OpenFailed(t)'
<1>1. \A u \in Threads \ {t} : pc'[u] = pc[u] /\ call'[u] = call[u] /\ answer'[u] = answer[u]
  BY StepAlone DEF Inv
<1>2. \A u \in Threads \ {t} : (Reading(u)' <=> Reading(u)) /\ (OpenFailed(u)' <=> OpenFailed(u))
  BY <1>1 DEF Reading, OpenFailed, Op
<1> QED
  BY <1>2 DEF Readers, FailedReaders

\* The recorded Open is now that of a reader, who has not told its outcome.
LEMMA OpenedCounts ==
  ASSUME Inv, SeenInv, CountsInv, NEW t \in Threads, Opened(t)
  PROVE  CountsInv'
<1> DEFINE b == answer[t].err # {}
<1>1. /\ Step(t) /\ UNCHANGED <<call, answer, tally>> /\ pc[t] = "opened"
      /\ stats' = [stats EXCEPT !["Open"] = Recorded(stats, "Open", b)["Open"]]
      /\ pc'[t] = IF b THEN "return" ELSE "read"
  BY DEF Step, Opened, callVars, Goto, At, Inv, CallsInv
<1>2. Op(t) = "ReadFile" /\ ~Refused(call[t]) /\ (b <=> OpenFailed(t))
  BY <1>1 DEF Inv, CallsInv, CallInv, KeepsErrors, InReadFile, TypeInv, CallTyped, InCall,
              Labels, CountsInv, NamesItsCall
<1>3. ~Reading(t) /\ Reading(t)' /\ (OpenFailed(t)' <=> b)
  BY <1>1, <1>2 DEF Reading, OpenFailed, Op, Refused
<1>4. NamesItsCall(t)'
  BY <1>1, <1>2, <1>3 DEF NamesItsCall, Op, Simulated
<1>5. \A u \in Threads : NamesItsCall(u)'
  <2>1. \A u \in Threads \ {t} : pc'[u] = pc[u] /\ call'[u] = call[u] /\ answer'[u] = answer[u]
    BY <1>1, StepAlone DEF Inv
  <2> QED
    BY <1>4, <2>1 DEF CountsInv, NamesItsCall, OpenFailed, Op
<1>6. /\ Readers' = Readers \cup {t} /\ t \notin Readers
      /\ t \notin FailedReaders
      /\ FailedReaders' = IF b THEN FailedReaders \cup {t} ELSE FailedReaders
  <2>1. /\ t \notin Readers /\ t \in Readers' /\ Readers' \ {t} = Readers \ {t}
        /\ t \notin FailedReaders /\ (t \in FailedReaders' <=> b)
        /\ FailedReaders' \ {t} = FailedReaders \ {t}
    BY <1>1, <1>3, ReadersChange
  <2> HIDE DEF b
  <2> QED
    BY <2>1
<1>7. /\ Cardinality(Readers') = Cardinality(Readers) + 1
      /\ Cardinality(FailedReaders') = Cardinality(FailedReaders) + IF b THEN 1 ELSE 0
      /\ Cardinality(Readers) \in Nat /\ Cardinality(FailedReaders) \in Nat
  <2>1. Readers \in SUBSET Threads /\ FailedReaders \in SUBSET Threads
    BY <1>1, ReadersChange
  <2>2. /\ Cardinality(Readers) \in Nat /\ Cardinality(Readers \cup {t}) = Cardinality(Readers) + 1
        /\ Cardinality(FailedReaders) \in Nat
        /\ Cardinality(FailedReaders \cup {t}) = Cardinality(FailedReaders) + 1
    BY <1>6, <2>1, OneMore
  <2> HIDE DEF b
  <2>3. CASE b
    BY <1>6, <2>2, <2>3
  <2>4. CASE ~b
    BY <1>6, <2>2, <2>4
  <2> QED
    BY <2>3, <2>4
<1>8. /\ stats'["Open"].total = stats["Open"].total + 1
      /\ stats'["Open"].failure = stats["Open"].failure + IF b THEN 1 ELSE 0
      /\ \A op \in Simulated \ {"Open"} : stats'[op] = stats[op]
  <2>1. stats \in Counters /\ "Open" \in Simulated
    BY DEF Inv, TypeInv, Simulated
  <2>2. stats'["Open"] = Recorded(stats, "Open", b)["Open"]
    BY <1>1, <2>1 DEF Counters
  <2>3. \A op \in Simulated \ {"Open"} : stats'[op] = stats[op]
    BY <1>1, <2>1 DEF Counters
  <2> HIDE DEF b
  <2> QED
    BY <2>1, <2>2, <2>3, RecordedTyped
<1>9. (\A op \in Simulated :
         /\ stats[op].total = tally[op].total + Pending(op, Readers)
         /\ stats[op].failure = tally[op].failure + Pending(op, FailedReaders))'
  <2> SUFFICES ASSUME NEW op \in Simulated
               PROVE  /\ stats'[op].total = tally'[op].total + Pending(op, Readers')
                      /\ stats'[op].failure = tally'[op].failure + Pending(op, FailedReaders')
    OBVIOUS
  <2>1. /\ stats[op].total = tally[op].total + Pending(op, Readers)
        /\ stats[op].failure = tally[op].failure + Pending(op, FailedReaders)
    BY CountedForm DEF CountsInv
  <2>2. tally[op].total \in Nat /\ tally[op].failure \in Nat
    BY DEF CountsInv, Counters
  <2> HIDE DEF b
  <2> QED
    BY <1>1, <1>7, <1>8, <2>1, <2>2 DEF Pending
<1>10. CallsCounted'
  BY <1>9, CountedForm, PTL
<1> QED
  BY <1>1, <1>5, <1>10 DEF CountsInv

\* The caller of a recorded call is told, and that of a reader, who is one no more.
LEMMA ReturnCounts ==
  ASSUME Inv, CountsInv, NEW t \in Threads, Return(t)
  PROVE  CountsInv'
<1>1. /\ Step(t) /\ pc[t] = "return" /\ pc'[t] = "idle"
      /\ stats' = DeferredRecord(t) /\ tally' = Told(t)
      /\ stats \in Counters /\ tally \in Counters
  BY DEF Step, Return, Goto, At, Inv, CallsInv, TypeInv, CountsInv
<1>2. \A u \in Threads : NamesItsCall(u)'
  <2>1. \A u \in Threads \ {t} : pc'[u] = pc[u] /\ call'[u] = call[u] /\ answer'[u] = answer[u]
    BY <1>1, StepAlone DEF Inv
  <2> QED
    BY <1>1, <2>1 DEF CountsInv, NamesItsCall, OpenFailed, Op
<1>3. t \notin Readers' /\ t \notin FailedReaders'
  BY <1>1, ReadersChange DEF Reading
<1>4. \A op \in Simulated :
        /\ stats[op].total = tally[op].total + Pending(op, Readers)
        /\ stats[op].failure = tally[op].failure + Pending(op, FailedReaders)
        /\ tally[op].total \in Nat /\ tally[op].failure \in Nat
  BY <1>1, CountedForm DEF CountsInv, Counters
<1>5. CASE Op(t) \in Simulated
  <2> DEFINE b == answer[t].err # {}
             c == \E w \in answer[t].err : w[1] = Op(t)
  <2>1. b <=> c
    BY <1>1, <1>5 DEF CountsInv, NamesItsCall
  <2>2. stats' = Recorded(stats, Op(t), b) /\ tally' = Recorded(tally, Op(t), c)
    BY <1>1, <1>5 DEF DeferredRecord, Told, Simulated
  <2>3. ~Reading(t)
    BY <1>5 DEF Reading, Simulated
  <2>4. Readers' = Readers /\ FailedReaders' = FailedReaders
    BY <1>1, <1>3, <2>3, ReadersChange
  <2> HIDE DEF b, c
  <2>5. /\ tally' \in Counters
        /\ stats'[Op(t)].total = stats[Op(t)].total + 1
        /\ tally'[Op(t)].total = tally[Op(t)].total + 1
        /\ stats'[Op(t)].failure = stats[Op(t)].failure + IF b THEN 1 ELSE 0
        /\ tally'[Op(t)].failure = tally[Op(t)].failure + IF b THEN 1 ELSE 0
        /\ \A op \in Simulated \ {Op(t)} : stats'[op] = stats[op] /\ tally'[op] = tally[op]
    <3>1. /\ stats'[Op(t)].total = stats[Op(t)].total + 1
          /\ stats'[Op(t)].failure = stats[Op(t)].failure + IF b THEN 1 ELSE 0
          /\ \A op \in Simulated \ {Op(t)} : stats'[op] = stats[op]
      <4> DEFINE r == Recorded(stats, Op(t), b)
      <4>1. /\ r[Op(t)].total = stats[Op(t)].total + 1
            /\ r[Op(t)].failure = stats[Op(t)].failure + IF b THEN 1 ELSE 0
            /\ \A op \in Simulated \ {Op(t)} : r[op] = stats[op]
        BY <1>1, <1>5, RecordedTyped
      <4> HIDE DEF r
      <4>2. stats' = r
        BY <2>2 DEF r
      <4> QED
        BY <4>1, <4>2
    <3>2. /\ tally' \in Counters
          /\ tally'[Op(t)].total = tally[Op(t)].total + 1
          /\ tally'[Op(t)].failure = tally[Op(t)].failure + IF c THEN 1 ELSE 0
          /\ \A op \in Simulated \ {Op(t)} : tally'[op] = tally[op]
      <4> DEFINE r == Recorded(tally, Op(t), c)
      <4>1. /\ r \in Counters
            /\ r[Op(t)].total = tally[Op(t)].total + 1
            /\ r[Op(t)].failure = tally[Op(t)].failure + IF c THEN 1 ELSE 0
            /\ \A op \in Simulated \ {Op(t)} : r[op] = tally[op]
        BY <1>1, <1>5, RecordedTyped
      <4> HIDE DEF r
      <4>2. tally' = r
        BY <2>2 DEF r
      <4> QED
        BY <4>1, <4>2
    <3> QED
      BY <2>1, <3>1, <3>2
  <2>6. (\A op \in Simulated :
           /\ stats[op].total = tally[op].total + Pending(op, Readers)
           /\ stats[op].failure = tally[op].failure + Pending(op, FailedReaders))'
    <3> SUFFICES ASSUME NEW op \in Simulated
                 PROVE  /\ stats'[op].total = tally'[op].total + Pending(op, Readers')
                        /\ stats'[op].failure = tally'[op].failure + Pending(op, FailedReaders')
      OBVIOUS
    <3>1. Pending(op, Readers) \in Nat /\ Pending(op, FailedReaders) \in Nat
      BY <1>1, OneMore, ReadersChange DEF Pending
    <3> QED
      BY <1>4, <1>5, <2>4, <2>5, <3>1
  <2>7. CallsCounted'
    BY <2>6, CountedForm, PTL
  <2> QED
    BY <1>2, <2>5, <2>7 DEF CountsInv
<1>6. CASE Op(t) = "ReadFile" /\ ~Refused(call[t])
  <2> DEFINE b == OpenFailed(t)
  <2>1. stats' = stats /\ tally' = Recorded(tally, "Open", b) /\ "Open" \in Simulated
    BY <1>1, <1>6 DEF DeferredRecord, Told, Simulated, OpenFailed
  <2>2. Reading(t)
    BY <1>1, <1>6 DEF Reading
  <2>3. /\ t \in Readers /\ Readers' = Readers \ {t}
        /\ b <=> t \in FailedReaders
        /\ FailedReaders' = FailedReaders \ {t}
    <3>1. /\ t \in Readers /\ (b <=> t \in FailedReaders)
          /\ Readers' \ {t} = Readers \ {t} /\ FailedReaders' \ {t} = FailedReaders \ {t}
      BY <1>1, <2>2, ReadersChange
    <3> HIDE DEF b
    <3> QED
      BY <1>3, <3>1
  <2> HIDE DEF b
  <2>4. /\ Cardinality(Readers) = Cardinality(Readers') + 1
        /\ Cardinality(FailedReaders) = Cardinality(FailedReaders') + IF b THEN 1 ELSE 0
        /\ Cardinality(Readers') \in Nat /\ Cardinality(FailedReaders') \in Nat
    <3>1. /\ Readers \in SUBSET Threads /\ FailedReaders \in SUBSET Threads
          /\ Readers' \in SUBSET Threads /\ FailedReaders' \in SUBSET Threads
      BY <1>1, <2>3, ReadersChange
    <3>2. Cardinality(FailedReaders) = Cardinality(FailedReaders') + IF b THEN 1 ELSE 0
      <4>1. CASE b
        BY <2>3, <3>1, <4>1, OneMore
      <4>2. CASE ~b
        <5>1. FailedReaders' = FailedReaders
          BY <2>3, <4>2
        <5>2. Cardinality(FailedReaders) \in Nat
          BY <3>1, OneMore
        <5> QED
          BY <4>2, <5>1, <5>2
      <4> QED
        BY <4>1, <4>2
    <3> QED
      BY <2>3, <3>1, <3>2, OneMore
  <2>5. /\ tally' \in Counters
        /\ tally'["Open"].total = tally["Open"].total + 1
        /\ tally'["Open"].failure = tally["Open"].failure + IF b THEN 1 ELSE 0
        /\ \A op \in Simulated \ {"Open"} : tally'[op] = tally[op]
    <3> DEFINE r == Recorded(tally, "Open", b)
    <3>1. /\ r \in Counters
          /\ r["Open"].total = tally["Open"].total + 1
          /\ r["Open"].failure = tally["Open"].failure + IF b THEN 1 ELSE 0
          /\ \A op \in Simulated \ {"Open"} : r[op] = tally[op]
      <4>1. tally \in Counters /\ "Open" \in Simulated
        BY <1>1 DEF Simulated
      <4> QED
        BY <4>1, RecordedTyped
    <3> HIDE DEF r
    <3>2. tally' = r
      BY <2>1 DEF r
    <3> QED
      BY <3>1, <3>2
  <2>6. (\A op \in Simulated :
           /\ stats[op].total = tally[op].total + Pending(op, Readers)
           /\ stats[op].failure = tally[op].failure + Pending(op, FailedReaders))'
    <3> SUFFICES ASSUME NEW op \in Simulated
                 PROVE  /\ stats'[op].total = tally'[op].total + Pending(op, Readers')
                        /\ stats'[op].failure = tally'[op].failure + Pending(op, FailedReaders')
      OBVIOUS
    <3> QED
      BY <1>4, <2>1, <2>4, <2>5 DEF Pending
  <2>7. CallsCounted'
    BY <2>6, CountedForm, PTL
  <2> QED
    BY <1>2, <2>5, <2>7 DEF CountsInv
<1>7. CASE Op(t) \notin Simulated /\ (Op(t) # "ReadFile" \/ Refused(call[t]))
  <2>1. stats' = stats /\ tally' = tally
    BY <1>1, <1>7 DEF DeferredRecord, Told
  <2>2. ~Reading(t) /\ ~Reading(t)'
    BY <1>1, <1>7 DEF Reading
  <2> QED
    BY <1>1, <1>2, <2>1, <2>2, UncountedStep DEF Inv
<1> QED
  BY <1>5, <1>6, <1>7 DEF Simulated

LEMMA NextCounts == Inv /\ SeenInv /\ CountsInv /\ [Next]_vars => CountsInv'
<1> SUFFICES ASSUME Inv, SeenInv, CountsInv, [Next]_vars PROVE CountsInv'
  OBVIOUS
<1>1. ASSUME NEW t \in Threads, Step(t) PROVE CountsInv'
  BY <1>1, StartCounts, LooksCount, ChangeCounts, RestCounts, OpenedCounts, ReturnCounts DEF Step
<1>2. CASE Build \/ AddRule \/ ClearErrors \/ UNCHANGED vars
  <2>1. UNCHANGED <<stats, tally, pc, call, answer>>
    BY <1>2 DEF Build, FileOption, DirOption, DirReturns, BadOption, Built, OthersIdle,
                AddRule, ClearErrors, vars, callVars
  <2>2. \A t \in Threads :
          (Reading(t)' <=> Reading(t)) /\ (OpenFailed(t)' <=> OpenFailed(t)) /\ NamesItsCall(t)'
    BY <2>1 DEF CountsInv, Reading, OpenFailed, NamesItsCall, Op
  <2>3. Readers' = Readers /\ FailedReaders' = FailedReaders
    BY <2>2 DEF Readers, FailedReaders
  <2>4. (\A op \in Simulated :
           /\ stats[op].total = tally[op].total + Pending(op, Readers)
           /\ stats[op].failure = tally[op].failure + Pending(op, FailedReaders))'
    BY <2>1, <2>3, CountedForm DEF CountsInv, Pending
  <2>5. CallsCounted'
    BY <2>4, CountedForm, PTL
  <2> QED
    BY <2>1, <2>2, <2>5 DEF CountsInv
<1> QED
  BY <1>1, <1>2 DEF Next, Done

\* The statistics are what the callers have been told, for any number of goroutines
\* and any calls: every call that is counted once, as failed when it failed, and of
\* a ReadFile that goes on the Open that it has recorded already.
THEOREM StatsAreOutcomes == Spec => []CallsCounted
<1>1. Init => CountsInv
  <2> SUFFICES ASSUME Init PROVE CountsInv
    OBVIOUS
  <2>1. Readers = {} /\ FailedReaders = {}
    BY DEF Init, Readers, FailedReaders, Reading
  <2>2. tally \in Counters /\ \A t \in Threads : NamesItsCall(t)
    BY DEF Init, NoOutcomes, Counters, NamesItsCall
  <2>3. \A op \in Simulated : stats[op] = tally[op] /\ tally[op].total = 0 /\ tally[op].failure = 0
    BY DEF Init, NoOutcomes
  <2>4. CallsCounted
    BY <2>1, <2>3, CountedForm, FS_EmptySet DEF Pending
  <2> QED
    BY <2>2, <2>4 DEF CountsInv
<1>2. CountsInv => CallsCounted
  BY DEF CountsInv
<1> QED
  BY <1>1, <1>2, NextCounts, InvHolds, SeenHolds, PTL DEF Spec

-----------------------------------------------------------------------------
(* What has been marked as missing *)

LEMMA MarkMatches ==
  ASSUME NEW p
  PROVE  /\ Mark(p).op = "any" /\ Mark(p).always = TRUE
         /\ Matches(Mark(p).match, p)
<1>1. /\ Mark(p).op = "any" /\ Mark(p).always = TRUE
      /\ Mark(p).match = Pattern({p}, Here)
  BY DEF Mark
<1>2. Matches(Pattern({p}, Here), p)
  BY DEF Matches, Pattern, Join
<1> QED
  BY <1>1, <1>2

\* The injector lets nothing pass for a path that is marked.
LEMMA MarkFails ==
  ASSUME NEW R, NEW op, NEW p, {} \in Outcomes(R, op, p)
  PROVE  Mark(p) \notin R
<1>1. \A r \in Applying(R, op, p) : ~r.always
  BY ErrorNames DEF Outcomes
<1> QED
  BY <1>1, MarkMatches DEF Applying

\* A simulated call that the injector has let pass found no mark of its path.
PassedUnmarked(t) ==
  pc[t] \in {"lock", "fields", "list", "moving"} /\ Op(t) \notin Direct =>
    Mark(Path(t)) \notin checked[t]

MarksInv == \A t \in Threads : PassedUnmarked(t)

LEMMA StepMarks ==
  ASSUME Inv, MarksInv, NEW t \in Threads, Step(t)
  PROVE  MarksInv'
<1>0. ASSUME PassedUnmarked(t)', \A u \in Threads \ {t} : checked'[u] = checked[u]
      PROVE  MarksInv'
  <2>1. \A u \in Threads \ {t} : pc'[u] = pc[u] /\ call'[u] = call[u]
    BY StepAlone DEF Inv
  <2>2. \A u \in Threads \ {t} : PassedUnmarked(u)'
    BY <1>0, <2>1 DEF MarksInv, PassedUnmarked, Op, Path
  <2> QED
    BY <1>0, <2>2 DEF MarksInv
<1>1. CASE BeginRefused(t) \/ BeginDirect(t)
  <2>1. PICK c \in Calls, l \in {"return", "lock"} :
          /\ Begin(t, c) /\ Goto(t, l)
          /\ l = "lock" => c.op \in Direct
    BY <1>1 DEF BeginRefused, BeginDirect
  <2>2. /\ pc'[t] = l /\ call'[t] = c /\ \A u \in Threads \ {t} : checked'[u] = checked[u]
    BY <2>1 DEF Begin, Goto, Inv, CallsInv
  <2>3. PassedUnmarked(t)'
    BY <2>1, <2>2 DEF PassedUnmarked, Op
  <2> QED
    BY <1>0, <2>2, <2>3
<1>2. CASE BeginSimulated(t)
  <2>1. PICK c \in Calls :
          /\ Begin(t, c)
          /\ \E op : Injected(t, op, c.path, "lock")
    BY <1>2 DEF BeginSimulated
  <2>2. PICK op : \E e \in Outcomes(rules, op, c.path) :
          IF e # {} THEN \E l \in {"opened", "return"} : Goto(t, l) ELSE Goto(t, "lock")
    BY <2>1 DEF Injected
  <2> PICK e \in Outcomes(rules, op, c.path) :
          IF e # {} THEN \E l \in {"opened", "return"} : Goto(t, l) ELSE Goto(t, "lock")
    BY <2>2
  <2>3. /\ call'[t] = c /\ checked'[t] = rules
        /\ \A u \in Threads \ {t} : checked'[u] = checked[u]
    BY <2>1 DEF Begin, Inv, CallsInv
  <2>4. CASE e = {}
    <3>1. Mark(c.path) \notin rules
      BY <2>4, MarkFails
    <3>2. PassedUnmarked(t)'
      BY <2>3, <3>1 DEF PassedUnmarked, Path
    <3> QED
      BY <1>0, <2>3, <3>2
  <2>5. CASE e # {}
    <3>1. pc'[t] \in {"opened", "return"}
      BY <2>5 DEF Goto, Inv, CallsInv
    <3>2. PassedUnmarked(t)'
      BY <3>1 DEF PassedUnmarked
    <3> QED
      BY <1>0, <2>3, <3>2
  <2> QED
    BY <2>4, <2>5
<1>3. CASE Copy(t)
  <2>1. /\ pc'[t] = "return" /\ \A u \in Threads \ {t} : checked'[u] = checked[u]
    BY <1>3 DEF Copy, Goto, Inv, CallsInv
  <2> QED
    BY <1>0, <2>1 DEF PassedUnmarked
<1>4. CASE Return(t)
  <2>1. /\ pc'[t] = "idle" /\ \A u \in Threads \ {t} : checked'[u] = checked[u]
    BY <1>4 DEF Return, Goto, Inv, CallsInv
  <2> QED
    BY <1>0, <2>1 DEF PassedUnmarked
<1>5. CASE \/ LookUp(t) \/ ReadFields(t) \/ List(t) \/ Change(t)
            \/ AddMark(t) \/ Opened(t) \/ ReadAll(t) \/ CloseFile(t)
  <2>1. UNCHANGED <<call, checked>>
    <3>1. CASE Change(t)
      BY <3>1, ChangeForms DEF ChangeForm, EndSection
    <3> QED
      BY <1>5, <3>1 DEF LookUp, ReadFields, List, AddMark, Opened, ReadAll, CloseFile, Unchanged,
                        callVars
  <2>2. pc'[t] \in {"lock", "fields", "list", "moving"} => pc[t] \in {"lock", "moving"}
    <3>1. CASE Change(t)
      BY <3>1, ChangeForms DEF ChangeForm
    <3>2. CASE LookUp(t)
      BY <3>2 DEF LookUp, Section, At
    <3>3. CASE ReadFields(t) \/ List(t) \/ AddMark(t) \/ Opened(t) \/ ReadAll(t) \/ CloseFile(t)
      BY <3>3 DEF ReadFields, List, AddMark, Opened, ReadAll, CloseFile, Goto, Inv, CallsInv
    <3> QED
      BY <1>5, <3>1, <3>2, <3>3
  <2>3. PassedUnmarked(t)'
    BY <2>1, <2>2 DEF MarksInv, PassedUnmarked, Op, Path
  <2> QED
    BY <1>0, <2>1, <2>3
<1> QED
  BY <1>1, <1>2, <1>3, <1>4, <1>5 DEF Step

LEMMA NextMarks == Inv /\ MarksInv /\ [Next]_vars => MarksInv'
<1> SUFFICES ASSUME Inv, MarksInv, [Next]_vars PROVE MarksInv'
  OBVIOUS
<1>1. ASSUME NEW t \in Threads, Step(t) PROVE MarksInv'
  BY <1>1, StepMarks
<1>2. CASE Build \/ AddRule \/ ClearErrors \/ UNCHANGED vars
  <2>1. UNCHANGED <<pc, call, checked>>
    BY <1>2 DEF Build, FileOption, DirOption, DirReturns, BadOption, Built, OthersIdle,
                AddRule, ClearErrors, vars, callVars
  <2> QED
    BY <2>1 DEF MarksInv, PassedUnmarked, Op, Path
<1> QED
  BY <1>1, <1>2 DEF Next, Done

\* Only a section that changes the tree, or the loop of a Rename, changes the map,
\* and the goroutine in it moves.
LEMMA ChangesMove ==
  ASSUME Inv, NEW t \in Threads, Change(t)
  PROVE  Moved(t) /\ pc[t] \in {"lock", "moving"}
<1> PICK err, lost, l : ChangeForm(t, err, lost, l)
  BY ChangeForms
<1>1. pc[t] \in {"lock", "moving"} /\ pc'[t] = l
  BY DEF ChangeForm, EndSection, Goto, Inv, CallsInv
<1>2. CASE pc[t] # l
  BY <1>1, <1>2 DEF Moved
<1>3. CASE pc[t] = l
  <2>1. PICK q \in Tree!Keys : Tree!RenameVisit(q)
    BY <1>3 DEF ChangeForm
  <2>2. /\ Tree!TypeOK /\ ~Tree!Unlocked
    BY <1>1, <1>3 DEF ChangeForm, Inv, TypeInv, Mover, At
  <2>3. moving \in [from : Tree!Paths, to : Tree!Paths, todo : SUBSET Tree!Keys,
                    added : SUBSET Tree!Keys, before : Tree!Trees]
    BY <2>2, TreeConstants DEF Tree!TypeOK, Tree!Unlocked
  <2>4. q \in moving.todo \cup moving.added
    BY <2>1 DEF Tree!RenameVisit
  <2>5. PICK S : moving' = [moving EXCEPT !.todo = @ \ {q}, !.added = S \ {q}]
    BY <2>1 DEF Tree!RenameVisit
  <2>6. moving'.todo = moving.todo \ {q} /\ moving'.added = S \ {q}
    BY <2>3, <2>5
  <2>7. moving' # moving
    BY <2>4, <2>6
  <2>8. At(t, "moving")
    BY <1>1, <1>3 DEF At, ChangeForm
  <2> QED
    BY <1>1, <2>7, <2>8 DEF Moved
<1> QED
  BY <1>1, <1>2, <1>3

\* After MarkNonExistent, whatever the other goroutines do, an entry is back at the
\* marked path only by a call that the mark does not reach.
THEOREM MarkedPathsStayGone == Spec => MarkedStaysGone
<1>1. Init => MarksInv
  BY DEF Init, MarksInv, PassedUnmarked
<1>2. ASSUME Inv, MarksInv, [Next]_vars, NEW p \in Tree!Paths,
             Mark(p) \in rules, ~Tree!Exists(files, p), Tree!Exists(files', p)
      PROVE  \E t \in Threads :
               Moved(t) /\ (Op(t) \in Direct \/ Path(t) # p \/ Mark(p) \notin checked[t])
  <2>1. files' # files
    BY <1>2
  <2>2. ~Build
    BY <1>2 DEF Inv, TypeInv, Bounds, Build, FileOption, DirOption, DirReturns, BadOption, Built,
                Put
  <2>3. PICK t \in Threads : Change(t)
    BY <1>2, <2>1, <2>2
    DEF Next, Done, AddRule, ClearErrors, vars, treeVars, Step, BeginRefused, BeginSimulated,
        BeginDirect, Begin, LookUp, ReadFields, List, Copy, AddMark, Opened, ReadAll,
        CloseFile, Return, Unchanged
  <2>4. Moved(t) /\ pc[t] \in {"lock", "moving"}
    BY <1>2, <2>3, ChangesMove
  <2>5. PassedUnmarked(t)
    BY <1>2 DEF MarksInv
  <2> QED
    BY <2>4, <2>5 DEF PassedUnmarked
<1>3. ASSUME Inv, MarksInv, [Next]_vars
      PROVE  [\A p \in Tree!Paths :
                Mark(p) \in rules /\ ~Tree!Exists(files, p) /\ Tree!Exists(files', p) =>
                  \E t \in Threads :
                    /\ Moved(t)
                    /\ Op(t) \in Direct \/ Path(t) # p \/ Mark(p) \notin checked[t]]_vars
  BY <1>2, <1>3
<1> QED
  BY <1>1, <1>3, NextMarks, InvHolds, PTL DEF Spec, MarkedStaysGone
=============================================================================
