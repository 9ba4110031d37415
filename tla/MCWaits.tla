------------------------------ MODULE MCWaits ------------------------------
(***************************************************************************)
(* Latency, and the mutex of an ErrorInjector, for TLC: what goroutines    *)
(* wait for.  The two share nothing, so a behaviour is one of either.      *)
(***************************************************************************)
EXTENDS Latency

VARIABLE subject  \* "latency" or "injector"

\* One duration for all operations, and one for Close only.
Global   == [op \in Operations |-> IF op = OpUnknown THEN 1 ELSE 0]
PerClose == [op \in Operations |-> IF op = OpClose THEN 1 ELSE 0]
MCDurations == {Global, PerClose}

VARIABLES
  made, rules, usedOnce, hits, configs, live, readers, writer, pc, req, at, got,
  checks, writes, returned, passed, shared

injectorVars == <<made, rules, usedOnce, hits, configs, live, readers, writer, pc, req, at,
                  got, checks, writes, returned, passed, shared>>

\* A counting rule and one that fails a call in its place.
InjectorRuleArgs ==
  {[mode |-> "AfterSuccesses", after |-> 1, match |-> {"df"}],
   [mode |-> "Once", after |-> 0, match |-> {"df"}]}

\* Three goroutines, one injector, one operation and one path, "d/f".
Injector == INSTANCE ErrorInjector WITH
  Threads <- {"t1", "t2", "t3"}, NoThread <- "none",
  Injectors <- {"root"}, First <- "root",
  Ops <- {"OpRead"}, OpUnknown <- "OpUnknown",
  Paths <- {"df"}, NoPath <- "none", InParent <- [x \in {"df"} |-> "none"],
  RuleArgs <- InjectorRuleArgs, NoRule <- 0,
  MaxRules <- 1, MaxChecks <- 2, MaxWrites <- 2

Init ==
  /\ LatencyInit /\ Injector!Init
  /\ subject = "latency" \/ (subject = "injector" /\ durations = Global)

Next == /\ \/ subject = "latency"  /\ LatencyNext   /\ UNCHANGED injectorVars
           \/ subject = "injector" /\ Injector!Next /\ UNCHANGED latencyVars
        /\ UNCHANGED subject

Spec == /\ Init /\ [][Next]_<<latencyVars, injectorVars, subject>>
        /\ LatencyFairness /\ Injector!Fairness

\* Every call of the injector returns, whoever else reads or changes its rules.
EveryCallReturns == Injector!EveryCallReturns
=============================================================================
