----------------------------- MODULE MCCounters -----------------------------
(***************************************************************************)
(* ErrorInjector and Stats for TLC: what concurrent calls count.  The two  *)
(* share nothing, so a behaviour is one of either: their interleavings     *)
(* would show nothing new.                                                 *)
(***************************************************************************)
EXTENDS MCErrorInjector, Stats

VARIABLE subject  \* "errors" or "stats"

CountersInit == Init /\ StatsInit /\ subject \in {"errors", "stats"}

CountersNext ==
  /\ \/ subject = "errors" /\ Next /\ UNCHANGED statsVars
     \/ subject = "stats" /\ StatsNext /\ UNCHANGED vars
  /\ UNCHANGED subject

CountersSpec == CountersInit /\ [][CountersNext]_<<vars, statsVars, subject>>
=============================================================================
