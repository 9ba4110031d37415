------------------------------ MODULE MCMockFS ------------------------------
(***************************************************************************)
(* MockFS for TLC: the calls that the goroutines make and the rules.       *)
(***************************************************************************)
EXTENDS MockFS, TLC

CONSTANTS a, b

A  == <<a>>
B  == <<b>>
AB == <<a, b>>

Request(op, p) == [op |-> op, path |-> p, to |-> Here, size |-> 0]

\* The paths are a directory and an entry in it: what one call looks at, another
\* one removes, moves, replaces or changes.  AddDir and RemoveEntry are left out: they
\* are MkdirAll and RemoveAll without their checks for errors.
AllCalls ==
  {Request(op, A)  : op \in {"ReadDir", "Sub", "Open", "RemoveAll"}}
  \cup {Request(op, AB) : op \in {"Stat", "ReadFile", "Mkdir", "MkdirAll", "Remove",
                                  "MarkNonExistent"}}
  \cup {Request("ReadFile", BadPath)}
  \cup {[Request("Write", AB) EXCEPT !.size = 1], [Request("AddFile", AB) EXCEPT !.size = 1]}
  \cup {[Request("Rename", A) EXCEPT !.to = B], [Request("Rename", AB) EXCEPT !.to = A]}

AllRules ==
  {[op |-> "any", match |-> Wildcard, always |-> FALSE, err |-> "injected"],
   [op |-> "Close", match |-> Exact(AB), always |-> TRUE, err |-> "injected"]}

\* Three calls after two options, one after more or fewer.
CallBound == [n \in 0 .. MaxOptions |-> IF n = 2 THEN 3 ELSE 1]

Symmetric == Permutations(Threads)
=============================================================================
