-------------------------- MODULE MCErrorInjector --------------------------
(* Instances of ErrorInjector for TLC.                                     *)
EXTENDS ErrorInjector, TLC

CONSTANTS df, f  \* "d/f", and "f" for the sub file system of "d"

Args(mode, after, match) == [mode |-> mode, after |-> after, match |-> match]

MCInParent == [x \in Paths |-> IF x = f THEN df ELSE NoPath]

\* One rule of every mode, and arguments that are refused.
MCRuleArgs == {Args("Always", 0, {f}), Args("Once", 0, {df, f}),
               Args("AfterSuccesses", 1, {df, f}), Args("Next", 1, {df}),
               Args("Next", -1, {df}), Args("Never", 0, {df})}

Symmetric == Permutations(Threads)

\* A counting rule and rules that fail calls in its place.
DocRuleArgs == {Args("AfterSuccesses", 1, {df}), Args("Once", 0, {df})}
=============================================================================
