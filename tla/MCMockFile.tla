----------------------------- MODULE MCMockFile -----------------------------
(***************************************************************************)
(* MockFile for TLC: the calls that the threads make.                      *)
(***************************************************************************)
EXTENDS MockFile, TLC

Start12 == <<1, 2>>

\* For every operation, arguments on both sides of a boundary.
AllCalls ==
  [op : {"Read"}, len : {1}]
  \cup [op : {"ReadAt"}, len : {2}, off : {1}]
  \cup [op : {"Write"}, b : {<<1>>}]
  \cup [op : {"WriteAt"}, b : {<<1>>}, off : {-1, 3, MaxInt}]
  \cup [op : {"Seek"}, off : {MaxInt}, whence : {"current"}]
  \cup [op : {"Seek"}, off : {1, MaxInt}, whence : {"end"}]
  \cup [op : {"ReadDir"}, n : {0, 1}]
  \cup [op : {"Stat", "Close"}]

\* Files in every mode, and a directory as NewMockDir opens it.
AllKinds == [dir : {FALSE}, mode : WriteModes] \cup [dir : {TRUE}, mode : {"readOnly"}]

AppendedFile == {[dir |-> FALSE, mode |-> "append"]}
Directory    == {[dir |-> TRUE, mode |-> "readOnly"]}

Appends == [op : {"Write"}, b : {<<1>>, <<2>>}]

Listings == [op : {"ReadDir"}, n : {-1, 1, MaxInt}]

Symmetric == Permutations(Threads)
=============================================================================
