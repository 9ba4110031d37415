--------------------------- MODULE LatencyProofs ---------------------------
(***************************************************************************)
(* Proofs about the latency simulator, for any number of goroutines,       *)
(* simulators, operations and calls, and any durations.                    *)
(***************************************************************************)
EXTENDS Latency, FiniteSetTheorems, TLAPS

LatencySpec == LatencyInit /\ [][LatencyNext]_latencyVars

Calls == [at : {"idle", "once", "wait", "hold", "sleep", "reset"}, sim : Simulators,
          op : Operations, once : BOOLEAN, async : BOOLEAN, closing : BOOLEAN]

Counts == [Simulators -> [Operations -> Nat]]

LatencyTypeOK ==
  /\ durations \in [Operations -> Nat]
  /\ clones \subseteq Simulators
  /\ flags \in [Simulators -> [Operations -> BOOLEAN]]
  /\ ticket \in [Simulators -> BOOLEAN]
  /\ doing \in [Sleepers -> Calls]
  /\ slept \in Counts /\ skipped \in Counts /\ cleared \in Counts

\* A call is in a simulator that exists, and races for a sleep only if there is
\* one.
CallsInOrder ==
  /\ FirstSimulator \in clones
  /\ \A g \in Sleepers : /\ Sim(g) \in clones
                         /\ Where(g) = "once" => Duration(doing[g].op) # 0

Holds(g, s) == Where(g) = "hold" /\ Sim(g) = s

\* The ticket is in the channel or with one goroutine.
TicketInv == \A s \in Simulators :
  /\ ticket[s] <=> \A g \in Sleepers : ~Holds(g, s)
  /\ \A g, h \in Sleepers : Holds(g, s) /\ Holds(h, s) => g = h

\* OnceAccounting of one operation in one simulator.
Account(s, op) ==
  /\ slept[s][op] = cleared[s][op] + IF flags[s][op] THEN 1 ELSE 0
  /\ skipped[s][op] > 0 => slept[s][op] > 0
  /\ Duration(op) = 0 => slept[s][op] = 0

\* A simulator that is not made yet has not been used.
Unused(s, op) == slept[s][op] = 0 /\ skipped[s][op] = 0 /\ cleared[s][op] = 0

BooksInv ==
  /\ \A s \in Simulators, op \in Operations : Account(s, op)
  /\ \A s \in Simulators \ clones, op \in Operations : Unused(s, op)

LatencyInv == LatencyTypeOK /\ CallsInOrder /\ TicketInv /\ BooksInv

\* The numbers of the operations.
LEMMA OperationNumbers ==
  /\ OpUnknown \in Operations /\ OpClose \in Operations
  /\ NumOperations \in Nat
  /\ \A op \in Nat : Normalized(op) \in Operations
BY LatencyAssumption DEF OpUnknown, Operations, Normalized, IsValid

\* Everything is in order when the first simulator is made.
LEMMA InitLatencyInv == LatencyInit => LatencyInv
<1> SUFFICES ASSUME LatencyInit PROVE LatencyInv
  OBVIOUS
<1>1. LatencyTypeOK
  BY LatencyAssumption, OperationNumbers DEF LatencyInit, LatencyTypeOK, NoSim, Calls, Counts
<1>2. CallsInOrder
  BY DEF LatencyInit, CallsInOrder, NoSim, Sim, Where
<1>3. TicketInv
  BY DEF LatencyInit, TicketInv, Holds, NoSim, Where
<1>4. BooksInv
  BY DEF LatencyInit, BooksInv, Account, Unused
<1> QED
  BY <1>1, <1>2, <1>3, <1>4 DEF LatencyInv

\* What one goroutine does next is in order when it is so for that goroutine.
LEMMA OneMoves ==
  ASSUME LatencyTypeOK, CallsInOrder, NEW g \in Sleepers, NEW x \in Calls,
         doing' = [doing EXCEPT ![g] = x], x.sim \in clones,
         x.at = "once" => Duration(x.op) # 0,
         UNCHANGED <<durations, clones>>
  PROVE  doing' \in [Sleepers -> Calls] /\ CallsInOrder'
<1>1. doing' \in [Sleepers -> Calls]
  BY DEF LatencyTypeOK
<1>2. \A h \in Sleepers : doing'[h] = IF h = g THEN x ELSE doing[h]
  BY DEF LatencyTypeOK
<1>3. CallsInOrder'
  BY <1>2 DEF CallsInOrder, Sim, Where, Duration
<1> QED
  BY <1>1, <1>3

\* The ticket stays where it is in a step that has nothing to do with it.
LEMMA TicketKept ==
  ASSUME LatencyTypeOK, TicketInv, NEW g \in Sleepers, NEW x,
         doing' = [doing EXCEPT ![g] = x], x.at # "hold", Where(g) # "hold",
         UNCHANGED ticket
  PROVE  TicketInv'
<1>1. \A h \in Sleepers : doing'[h] = IF h = g THEN x ELSE doing[h]
  BY DEF LatencyTypeOK
<1>2. \A h \in Sleepers, s \in Simulators : Holds(h, s)' <=> Holds(h, s)
  BY <1>1 DEF Holds, Where, Sim
<1> QED
  BY <1>2 DEF TicketInv

\* The books stay in a step that writes nothing into them.
LEMMA BooksKept ==
  ASSUME BooksInv, UNCHANGED <<durations, flags, slept, skipped, cleared, clones>>
  PROVE  BooksInv'
BY DEF BooksInv, Account, Unused, Duration

\* A call is over, or goes on to Reset.
LEMMA AfterType ==
  ASSUME LatencyTypeOK, CallsInOrder, NEW s \in Calls, s.sim \in clones
  PROVE  /\ After(s) \in Calls /\ After(s).sim \in clones
         /\ After(s).at \in {"idle", "reset"}
<1>1. NoSim \in Calls /\ NoSim.sim \in clones /\ NoSim.at = "idle"
  BY LatencyAssumption, OperationNumbers DEF NoSim, Calls, CallsInOrder
<1>2. [s EXCEPT !.at = "reset", !.op = OpUnknown] \in Calls
  BY OperationNumbers DEF Calls
<1> QED
  BY <1>1, <1>2 DEF After, Calls

\* The start of a call.
LEMMA CallKeeps ==
  ASSUME LatencyInv, NEW g \in Sleepers, NEW s \in clones, NEW op \in Nat,
         NEW once \in BOOLEAN, NEW async \in BOOLEAN, NEW closing \in BOOLEAN,
         CallSimulate(g, s, op, once, async, closing)
  PROVE  LatencyInv'
<1> DEFINE c == [at |-> "sleep", sim |-> s, op |-> Normalized(op), once |-> once,
                 async |-> async, closing |-> closing]
           x == CASE Duration(c.op) = 0                     -> After(c)
                  [] Duration(c.op) # 0 /\ once             -> [c EXCEPT !.at = "once"]
                  [] Duration(c.op) # 0 /\ ~once /\ ~async  -> [c EXCEPT !.at = "wait"]
                  [] Duration(c.op) # 0 /\ ~once /\ async   -> c
<1>1. LatencyTypeOK /\ CallsInOrder /\ TicketInv /\ BooksInv
  BY DEF LatencyInv
<1>2. /\ doing' = [doing EXCEPT ![g] = x] /\ Where(g) = "idle"
      /\ UNCHANGED <<durations, clones, flags, ticket, slept, skipped, cleared>>
  BY DEF CallSimulate
<1>3. c \in Calls /\ c.sim \in clones
  BY <1>1, OperationNumbers DEF LatencyTypeOK, Calls
<1>4. /\ x \in Calls /\ x.sim \in clones /\ x.at # "hold"
      /\ x.at = "once" => Duration(x.op) # 0
  <2>1. /\ After(c) \in Calls /\ After(c).sim \in clones
        /\ After(c).at \in {"idle", "reset"}
    BY <1>1, <1>3, AfterType
  <2>2. /\ [c EXCEPT !.at = "once"] \in Calls /\ [c EXCEPT !.at = "wait"] \in Calls
    BY <1>3 DEF Calls
  <2>3. CASE Duration(c.op) = 0
    BY <2>1, <2>3
  <2>4. CASE Duration(c.op) # 0
    BY <1>3, <2>2, <2>4
  <2> QED
    BY <2>3, <2>4
<1> HIDE DEF x, c
<1>5. doing' \in [Sleepers -> Calls] /\ CallsInOrder'
  BY <1>1, <1>2, <1>4, OneMoves
<1>6. TicketInv'
  BY <1>1, <1>2, <1>4, TicketKept
<1>7. BooksInv'
  BY <1>1, <1>2, BooksKept
<1> QED
  BY <1>1, <1>2, <1>5, <1>6, <1>7 DEF LatencyInv, LatencyTypeOK

\* The race of Once: the winner is counted with the flag that it sets.
LEMMA RaceKeeps ==
  ASSUME LatencyInv, NEW g \in Sleepers, CompareAndSwap(g)
  PROVE  LatencyInv'
<1>1. LatencyTypeOK /\ CallsInOrder /\ TicketInv /\ BooksInv
  BY DEF LatencyInv
<1>2. PICK s \in Simulators, op \in Operations :
        /\ s = Sim(g) /\ op = doing[g].op /\ s \in clones
        /\ doing[g] \in Calls /\ Duration(op) # 0 /\ Where(g) = "once"
  BY <1>1 DEF LatencyTypeOK, CallsInOrder, CompareAndSwap, Sim, Calls
<1>3. /\ flags' = [flags EXCEPT ![s][op] = TRUE]
      /\ UNCHANGED <<durations, clones, ticket, cleared>>
      /\ IF flags[s][op]
           THEN skipped' = [skipped EXCEPT ![s][op] = @ + 1] /\ slept' = slept
           ELSE slept' = [slept EXCEPT ![s][op] = @ + 1] /\ skipped' = skipped
  BY <1>2 DEF CompareAndSwap
<1>4. PICK x \in Calls : /\ doing' = [doing EXCEPT ![g] = x] /\ x.sim \in clones
                         /\ x.at \notin {"hold", "once"}
  <2>1. CASE flags[s][op]
    <3>1. doing' = [doing EXCEPT ![g] = After(doing[g])]
      BY <1>2, <2>1 DEF CompareAndSwap, Finish
    <3> QED
      BY <1>1, <1>2, <3>1, AfterType DEF Sim
  <2>2. CASE ~flags[s][op]
    <3>1. PICK l \in {"sleep", "wait"} : doing' = [doing EXCEPT ![g].at = l]
      BY <1>2, <2>2 DEF CompareAndSwap, Move
    <3>2. [doing[g] EXCEPT !.at = l] \in Calls
      BY <1>2 DEF Calls
    <3> QED
      BY <1>1, <1>2, <3>1, <3>2 DEF Sim, Calls, LatencyTypeOK
  <2> QED
    BY <2>1, <2>2
<1>5. doing' \in [Sleepers -> Calls] /\ CallsInOrder' /\ TicketInv'
  BY <1>1, <1>2, <1>3, <1>4, OneMoves, TicketKept
<1>6. /\ flags' \in [Simulators -> [Operations -> BOOLEAN]]
      /\ slept' \in Counts /\ skipped' \in Counts
  <2>1. \A c \in Counts : [c EXCEPT ![s][op] = @ + 1] \in Counts
    BY DEF Counts
  <2>2. flags' \in [Simulators -> [Operations -> BOOLEAN]]
    BY <1>1, <1>3 DEF LatencyTypeOK
  <2> QED
    BY <1>1, <1>3, <2>1, <2>2 DEF LatencyTypeOK
<1>7. ASSUME NEW r \in Simulators, NEW o \in Operations, ~(r = s /\ o = op)
      PROVE  /\ flags'[r][o] = flags[r][o] /\ slept'[r][o] = slept[r][o]
             /\ skipped'[r][o] = skipped[r][o]
  <2>1. \A c \in Counts : [c EXCEPT ![s][op] = @ + 1][r][o] = c[r][o]
    BY <1>7 DEF Counts
  <2>2. flags'[r][o] = flags[r][o]
    BY <1>3, <1>7, <1>1 DEF LatencyTypeOK
  <2> QED
    BY <1>1, <1>3, <2>1, <2>2 DEF LatencyTypeOK
<1>8. Account(s, op)'
  <2>1. flags'[s][op] = TRUE
    BY <1>1, <1>3 DEF LatencyTypeOK
  <2>2. /\ slept[s][op] \in Nat /\ cleared[s][op] \in Nat /\ skipped[s][op] \in Nat
        /\ Account(s, op)
    BY <1>1 DEF LatencyTypeOK, Counts, BooksInv
  <2>3. \A c \in Counts : [c EXCEPT ![s][op] = @ + 1][s][op] = c[s][op] + 1
    BY DEF Counts
  <2>4. slept'[s][op] = cleared[s][op] + 1
    BY <1>1, <1>3, <2>2, <2>3 DEF LatencyTypeOK, Account
  <2>5. durations' = durations /\ cleared' = cleared /\ slept'[s][op] > 0
    BY <1>3, <2>2, <2>4
  <2> QED
    BY <1>2, <2>1, <2>4, <2>5 DEF Account, Duration
<1>9. BooksInv'
  <2>1. ASSUME NEW r \in Simulators, NEW o \in Operations PROVE Account(r, o)'
    <3>1. CASE r = s /\ o = op
      BY <1>8, <3>1
    <3>2. CASE ~(r = s /\ o = op)
      <4>1. /\ flags'[r][o] = flags[r][o] /\ slept'[r][o] = slept[r][o]
            /\ skipped'[r][o] = skipped[r][o]
        BY <1>7, <3>2
      <4>2. Account(r, o)
        BY <1>1 DEF BooksInv
      <4> QED
        BY <1>3, <4>1, <4>2 DEF Account, Duration
    <3> QED
      BY <3>1, <3>2
  <2>2. ASSUME NEW r \in Simulators \ clones, NEW o \in Operations PROVE Unused(r, o)'
    <3>1. slept'[r][o] = slept[r][o] /\ skipped'[r][o] = skipped[r][o]
      BY <1>2, <1>7
    <3>2. Unused(r, o)
      BY <1>1 DEF BooksInv
    <3> QED
      BY <1>3, <3>1, <3>2 DEF Unused
  <2> QED
    BY <1>3, <2>1, <2>2 DEF BooksInv
<1> QED
  BY <1>1, <1>3, <1>5, <1>6, <1>9 DEF LatencyInv, LatencyTypeOK

\* The steps that take the ticket out of the channel and put it back.
LEMMA TicketKeeps ==
  ASSUME LatencyInv, NEW g \in Sleepers, TakeTicket(g) \/ GiveTicket(g)
  PROVE  LatencyInv'
<1>1. LatencyTypeOK /\ CallsInOrder /\ TicketInv /\ BooksInv
  BY DEF LatencyInv
<1>2. PICK s \in Simulators : s = Sim(g) /\ s \in clones /\ doing[g] \in Calls
  BY <1>1 DEF LatencyTypeOK, CallsInOrder
<1>3. /\ UNCHANGED <<durations, clones, flags, slept, skipped, cleared>>
      /\ ticket' \in [Simulators -> BOOLEAN]
  BY <1>1 DEF TakeTicket, GiveTicket, LatencyTypeOK
<1>4. BooksInv'
  BY <1>1, <1>3, BooksKept
<1>5. CASE TakeTicket(g)
  <2> DEFINE x == [doing[g] EXCEPT !.at = "hold"]
  <2>1. doing' = [doing EXCEPT ![g] = x] /\ x \in Calls /\ x.at = "hold" /\ x.sim = s
    BY <1>1, <1>2, <1>5 DEF TakeTicket, Move, Calls, LatencyTypeOK, Sim
  <2> HIDE DEF x
  <2>2. doing' \in [Sleepers -> Calls] /\ CallsInOrder'
    BY <1>1, <1>2, <1>3, <2>1, OneMoves
  <2>3. Where(g) = "wait" /\ ticket[s] /\ ticket' = [ticket EXCEPT ![s] = FALSE]
    BY <1>2, <1>5 DEF TakeTicket
  <2>4. \A h \in Sleepers, r \in Simulators :
          Holds(h, r)' <=> Holds(h, r) \/ (h = g /\ r = s)
    BY <1>1, <1>2, <2>1, <2>3 DEF Holds, Where, Sim, LatencyTypeOK
  <2>5. \A r \in Simulators : ticket'[r] <=> ticket[r] /\ r # s
    BY <1>1, <2>3 DEF LatencyTypeOK
  <2>6. TicketInv'
    BY <1>1, <2>3, <2>4, <2>5 DEF TicketInv
  <2> QED
    BY <1>1, <1>3, <1>4, <2>2, <2>6 DEF LatencyInv, LatencyTypeOK
<1>6. CASE GiveTicket(g)
  <2>1. doing' = [doing EXCEPT ![g] = After(doing[g])]
    BY <1>6 DEF GiveTicket, Finish
  <2>2. /\ After(doing[g]) \in Calls /\ After(doing[g]).sim \in clones
        /\ After(doing[g]).at \in {"idle", "reset"}
    BY <1>1, <1>2, AfterType DEF Sim
  <2>3. doing' \in [Sleepers -> Calls] /\ CallsInOrder'
    BY <1>1, <1>3, <2>1, <2>2, OneMoves
  <2>4. Holds(g, s) /\ ticket' = [ticket EXCEPT ![s] = TRUE]
    BY <1>2, <1>6 DEF GiveTicket, Holds
  <2>5. \A h \in Sleepers, r \in Simulators : Holds(h, r)' <=> Holds(h, r) /\ h # g
    BY <1>1, <2>1, <2>2 DEF Holds, Where, Sim, LatencyTypeOK
  <2>6. \A r \in Simulators : ticket'[r] <=> ticket[r] \/ r = s
    BY <1>1, <2>4 DEF LatencyTypeOK
  <2>7. \A r \in Simulators : r # s => ~Holds(g, r)
    BY <2>4 DEF Holds
  <2>8. TicketInv'
    BY <1>1, <2>4, <2>5, <2>6, <2>7 DEF TicketInv
  <2> QED
    BY <1>1, <1>3, <1>4, <2>3, <2>8 DEF LatencyInv, LatencyTypeOK
<1> QED
  BY <1>5, <1>6

\* A sleep without the ticket ends, or Reset starts.
LEMMA AwakeKeeps ==
  ASSUME LatencyInv, NEW g \in Sleepers, Awake(g) \/ Reset(g)
  PROVE  LatencyInv'
<1>1. LatencyTypeOK /\ CallsInOrder /\ TicketInv /\ BooksInv
  BY DEF LatencyInv
<1>2. doing[g] \in Calls /\ Sim(g) \in clones /\ Where(g) # "hold"
  BY <1>1 DEF LatencyTypeOK, CallsInOrder, Awake, Reset
<1>3. UNCHANGED <<durations, clones, flags, ticket, slept, skipped, cleared>>
  BY DEF Awake, Reset
<1>4. PICK x \in Calls : /\ doing' = [doing EXCEPT ![g] = x] /\ x.sim \in clones
                         /\ x.at \in {"idle", "reset"}
  <2>1. CASE Awake(g)
    BY <1>1, <1>2, <2>1, AfterType DEF Awake, Finish, Sim
  <2>2. CASE Reset(g)
    <3>1. PICK s \in clones : doing' = [doing EXCEPT ![g] =
                                [NoSim EXCEPT !.at = "reset", !.sim = s]]
      BY <2>2 DEF Reset
    <3>2. [NoSim EXCEPT !.at = "reset", !.sim = s] \in Calls
      BY <1>1, LatencyAssumption, OperationNumbers DEF NoSim, Calls, LatencyTypeOK
    <3> QED
      BY <3>1, <3>2 DEF NoSim
  <2> QED
    BY <2>1, <2>2
<1>5. doing' \in [Sleepers -> Calls] /\ CallsInOrder' /\ TicketInv'
  BY <1>1, <1>2, <1>3, <1>4, OneMoves, TicketKept
<1>6. BooksInv'
  BY <1>1, <1>3, BooksKept
<1> QED
  BY <1>1, <1>3, <1>5, <1>6 DEF LatencyInv, LatencyTypeOK

\* One iteration of Reset counts the flag that it clears.
LEMMA ClearKeeps ==
  ASSUME LatencyInv, NEW g \in Sleepers, ClearFlag(g)
  PROVE  LatencyInv'
<1>1. LatencyTypeOK /\ CallsInOrder /\ TicketInv /\ BooksInv
  BY DEF LatencyInv
<1>2. PICK s \in Simulators, op \in Operations :
        s = Sim(g) /\ op = doing[g].op /\ s \in clones /\ doing[g] \in Calls
  BY <1>1 DEF LatencyTypeOK, CallsInOrder, Sim, Calls
<1>3. /\ flags' = [flags EXCEPT ![s][op] = FALSE]
      /\ cleared' = [cleared EXCEPT ![s][op] = @ + IF flags[s][op] THEN 1 ELSE 0]
      /\ UNCHANGED <<durations, clones, ticket, slept, skipped>> /\ Where(g) = "reset"
  BY <1>2 DEF ClearFlag
<1>4. PICK x \in Calls : /\ doing' = [doing EXCEPT ![g] = x] /\ x.sim \in clones
                         /\ x.at \in {"idle", "reset"}
  <2>1. CASE op + 1 \in Operations
    <3>1. doing' = [doing EXCEPT ![g] = [doing[g] EXCEPT !.op = op + 1]]
      BY <1>1, <1>2, <2>1 DEF ClearFlag, LatencyTypeOK
    <3>2. [doing[g] EXCEPT !.op = op + 1] \in Calls
      BY <1>2, <2>1 DEF Calls
    <3> QED
      BY <1>2, <1>3, <3>1, <3>2 DEF Sim, Where, Calls
  <2>2. CASE op + 1 \notin Operations
    <3>1. doing' = [doing EXCEPT ![g] = NoSim]
      BY <1>2, <2>2 DEF ClearFlag
    <3>2. NoSim \in Calls /\ NoSim.sim \in clones /\ NoSim.at = "idle"
      BY <1>1, LatencyAssumption, OperationNumbers DEF NoSim, Calls, CallsInOrder
    <3> QED
      BY <3>1, <3>2
  <2> QED
    BY <2>1, <2>2
<1>5. doing' \in [Sleepers -> Calls] /\ CallsInOrder' /\ TicketInv'
  BY <1>1, <1>3, <1>4, OneMoves, TicketKept
<1>6. /\ flags' \in [Simulators -> [Operations -> BOOLEAN]]
      /\ cleared' \in Counts
  BY <1>1, <1>3 DEF LatencyTypeOK, Counts
<1>7. ASSUME NEW r \in Simulators, NEW o \in Operations, ~(r = s /\ o = op)
      PROVE  flags'[r][o] = flags[r][o] /\ cleared'[r][o] = cleared[r][o]
  BY <1>1, <1>3, <1>7 DEF LatencyTypeOK, Counts
<1>8. Account(s, op)'
  <2>1. /\ flags'[s][op] = FALSE
        /\ cleared'[s][op] = cleared[s][op] + IF flags[s][op] THEN 1 ELSE 0
    BY <1>1, <1>3 DEF LatencyTypeOK, Counts
  <2>2. /\ slept[s][op] \in Nat /\ cleared[s][op] \in Nat /\ Account(s, op)
    BY <1>1 DEF LatencyTypeOK, Counts, BooksInv
  <2> QED
    BY <1>3, <2>1, <2>2 DEF Account, Duration
<1>9. BooksInv'
  <2>1. ASSUME NEW r \in Simulators, NEW o \in Operations PROVE Account(r, o)'
    <3>1. CASE r = s /\ o = op
      BY <1>8, <3>1
    <3>2. CASE ~(r = s /\ o = op)
      BY <1>1, <1>3, <1>7, <3>2 DEF BooksInv, Account, Duration
    <3> QED
      BY <3>1, <3>2
  <2>2. ASSUME NEW r \in Simulators \ clones, NEW o \in Operations PROVE Unused(r, o)'
    BY <1>1, <1>2, <1>3, <1>7, <2>2 DEF BooksInv, Unused
  <2> QED
    BY <1>3, <2>1, <2>2 DEF BooksInv
<1> QED
  BY <1>1, <1>3, <1>5, <1>6, <1>9 DEF LatencyInv, LatencyTypeOK

\* A clone is a simulator that nobody has used.
LEMMA CloneKeeps ==
  ASSUME LatencyInv, Clone
  PROVE  LatencyInv'
<1>1. LatencyTypeOK /\ CallsInOrder /\ TicketInv /\ BooksInv
  BY DEF LatencyInv
<1>2. PICK s \in Simulators \ clones :
        /\ clones' = clones \cup {s}
        /\ flags' = [flags EXCEPT ![s] = [op \in Operations |-> FALSE]]
        /\ ticket' = [ticket EXCEPT ![s] = TRUE]
        /\ UNCHANGED <<durations, doing, sims, slept, skipped, cleared>>
  BY DEF Clone
<1>3. LatencyTypeOK'
  BY <1>1, <1>2 DEF LatencyTypeOK
<1>4. CallsInOrder'
  BY <1>1, <1>2 DEF CallsInOrder, Sim, Where, Duration
<1>5. TicketInv'
  <2>1. \A g \in Sleepers : ~Holds(g, s)
    BY <1>1, <1>2 DEF CallsInOrder, Holds
  <2>2. \A r \in Simulators : ticket'[r] = IF r = s THEN TRUE ELSE ticket[r]
    BY <1>1, <1>2 DEF LatencyTypeOK
  <2>3. \A g \in Sleepers, r \in Simulators : Holds(g, r)' <=> Holds(g, r)
    BY <1>2 DEF Holds, Where, Sim
  <2> QED
    BY <1>1, <2>1, <2>2, <2>3 DEF TicketInv
<1>6. BooksInv'
  <2>1. \A r \in Simulators, o \in Operations :
          flags'[r][o] = IF r = s THEN FALSE ELSE flags[r][o]
    BY <1>1, <1>2 DEF LatencyTypeOK
  <2>2. \A o \in Operations : Account(s, o)'
    BY <1>1, <1>2, <2>1 DEF BooksInv, Unused, Account
  <2>3. \A r \in Simulators \ {s}, o \in Operations : Account(r, o)'
    BY <1>1, <1>2, <2>1 DEF BooksInv, Account, Duration
  <2>4. \A r \in Simulators \ clones', o \in Operations : Unused(r, o)'
    BY <1>1, <1>2 DEF BooksInv, Unused
  <2> QED
    BY <2>2, <2>3, <2>4 DEF BooksInv
<1> QED
  BY <1>3, <1>4, <1>5, <1>6 DEF LatencyInv

\* Every step leaves the tickets and the books in order.
LEMMA NextLatencyInv == LatencyInv /\ [LatencyNext]_latencyVars => LatencyInv'
<1> SUFFICES ASSUME LatencyInv, [LatencyNext]_latencyVars PROVE LatencyInv'
  OBVIOUS
<1>1. CASE UNCHANGED latencyVars
  BY <1>1 DEF latencyVars, LatencyInv, LatencyTypeOK, CallsInOrder, TicketInv, Holds,
              BooksInv, Account, Unused, Duration, Where, Sim
<1>2. ASSUME NEW g \in Sleepers, Simulate(g) \/ Close(g) PROVE LatencyInv'
  <2>1. 0 .. NumOperations \subseteq Nat /\ OpClose \in Nat
    BY LatencyAssumption
  <2> QED
    BY <1>2, <2>1, CallKeeps DEF Simulate, Close
<1>3. ASSUME NEW g \in Sleepers, Reset(g) \/ Continue(g) PROVE LatencyInv'
  BY <1>3, RaceKeeps, TicketKeeps, AwakeKeeps, ClearKeeps DEF Continue
<1>4. CASE Clone
  BY <1>4, CloneKeeps
<1> QED
  BY <1>1, <1>2, <1>3, <1>4 DEF LatencyNext

\* Without Async, at most one goroutine sleeps in a simulator at a time.
THEOREM NobodySleepsTogether == LatencySpec => []OneSleeper
<1>1. LatencyInv => OneSleeper
  <2> SUFFICES ASSUME LatencyInv, NEW s \in clones
               PROVE  Cardinality({g \in Sleepers : Holds(g, s)})
                        = IF ticket[s] THEN 0 ELSE 1
    BY DEF OneSleeper, Holds
  <2>1. s \in Simulators /\ TicketInv /\ ticket[s] \in BOOLEAN
    BY DEF LatencyInv, LatencyTypeOK
  <2>2. CASE ticket[s]
    <3>1. {g \in Sleepers : Holds(g, s)} = {}
      BY <2>1, <2>2 DEF TicketInv
    <3> QED
      BY <2>2, <3>1, FS_EmptySet
  <2>3. CASE ~ticket[s]
    <3>1. PICK h \in Sleepers : Holds(h, s)
      BY <2>1, <2>3 DEF TicketInv
    <3>2. {g \in Sleepers : Holds(g, s)} = {h}
      BY <2>1, <3>1 DEF TicketInv
    <3> QED
      BY <2>3, <3>2, FS_Singleton
  <2> QED
    BY <2>2, <2>3
<1> QED
  BY <1>1, InitLatencyInv, NextLatencyInv, PTL DEF LatencySpec

\* Of the calls of Once that race for an operation one sleeps, and one more for
\* each time that Reset, beside them or not, has found the flag set.
THEOREM OnceSleepsOnce == LatencySpec => []OnceAccounting
<1>1. LatencyInv => OnceAccounting
  BY DEF LatencyInv, LatencyTypeOK, BooksInv, Account, OnceAccounting
<1> QED
  BY <1>1, InitLatencyInv, NextLatencyInv, PTL DEF LatencySpec
=============================================================================
