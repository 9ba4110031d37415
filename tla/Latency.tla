------------------------------ MODULE Latency ------------------------------
(***************************************************************************)
(* latency.go: goroutines that call Simulate, Reset and Clone of latency   *)
(* simulators that they share, also as MockFile.Close does, which resets   *)
(* the simulator of its handle after a simulated OpClose.                  *)
(*                                                                         *)
(* A step is one use of an atomic or of the ticket channel, or the end of  *)
(* a sleep.  How long a sleep is does not matter, only whether there is    *)
(* one.                                                                    *)
(*                                                                         *)
(* A definition called "wrong" in its comment is not part of the model: it *)
(* is the next one with a mistake in it, which some property must notice.  *)
(***************************************************************************)
EXTENDS Integers, FiniteSets

CONSTANTS
  Sleepers,       \* goroutines
  Simulators,     \* simulators that can be made
  FirstSimulator, \* made by a constructor, the others are clones
  NumOperations,  \* operations are numbers below this, OpUnknown is 0
  OpClose,        \* the operation that Close simulates
  DurationArgs,   \* the durations that a constructor is given
  MaxSims         \* bound: calls of Simulate, Close and Reset

Operations == 0 .. NumOperations - 1
OpUnknown  == 0

ASSUME LatencyAssumption ==
  /\ IsFiniteSet(Sleepers)
  /\ FirstSimulator \in Simulators
  /\ NumOperations \in Nat \ {0, 1} /\ OpClose \in 1 .. NumOperations - 1
  /\ DurationArgs \subseteq [Operations -> Nat]
  /\ MaxSims \in Nat

VARIABLES
  durations,  \* latencySimulator.durations, which a clone has too
  clones,     \* the simulators there are
  flags,      \* latencySimulator.seen
  ticket,     \* whether the channel serialize holds its token
  doing,      \* the call of each goroutine and where it is
  sims,       \* calls so far
  slept,      \* history: Once calls that won the sleep of an operation
  skipped,    \* history: Once calls that were told that it is taken
  cleared     \* history: stores of Reset that cleared a flag

latencyVars == <<durations, clones, flags, ticket, doing, sims, slept, skipped, cleared>>

NoSim == [at |-> "idle", sim |-> FirstSimulator, op |-> OpUnknown, once |-> FALSE,
          async |-> FALSE, closing |-> FALSE]

Where(g)   == doing[g].at
Sim(g)     == doing[g].sim
Move(g, l) == doing' = [doing EXCEPT ![g].at = l]

IsValid(op) == op > OpUnknown /\ op < NumOperations

Normalized(op) == IF IsValid(op) THEN op ELSE OpUnknown

\* The operation's own duration, or else that of all operations.
Duration(op) ==
  IF durations[op] = 0 /\ op # OpUnknown THEN durations[OpUnknown] ELSE durations[op]

\* Where a call is when Simulate returns: Close goes on to Reset, which stores
\* into the flag of one operation after the other.
After(s) == IF s.closing THEN [s EXCEPT !.at = "reset", !.op = OpUnknown] ELSE NoSim

Finish(g) == doing' = [doing EXCEPT ![g] = After(@)]

-----------------------------------------------------------------------------

\* Simulate up to its modes: a call without a duration is over.
CallSimulate(g, s, op, once, async, closing) ==
  LET c == [at |-> "sleep", sim |-> s, op |-> Normalized(op), once |-> once,
            async |-> async, closing |-> closing]
  IN /\ Where(g) = "idle" /\ sims < MaxSims
     /\ s \in clones
     /\ doing' = [doing EXCEPT ![g] =
          CASE Duration(c.op) = 0                     -> After(c)
            [] Duration(c.op) # 0 /\ once             -> [c EXCEPT !.at = "once"]
            [] Duration(c.op) # 0 /\ ~once /\ ~async  -> [c EXCEPT !.at = "wait"]
            [] Duration(c.op) # 0 /\ ~once /\ async   -> c]
     /\ sims' = sims + 1
     /\ UNCHANGED <<durations, clones, flags, ticket, slept, skipped, cleared>>

Simulate(g) == \E s \in clones, op \in 0 .. NumOperations, once, async \in BOOLEAN :
  CallSimulate(g, s, op, once, async, FALSE)

Close(g) == \E s \in clones : CallSimulate(g, s, OpClose, FALSE, FALSE, TRUE)

\* Wrong: a load, after which another call may store before this one does.
LoadThenStore(g) ==
  LET s == Sim(g)  op == doing[g].op
  IN /\ Where(g) = "once"
     /\ \E old \in {flags[s][op]} \cup {FALSE : o \in {o \in Sleepers \ {g} :
                      Where(o) \in {"wait", "sleep"} /\ Sim(o) = s /\ doing[o].op = op /\ doing[o].once}} :
          IF old THEN Finish(g) /\ UNCHANGED <<flags, slept>>
                 /\ skipped' = [skipped EXCEPT ![s][op] = @ + 1]
          ELSE /\ flags' = [flags EXCEPT ![s][op] = TRUE]
               /\ slept' = [slept EXCEPT ![s][op] = @ + 1]
               /\ Move(g, IF doing[g].async THEN "sleep" ELSE "wait")
               /\ UNCHANGED skipped
     /\ UNCHANGED <<durations, clones, ticket, sims, cleared>>

\* CompareAndSwap(false, true)
CompareAndSwap(g) ==
  LET s == Sim(g)  op == doing[g].op
  IN /\ Where(g) = "once"
     /\ flags' = [flags EXCEPT ![s][op] = TRUE]
     /\ IF flags[s][op]
          THEN /\ skipped' = [skipped EXCEPT ![s][op] = @ + 1]
               /\ Finish(g) /\ UNCHANGED slept
          ELSE /\ slept' = [slept EXCEPT ![s][op] = @ + 1]
               /\ Move(g, IF doing[g].async THEN "sleep" ELSE "wait") /\ UNCHANGED skipped
     /\ UNCHANGED <<durations, clones, ticket, sims, cleared>>

\* Wrong: the calls of Once do not take turns with the others.
TakeTicketUnlessOnce(g) ==
  /\ Where(g) = "wait" /\ (ticket[Sim(g)] \/ doing[g].once)
  /\ ticket' = [ticket EXCEPT ![Sim(g)] = FALSE]
  /\ Move(g, "hold")
  /\ UNCHANGED <<durations, clones, flags, sims, slept, skipped, cleared>>

\* The sleep starts when the channel has given the ticket.
TakeTicket(g) ==
  /\ Where(g) = "wait" /\ ticket[Sim(g)]
  /\ ticket' = [ticket EXCEPT ![Sim(g)] = FALSE]
  /\ Move(g, "hold")
  /\ UNCHANGED <<durations, clones, flags, sims, slept, skipped, cleared>>

\* Wrong: the winner of Once keeps the ticket.
GiveTicketUnlessOnce(g) ==
  /\ Where(g) = "hold"
  /\ ticket' = [ticket EXCEPT ![Sim(g)] = ~doing[g].once]
  /\ Finish(g)
  /\ UNCHANGED <<durations, clones, flags, sims, slept, skipped, cleared>>

\* After its sleep.  A send waits while the channel is full.
GiveTicket(g) ==
  /\ Where(g) = "hold" /\ ~ticket[Sim(g)]
  /\ ticket' = [ticket EXCEPT ![Sim(g)] = TRUE]
  /\ Finish(g)
  /\ UNCHANGED <<durations, clones, flags, sims, slept, skipped, cleared>>

\* The end of a sleep without the ticket.
Awake(g) ==
  /\ Where(g) = "sleep"
  /\ Finish(g)
  /\ UNCHANGED <<durations, clones, flags, ticket, sims, slept, skipped, cleared>>

Reset(g) == \E s \in clones :
  /\ Where(g) = "idle" /\ sims < MaxSims
  /\ doing' = [doing EXCEPT ![g] = [NoSim EXCEPT !.at = "reset", !.sim = s]]
  /\ sims' = sims + 1
  /\ UNCHANGED <<durations, clones, flags, ticket, slept, skipped, cleared>>

\* One iteration of its loop.
ClearFlag(g) ==
  LET s == Sim(g)  op == doing[g].op
  IN /\ Where(g) = "reset"
     /\ flags' = [flags EXCEPT ![s][op] = FALSE]
     /\ cleared' = [cleared EXCEPT ![s][op] = @ + IF flags[s][op] THEN 1 ELSE 0]
     /\ doing' = [doing EXCEPT ![g] = IF op + 1 \in Operations THEN [@ EXCEPT !.op = op + 1]
                                      ELSE NoSim]
     /\ UNCHANGED <<durations, clones, ticket, sims, slept, skipped>>

\* The durations are those of the original, the rest is new.
Clone == \E s \in Simulators \ clones :
  /\ clones' = clones \cup {s}
  /\ flags' = [flags EXCEPT ![s] = [op \in Operations |-> FALSE]]
  /\ ticket' = [ticket EXCEPT ![s] = TRUE]
  /\ UNCHANGED <<durations, doing, sims, slept, skipped, cleared>>

LatencyInit ==
  /\ durations \in DurationArgs
  /\ clones = {FirstSimulator}
  /\ flags = [s \in Simulators |-> [op \in Operations |-> FALSE]]
  /\ ticket = [s \in Simulators |-> TRUE]
  /\ doing = [g \in Sleepers |-> NoSim]
  /\ sims = 0
  /\ slept = [s \in Simulators |-> [op \in Operations |-> 0]]
  /\ skipped = slept
  /\ cleared = slept

Continue(g) ==
  CompareAndSwap(g) \/ TakeTicket(g) \/ GiveTicket(g) \/ Awake(g) \/ ClearFlag(g)

LatencyNext ==
  \/ \E g \in Sleepers : Simulate(g) \/ Close(g) \/ Reset(g) \/ Continue(g)
  \/ Clone

\* A goroutine in a call goes on, a sleep ends, and who waits for the ticket
\* gets it in turn: a channel serves its receivers first come, first served.
LatencyFairness == \A g \in Sleepers :
  /\ WF_latencyVars(Continue(g))
  /\ SF_latencyVars(TakeTicket(g))

-----------------------------------------------------------------------------
(* Properties *)

\* Of the goroutines that sleep in a simulator without Async at most one does so
\* at a time, of whatever operations and whether Once or not, and the ticket is
\* in the channel just when there is none.
OneSleeper == \A s \in clones :
  Cardinality({g \in Sleepers : Where(g) = "hold" /\ Sim(g) = s}) = IF ticket[s] THEN 0 ELSE 1

\* Once: of the racing calls for one operation one sleeps, and one more for each
\* time that Reset has found the flag set, also when Reset runs beside them as
\* Close lets it.  A call is spared its sleep only if another one won it.
OnceAccounting == \A s \in clones, op \in Operations :
  /\ slept[s][op] = cleared[s][op] + IF flags[s][op] THEN 1 ELSE 0
  /\ skipped[s][op] > 0 => slept[s][op] > 0
  /\ Duration(op) = 0 => slept[s][op] = 0

\* Every Simulate returns, and every Close, however many goroutines there are
\* that sleep in the same simulator.
EverySleepEnds == \A g \in Sleepers : Where(g) # "idle" ~> Where(g) = "idle"
=============================================================================
