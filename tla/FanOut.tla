------------------------------- MODULE FanOut -------------------------------
(***************************************************************************)
(* The errgroup that cliutil.RunConcurrent drives: a loop hands the tasks  *)
(* to the group in index order, the group's limit holds the loop back      *)
(* while that many tasks are in flight, every task writes its own slot of  *)
(* the results, and the first task to return an error cancels the context  *)
(* its peers run under.  Which task does what is the user's business: this *)
(* module is instantiated with the variables of the commands that fan out. *)
(***************************************************************************)
EXTENDS Integers, FiniteSets

CONSTANTS
  Index,           \* the indices tasks are numbered with
  MaxConcurrency   \* the ceiling of --concurrency, 32 in the code

ASSUME IndexAssumption == Index \subseteq Nat /\ IsFiniteSet(Index)
ASSUME CeilingAssumption == MaxConcurrency \in Nat \ {0}

VARIABLES
  pending,   \* indices the loop has not handed to g.Go yet
  running,   \* indices whose task is in flight
  outcome,   \* what each slot of results holds ("nil": never written)
  gctx       \* TRUE once the group's own context is cancelled

-----------------------------------------------------------------------------
\* Mutants of Clamp: only the ceiling is applied, only the floor is.
ClampCeiling(n) == IF n > MaxConcurrency THEN MaxConcurrency ELSE n
ClampFloor(n) == IF n < 1 THEN 1 ELSE n

\* ClampConcurrency: any request is forced into 1 .. MaxConcurrency.
Clamp(n) == IF n < 1 THEN 1 ELSE IF n > MaxConcurrency THEN MaxConcurrency ELSE n

\* i is the next index of the loop.
NextUp(i, todo) == i \in todo /\ \A j \in todo : i =< j

\* SetLimit: the group has a free slot.
HasSlot(requested) == Cardinality(running) < Clamp(requested)

\* g.Go(task i): blocks until the group has a free slot.
Spawn(i, requested) ==
  /\ NextUp(i, pending)
  /\ HasSlot(requested)
  /\ pending' = pending \ {i}
  /\ running' = running \cup {i}
  /\ UNCHANGED <<outcome, gctx>>

\* Mutant of Return: a task that fails does not give its slot of the limit back.
ReturnHoldsSlot(i, o) ==
  /\ i \in running
  /\ running' = IF o = "err" THEN running ELSE running \ {i}
  /\ outcome' = [outcome EXCEPT ![i] = o]
  /\ gctx' = (gctx \/ o = "err")
  /\ UNCHANGED pending

\* Task i returns, in one step: its slot is written, an error cancels the
\* peers, and the slot of the limit is freed.  RunConcurrent has the three
\* apart.  Here nobody but Drained looks at them, and a peer that goes on in
\* between might as well have gone on before.
Return(i, o) ==
  /\ i \in running
  /\ running' = running \ {i}
  /\ outcome' = [outcome EXCEPT ![i] = o]
  /\ gctx' = (gctx \/ o = "err")
  /\ UNCHANGED pending

\* g.Wait() has nothing left to wait for.
Drained == pending = {} /\ running = {}
=============================================================================
