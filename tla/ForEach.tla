------------------------------- MODULE ForEach -------------------------------
(***************************************************************************)
(* concurrency.ForEach: one goroutine per item, at most limit in flight,   *)
(* each writing its own slot of the results.  The context is looked at     *)
(* before every item and never while the loop waits for a free slot, and   *)
(* nothing tells a slot that was never written from a zero value: that is  *)
(* for the caller to find out.  What the function does for an item is the  *)
(* caller's; this module is instantiated with the caller's variables.      *)
(***************************************************************************)
EXTENDS Integers, FiniteSets

CONSTANTS
  Limit,   \* the limit the caller passes
  Hole     \* the zero value of a result

ASSUME LimitAssumption == Limit \in Int

VARIABLES
  loop,    \* "idle" | "check": looks at ctx | "acquire": waits for the semaphore | "wait": wg.Wait
  todo,    \* items the loop has not reached
  busy,    \* items whose goroutine runs
  slot     \* the slice of results

-----------------------------------------------------------------------------
Loops == {"idle", "check", "acquire", "wait"}

\* limit < 1 is 1.
Slots == IF Limit < 1 THEN 1 ELSE Limit

\* Before the call.
Idle == loop = "idle" /\ todo = {} /\ busy = {} /\ slot = <<>>

\* The call, with its slice of zero values.
Begin(items) ==
  /\ loop' = IF items = {} THEN "wait" ELSE "check"
  /\ todo' = items
  /\ busy' = {}
  /\ slot' = [i \in items |-> Hole]

\* if ctx.Err() != nil { break }
CheckContext(cancelled) ==
  /\ loop = "check"
  /\ loop' = IF cancelled THEN "wait" ELSE "acquire"
  /\ UNCHANGED <<todo, busy, slot>>

\* Mutant of Acquire: the item is left to the next round as well.
AcquireAgain(i) ==
  /\ loop = "acquire"
  /\ i \in todo
  /\ Cardinality(busy) < Slots
  /\ busy' = busy \cup {i}
  /\ loop' = IF todo = {i} THEN "wait" ELSE "check"
  /\ UNCHANGED <<todo, slot>>

\* sem <- struct{}{}, then the goroutine of the next item.
Acquire(i) ==
  /\ loop = "acquire"
  /\ i \in todo
  /\ Cardinality(busy) < Slots
  /\ todo' = todo \ {i}
  /\ busy' = busy \cup {i}
  /\ loop' = IF todo = {i} THEN "wait" ELSE "check"
  /\ UNCHANGED slot

\* out[i] = fn(ctx, i, it), then the deferred releases.
Finish(i, r) ==
  /\ i \in busy
  /\ busy' = busy \ {i}
  /\ slot' = [slot EXCEPT ![i] = r]
  /\ UNCHANGED <<loop, todo>>

\* wg.Wait() has nothing left to wait for.
Drained == loop = "wait" /\ busy = {}

\* The call has returned and its slice is no longer in use.
Done == loop' = "idle" /\ todo' = {} /\ busy' = {} /\ slot' = <<>>
=============================================================================
