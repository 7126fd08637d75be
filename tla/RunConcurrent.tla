--------------------------- MODULE RunConcurrent ---------------------------
(***************************************************************************)
(* One call of cliutil.RunConcurrent, with tasks that may fail, ignore or  *)
(* honour the context, and a caller's context that may be cancelled        *)
(* before the call or at any moment of it.                                 *)
(*                                                                         *)
(* The goroutine of a task takes four steps: it looks at the context it    *)
(* was given and begins its work, writes its slot of results, cancels the  *)
(* group's context if it has an error, and gives its place in the group    *)
(* back.  The loop, the peers and the caller may act between any two.      *)
(***************************************************************************)
EXTENDS FanOut

CONSTANT
  Requests    \* the --concurrency values a caller may pass

ASSUME RequestsAssumption == Requests \subseteq Int

VARIABLES
  limit,     \* the --concurrency this call was given
  ctx,       \* TRUE once the caller's context is cancelled
  call,      \* "idle" before the call, "open" inside it, "done" after it
  todo,      \* the indices [0,n) of this call
  heeds,     \* the tasks that look at their context before they begin
  worked,    \* the tasks that began their work
  verdict    \* the ok that the call returned

task == <<heeds, worked>>
vars == <<pending, running, outcome, gctx, limit, ctx, call, todo, task, verdict>>

\* results[i]: a result with a nil error, one with an error, or the slot as
\* make() left it.
Outcome == {"nil", "ok", "err"}

TypeOK ==
  /\ pending \in SUBSET Index
  /\ running \in SUBSET Index
  /\ outcome \in [Index -> Outcome]
  /\ gctx \in BOOLEAN
  /\ limit \in Requests
  /\ ctx \in BOOLEAN
  /\ call \in {"idle", "open", "done"}
  /\ todo \in SUBSET Index
  /\ heeds \in SUBSET Index
  /\ worked \in SUBSET Index
  /\ verdict \in BOOLEAN

\* results = make([]*cob.AssetResult, n)
FreshResults == [i \in Index |-> "nil"]

Init ==
  /\ todo \in SUBSET Index
  /\ \A i \in todo, j \in Index : j < i => j \in todo
  /\ heeds \in SUBSET todo
  /\ worked = {}
  /\ pending = {}
  /\ running = {}
  /\ outcome = FreshResults
  /\ gctx = FALSE
  /\ limit \in Requests
  /\ ctx \in BOOLEAN
  /\ call = "idle"
  /\ verdict = FALSE

-----------------------------------------------------------------------------
\* Nothing to do: results is empty and the batch is ok, whatever ctx says.
CallEmpty ==
  /\ call = "idle"
  /\ todo = {}
  /\ call' = "done"
  /\ verdict' = TRUE
  /\ UNCHANGED <<pending, running, outcome, gctx, limit, ctx, todo, task>>

\* The pre-flight check: an already cancelled context spawns nothing.
CallCancelled ==
  /\ call = "idle"
  /\ todo # {}
  /\ ctx
  /\ call' = "done"
  /\ verdict' = FALSE
  /\ UNCHANGED <<pending, running, outcome, gctx, limit, ctx, todo, task>>

CallOpen ==
  /\ call = "idle"
  /\ todo # {}
  /\ ~ctx
  /\ call' = "open"
  /\ pending' = todo
  /\ UNCHANGED <<running, outcome, gctx, limit, ctx, todo, task, verdict>>

\* The loop does not look at the context again: every index is handed over.
LoopSpawn ==
  /\ call = "open"
  /\ \E i \in pending : Spawn(i, limit)
  /\ UNCHANGED <<limit, ctx, call, todo, task, verdict>>

\* A task begins its work, unless it heeds a context that is cancelled.
Begin(i) ==
  /\ i \in running
  /\ outcome[i] = "nil"
  /\ i \notin worked
  /\ i \in heeds => ~(ctx \/ gctx)
  /\ worked' = worked \cup {i}
  /\ UNCHANGED <<pending, running, outcome, gctx, limit, ctx, call, todo, heeds, verdict>>

\* results[i] = r: what its work came to, or the error of the context.
WriteSlot(i) ==
  /\ i \in running
  /\ outcome[i] = "nil"
  /\ \E o \in {"ok", "err"} :
       /\ i \notin worked => i \in heeds /\ (ctx \/ gctx) /\ o = "err"
       /\ outcome' = [outcome EXCEPT ![i] = o]
  /\ UNCHANGED <<pending, running, gctx, limit, ctx, call, todo, task, verdict>>

\* return err: the first error cancels the context of the group.
TellPeers(i) ==
  /\ i \in running
  /\ outcome[i] = "err"
  /\ ~gctx
  /\ gctx' = TRUE
  /\ UNCHANGED <<pending, running, outcome, limit, ctx, call, todo, task, verdict>>

\* Mutant of Release: the place is given back before the peers are told.
ReleaseFirst(i) ==
  /\ i \in running
  /\ outcome[i] # "nil"
  /\ running' = running \ {i}
  /\ UNCHANGED <<pending, outcome, gctx, limit, ctx, call, todo, task, verdict>>

\* The goroutine ends, and its place in the group is free.
Release(i) ==
  /\ i \in running
  /\ outcome[i] # "nil"
  /\ outcome[i] = "err" => gctx
  /\ running' = running \ {i}
  /\ UNCHANGED <<pending, outcome, gctx, limit, ctx, call, todo, task, verdict>>

\* Mutant of CallReturn: the error of a task is lost.
CallReturnBlind ==
  /\ call = "open"
  /\ Drained
  /\ call' = "done"
  /\ verdict' = TRUE
  /\ UNCHANGED <<pending, running, outcome, gctx, limit, ctx, todo, task>>

\* return results, g.Wait() == nil
CallReturn ==
  /\ call = "open"
  /\ Drained
  /\ call' = "done"
  /\ verdict' = \A i \in todo : outcome[i] # "err"
  /\ UNCHANGED <<pending, running, outcome, gctx, limit, ctx, todo, task>>

\* A signal, the deadline or Ctrl-C in the live view.
CancelCaller ==
  /\ ~ctx
  /\ call # "done"
  /\ ctx' = TRUE
  /\ UNCHANGED <<pending, running, outcome, gctx, limit, call, todo, task, verdict>>

Next ==
  \/ CallEmpty
  \/ CallCancelled
  \/ CallOpen
  \/ LoopSpawn
  \/ \E i \in Index : Begin(i) \/ WriteSlot(i) \/ TellPeers(i) \/ Release(i)
  \/ CallReturn
  \/ CancelCaller

\* The Go scheduler runs the loop and every spawned goroutine, and a task
\* returns: the AWS calls it makes are bounded by the SDK's own timeouts.
Fairness ==
  /\ WF_vars(CallEmpty \/ CallCancelled \/ CallOpen \/ LoopSpawn \/ CallReturn)
  /\ \A i \in Index :
       WF_vars(Begin(i) \/ WriteSlot(i) \/ TellPeers(i) \/ Release(i))

Spec == Init /\ [][Next]_vars
FairSpec == Spec /\ Fairness

-----------------------------------------------------------------------------
(* Properties                                                              *)

\* Never more tasks in flight than were asked for, nor than the ceiling, nor
\* than one for a request of zero or less (ClampConcurrency, SetLimit).
Bounded ==
  /\ Cardinality(running) =< MaxConcurrency
  /\ Cardinality(running) =< IF limit > 0 THEN limit ELSE 1

\* The verdict the commands branch on: ok exactly when no task failed and no
\* slot of results was left unwritten.  publish and promote dereference
\* results[i] for every i once ok is TRUE.
VerdictSound ==
  call = "done" => (verdict <=> \A i \in todo : outcome[i] = "ok")

\* Once the group has started, a slot can only be empty while its task has
\* not returned: a call never returns with some slots written and others nil.
NoHoles ==
  call = "done" => \/ \A i \in todo : outcome[i] # "nil"
                   \/ \A i \in todo : outcome[i] = "nil"

\* A context cancelled on the way spawns the rest all the same, but no batch
\* is ok of which a task was kept from its work.
NoneCutShort == call = "done" /\ verdict => todo \subseteq worked

\* What the callers rely on: ok means that every task did its work and none
\* failed, and the slots of results are all written or all untouched.
ResultsSound == VerdictSound /\ NoHoles /\ NoneCutShort

\* "tasks scheduled after cancellation see the canceled ctx immediately and
\* exit, so the observable behavior is the same" as if the loop stopped at the
\* first error (RunConcurrent's comment): a task that heeds its context begins
\* only while each task that failed still has its place in the group, so that
\* with one place nothing begins after a failure.
FailureStopsTheRest ==
  [][\A i \in heeds : i \in worked' \ worked =>
       \A j \in todo : outcome[j] = "err" => j \in running]_vars

\* Every call returns, whichever tasks fail and whenever ctx is cancelled.
Returns == <>(call = "done")
=============================================================================
