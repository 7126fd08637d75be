------------------------ MODULE RunConcurrentProofs ------------------------
(***************************************************************************)
(* What one call of RunConcurrent guarantees, for every number of tasks,   *)
(* every --concurrency, and every order in which tasks finish and fail.    *)
(***************************************************************************)
EXTENDS RunConcurrent, FiniteSetTheorems, TLAPS

\* TypeOK is inductive by itself.
THEOREM TypeCorrect == Spec => []TypeOK
<1>1. Init => TypeOK
  BY DEF Init, TypeOK, FreshResults, Outcome
<1>2. TypeOK /\ [Next]_vars => TypeOK'
  <2> SUFFICES ASSUME TypeOK, [Next]_vars PROVE TypeOK'
    OBVIOUS
  <2> USE DEF TypeOK, Outcome
  <2>1. CASE CallEmpty
    BY <2>1 DEF CallEmpty, task
  <2>2. CASE CallCancelled
    BY <2>2 DEF CallCancelled, task
  <2>3. CASE CallOpen
    BY <2>3 DEF CallOpen, task
  <2>4. CASE LoopSpawn
    BY <2>4 DEF LoopSpawn, Spawn, task
  <2>5. ASSUME NEW i \in Index, Begin(i) \/ WriteSlot(i) \/ TellPeers(i) \/ Release(i)
        PROVE  TypeOK'
    BY <2>5 DEF Begin, WriteSlot, TellPeers, Release, task
  <2>6. CASE CallReturn
    BY <2>6 DEF CallReturn, task
  <2>7. CASE CancelCaller
    BY <2>7 DEF CancelCaller, task
  <2>8. CASE UNCHANGED vars
    BY <2>8 DEF vars, task
  <2> QED
    BY <2>1, <2>2, <2>3, <2>4, <2>5, <2>6, <2>7, <2>8 DEF Next
<1> QED
  BY <1>1, <1>2, PTL DEF Spec

-----------------------------------------------------------------------------
\* The clamped limit is a positive number, within what was asked for and what
\* is allowed.
LEMMA ClampIsWithin ==
  ASSUME NEW n \in Int
  PROVE  /\ Clamp(n) \in Nat /\ Clamp(n) >= 1
         /\ Clamp(n) =< MaxConcurrency
         /\ Clamp(n) =< IF n > 0 THEN n ELSE 1
BY CeilingAssumption DEF Clamp

\* One more task in flight is one more against the limit, not two.
LEMMA OneMore ==
  ASSUME NEW S \in SUBSET Index, NEW i \in Index, NEW n \in Nat,
         Cardinality(S) < n
  PROVE  Cardinality(S \cup {i}) =< n
<1>1. IsFiniteSet(S)
  BY FS_Subset, IndexAssumption
<1>2. Cardinality(S) \in Nat
  BY <1>1, FS_CardinalityType
<1>3. \/ Cardinality(S \cup {i}) = Cardinality(S)
      \/ Cardinality(S \cup {i}) = Cardinality(S) + 1
  BY <1>1, FS_AddElement
<1> QED
  BY <1>2, <1>3

\* A task that returns frees a slot.
LEMMA OneLess ==
  ASSUME NEW S \in SUBSET Index, NEW i, NEW n \in Nat,
         Cardinality(S) =< n
  PROVE  Cardinality(S \ {i}) =< n
<1>1. IsFiniteSet(S)
  BY FS_Subset, IndexAssumption
<1>2. Cardinality(S) \in Nat /\ Cardinality(S \ {i}) \in Nat
  BY <1>1, FS_CardinalityType, FS_RemoveElement
<1>3. \/ Cardinality(S \ {i}) = Cardinality(S)
      \/ Cardinality(S \ {i}) = Cardinality(S) - 1
  BY <1>1, FS_RemoveElement
<1> QED
  BY <1>2, <1>3

Within == Cardinality(running) =< Clamp(limit)

\* Bounded: never more tasks in flight than were asked for or are allowed, and
\* one at a time for a request that makes no sense.
THEOREM ConcurrencyBounded == Spec => []Bounded
<1>1. Init => Within
  <2> SUFFICES ASSUME Init PROVE Within
    OBVIOUS
  <2>1. limit \in Int
    BY RequestsAssumption DEF Init
  <2>2. Cardinality(running) = 0
    BY FS_EmptySet DEF Init
  <2> QED
    BY <2>1, <2>2, ClampIsWithin DEF Within
<1>2. TypeOK /\ Within /\ [Next]_vars => Within'
  <2> SUFFICES ASSUME TypeOK, Within, [Next]_vars PROVE Within'
    OBVIOUS
  <2>1. limit \in Int /\ Clamp(limit) \in Nat /\ running \in SUBSET Index
    BY RequestsAssumption, ClampIsWithin DEF TypeOK
  <2>2. limit' = limit
    BY DEF Next, vars, CallEmpty, CallCancelled, CallOpen, LoopSpawn, Begin, WriteSlot,
           TellPeers, Release, CallReturn, CancelCaller
  <2>3. CASE LoopSpawn
    <3>1. PICK i \in pending : Spawn(i, limit)
      BY <2>3 DEF LoopSpawn
    <3>2. i \in Index /\ Cardinality(running) < Clamp(limit)
      BY <3>1 DEF Spawn, HasSlot, TypeOK
    <3>3. Cardinality(running \cup {i}) =< Clamp(limit)
      BY <2>1, <3>2, OneMore
    <3> QED
      BY <2>2, <3>1, <3>3 DEF Within, Spawn
  <2>4. ASSUME NEW i \in Index, Release(i) PROVE Within'
    <3>1. running' = running \ {i}
      BY <2>4 DEF Release
    <3>2. Cardinality(running \ {i}) =< Clamp(limit)
      BY <2>1, OneLess DEF Within
    <3> QED
      BY <2>2, <3>1, <3>2 DEF Within
  <2>5. CASE UNCHANGED running
    BY <2>2, <2>5 DEF Within
  <2> QED
    BY <2>3, <2>4, <2>5 DEF Next, vars, CallEmpty, CallCancelled, CallOpen, Begin, WriteSlot,
                            TellPeers, CallReturn, CancelCaller
<1>3. TypeOK /\ Within => Bounded
  <2> SUFFICES ASSUME TypeOK, Within PROVE Bounded
    OBVIOUS
  <2>1. limit \in Int /\ IsFiniteSet(running)
    BY RequestsAssumption, IndexAssumption, FS_Subset DEF TypeOK
  <2>2. Cardinality(running) \in Nat
    BY <2>1, FS_CardinalityType
  <2> QED
    BY <2>1, <2>2, ClampIsWithin, CeilingAssumption DEF Within, Bounded
<1> QED
  BY <1>1, <1>2, <1>3, TypeCorrect, PTL DEF Spec

-----------------------------------------------------------------------------
\* What the slots of results say at every moment of the call: before it they
\* are empty; inside it those of tasks not spawned are, those of tasks that left
\* the group are not, and only a task that did its work has no error; after it no
\* task is left.
SlotsInv ==
  /\ call = "idle" => running = {} /\ (\A i \in Index : outcome[i] = "nil")
  /\ call = "open" =>
       /\ pending \subseteq todo
       /\ running \subseteq todo
       /\ pending \cap running = {}
       /\ \A i \in pending : outcome[i] = "nil"
       /\ \A i \in todo : outcome[i] = "nil" => i \in pending \cup running
  /\ \A i \in Index : outcome[i] = "ok" => i \in worked
  /\ todo = {} => call # "open"
  /\ call = "done" => running = {}

\* A step of the call keeps the slots and the verdict right.
LEMMA SlotsStep ==
  ASSUME TypeOK, SlotsInv, ResultsSound, [Next]_vars
  PROVE  SlotsInv' /\ ResultsSound'
<1> USE DEF TypeOK, Outcome, SlotsInv, ResultsSound, VerdictSound, NoHoles, NoneCutShort, task
<1>1. CASE CallEmpty
  BY <1>1 DEF CallEmpty
<1>2. CASE CallCancelled
  BY <1>2 DEF CallCancelled
<1>3. CASE CallOpen
  BY <1>3 DEF CallOpen
<1>4. CASE LoopSpawn
  BY <1>4 DEF LoopSpawn, Spawn
<1>5. ASSUME NEW i \in Index, Begin(i)
      PROVE  SlotsInv' /\ ResultsSound'
  BY <1>5 DEF Begin
<1>6. ASSUME NEW i \in Index, WriteSlot(i)
      PROVE  SlotsInv' /\ ResultsSound'
  <2>1. PICK o \in {"ok", "err"} : /\ i \notin worked => o = "err"
                                   /\ outcome' = [outcome EXCEPT ![i] = o]
    BY <1>6 DEF WriteSlot
  <2>2. /\ i \in running /\ outcome[i] = "nil"
        /\ UNCHANGED <<call, todo, pending, running, worked, verdict>>
    BY <1>6 DEF WriteSlot
  <2>3. outcome'[i] = o /\ \A j \in Index \ {i} : outcome'[j] = outcome[j]
    BY <2>1
  <2>4. SlotsInv'
    <3>1. call # "idle"
      BY <2>2
    <3>2. ASSUME NEW j \in pending, call = "open" PROVE outcome'[j] = "nil"
      BY <2>2, <2>3, <3>2
    <3>3. ASSUME NEW j \in todo, call = "open", outcome'[j] = "nil"
          PROVE  j \in pending \cup running
      BY <2>2, <2>3, <3>3
    <3>4. ASSUME NEW j \in Index, outcome'[j] = "ok" PROVE j \in worked
      BY <2>1, <2>3, <3>4
    <3> QED
      BY <2>2, <3>1, <3>2, <3>3, <3>4
  <2>5. call = "open"
    BY <2>2
  <2> QED
    BY <2>2, <2>4, <2>5
<1>7. ASSUME NEW i \in Index, TellPeers(i)
      PROVE  SlotsInv' /\ ResultsSound'
  BY <1>7 DEF TellPeers
<1>8. ASSUME NEW i \in Index, Release(i)
      PROVE  SlotsInv' /\ ResultsSound'
  BY <1>8 DEF Release
<1>9. CASE CallReturn
  <2>1. /\ call = "open" /\ call' = "done"
        /\ pending = {} /\ running = {}
        /\ verdict' = (\A i \in todo : outcome[i] # "err")
        /\ UNCHANGED <<outcome, todo, worked, pending, running>>
    BY <1>9 DEF CallReturn, Drained
  <2>2. \A i \in todo : i \in Index /\ outcome[i] \in {"ok", "err"}
    BY <2>1
  <2>3. VerdictSound'
    BY <2>1, <2>2
  <2>4. NoHoles'
    BY <2>1, <2>2
  <2>5. NoneCutShort'
    BY <2>1, <2>2
  <2>6. SlotsInv'
    BY <2>1
  <2> QED
    BY <2>3, <2>4, <2>5, <2>6
<1>10. CASE CancelCaller
  BY <1>10 DEF CancelCaller
<1>11. CASE UNCHANGED vars
  BY <1>11 DEF vars
<1> QED
  BY <1>1, <1>2, <1>3, <1>4, <1>5, <1>6, <1>7, <1>8, <1>9, <1>10, <1>11 DEF Next

\* ResultsSound: ok means that every task did its work and none failed, and the
\* results are read when all of them or none of them are written.
THEOREM VerdictCorrect == Spec => []ResultsSound
<1>1. Init => SlotsInv /\ ResultsSound
  BY DEF Init, FreshResults, SlotsInv, ResultsSound, VerdictSound, NoHoles, NoneCutShort
<1>2. TypeOK /\ SlotsInv /\ ResultsSound /\ [Next]_vars => SlotsInv' /\ ResultsSound'
  BY SlotsStep
<1> QED
  BY <1>1, <1>2, TypeCorrect, PTL DEF Spec

\* A task that failed and has left the group has cancelled its context.
ToldInv ==
  \A j \in Index : outcome[j] = "err" => j \in running \/ gctx

\* FailureStopsTheRest: a task that heeds its context does not begin its work
\* once a task that failed has made room for another.
THEOREM NothingStartsAfterFailure == Spec => FailureStopsTheRest
<1> DEFINE Late == \A i \in heeds : i \in worked' \ worked =>
                     \A j \in todo : outcome[j] = "err" => j \in running
<1>1. Init => ToldInv
  BY DEF Init, FreshResults, ToldInv
<1>2. TypeOK /\ SlotsInv /\ ToldInv /\ [Next]_vars => ToldInv'
  <2> SUFFICES ASSUME TypeOK, SlotsInv, ToldInv, [Next]_vars PROVE ToldInv'
    OBVIOUS
  <2> USE DEF TypeOK, Outcome, ToldInv
  <2>1. ASSUME NEW i \in Index, WriteSlot(i) PROVE ToldInv'
    BY <2>1 DEF WriteSlot
  <2>2. ASSUME NEW i \in Index, TellPeers(i) PROVE ToldInv'
    BY <2>2 DEF TellPeers
  <2>3. ASSUME NEW i \in Index, Release(i) PROVE ToldInv'
    BY <2>3 DEF Release
  <2>4. CASE LoopSpawn
    BY <2>4 DEF LoopSpawn, Spawn
  <2>5. CASE UNCHANGED <<outcome, running, gctx>>
    BY <2>5
  <2> QED
    BY <2>1, <2>2, <2>3, <2>4, <2>5 DEF Next, vars, CallEmpty, CallCancelled, CallOpen, Begin,
                                        CallReturn, CancelCaller
<1>3. TypeOK /\ ToldInv /\ [Next]_vars => [Late]_vars
  <2> SUFFICES ASSUME TypeOK, ToldInv, [Next]_vars PROVE Late
    OBVIOUS
  <2>1. ASSUME NEW i \in Index, Begin(i) PROVE Late
    <3>1. worked' = worked \cup {i} /\ (i \in heeds => ~gctx)
      BY <2>1 DEF Begin
    <3> QED
      BY <3>1 DEF TypeOK, ToldInv
  <2>2. CASE worked' = worked
    BY <2>2
  <2> QED
    BY <2>1, <2>2 DEF Next, vars, task, CallEmpty, CallCancelled, CallOpen, LoopSpawn, WriteSlot,
                      TellPeers, Release, CallReturn, CancelCaller
<1>4. Init => SlotsInv /\ ResultsSound
  BY DEF Init, FreshResults, SlotsInv, ResultsSound, VerdictSound, NoHoles, NoneCutShort
<1>5. TypeOK /\ SlotsInv /\ ResultsSound /\ [Next]_vars => SlotsInv' /\ ResultsSound'
  BY SlotsStep
<1> QED
  BY <1>1, <1>2, <1>3, <1>4, <1>5, TypeCorrect, PTL DEF Spec, FailureStopsTheRest
=============================================================================
