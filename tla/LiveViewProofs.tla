--------------------------- MODULE LiveViewProofs ---------------------------
(***************************************************************************)
(* What holds of the live view for any assets and sizes, however the       *)
(* goroutines interleave and however often the user presses Ctrl-C.        *)
(***************************************************************************)
EXTENDS LiveView, FiniteSetTheorems, WellFoundedInduction, TLAPS

-----------------------------------------------------------------------------
\* The tick.

\* Until the program runs its model is the one it was made with.
TickInv ==
  /\ view \in {"dormant", "starting"} => ticks = 0 /\ tickActive
  /\ TicksWhileActive

LEMMA InitTypes == Init => TypeOK
<1> SUFFICES ASSUME Init PROVE TypeOK
  OBVIOUS
<1>1. under \in [Name -> Name \cup {Elsewhere}]
  <2>1. CASE command = "publish"
    BY <2>1 DEF Init, Reporting
  <2>2. CASE command # "publish"
    BY <2>2 DEF Init, Reporting
  <2> QED
    BY <2>1, <2>2
<1>2. NoRow \in [state : RowStates, size : Nat, bytes : Nat]
  BY DEF NoRow, RowStates
<1>3. rows \in [Name -> [state : RowStates, size : Nat, bytes : Nat]]
  BY <1>2 DEF Init
<1>4. /\ step \in [Name -> Messages \cup {"queued", "settled"}]
      /\ moved \in [Name -> Nat]
      /\ outcome \in [Name -> Outcomes \cup {"none"}]
  BY DEF Init
<1>5. command \in Commands /\ phase \in Phases /\ docRow \in Name
  BY DEF Init, Phases, DocRows, Name
<1>6. /\ exit \in {-1, 0, 1, 130}
      /\ presses \in 0..MaxPresses
      /\ transferred \in Nat
      /\ ticks \in Nat
  BY PressesAssumption DEF Init
<1>7. /\ cancelled \in BOOLEAN /\ interrupted \in BOOLEAN /\ tickActive \in BOOLEAN
      /\ view \in {"dormant", "starting", "running", "done"}
      /\ quitting \in {"no", "forced", "close"}
  BY DEF Init
<1> QED
  BY <1>1, <1>3, <1>4, <1>5, <1>6, <1>7 DEF TypeOK

\* What Update does with a message keeps the types of the model.
LEMMA UpdateTypes ==
  ASSUME TypeOK, NEW n \in Name, NEW delta \in Nat, Update(n, delta)
  PROVE  /\ rows' \in [Name -> [state : RowStates, size : Nat, bytes : Nat]]
         /\ transferred' \in Nat
         /\ tickActive' \in BOOLEAN
         /\ ticks' \in Nat
<1> USE DEF TypeOK, RowStates
<1> DEFINE r == Row(n)
<1>0. StartSize(n) \in Nat /\ DoneSize(n) \in Nat /\ r \in Name
  BY SizeAssumption DEF StartSize, DoneSize, Row
<1> HIDE DEF r
<1>1. CASE HandleStart(r, StartSize(n))
  <2> DEFINE row == [state |-> "active", bytes |-> rows[r].bytes,
                     size |-> IF rows[r].size > 0 THEN rows[r].size ELSE StartSize(n)]
  <2>1. row \in [state : RowStates, size : Nat, bytes : Nat]
    BY <1>0
  <2>2. rows' = [rows EXCEPT ![r] = row]
    BY <1>1 DEF HandleStart
  <2>3. rows' \in [Name -> [state : RowStates, size : Nat, bytes : Nat]]
    <3> HIDE DEF row
    <3> QED
      BY <2>1, <2>2
  <2>4. transferred' \in Nat /\ tickActive' \in BOOLEAN /\ ticks' \in Nat
    BY <1>1 DEF HandleStart
  <2> QED
    BY <2>3, <2>4
<1>2. CASE HandleProgress(under[n], delta)
  <2>1. CASE under[n] \in Name /\ rows[under[n]].state = "active"
    <3> DEFINE u == under[n]
    <3>1. u \in Name /\ rows[u].bytes + delta \in Nat /\ transferred + delta \in Nat
      BY <2>1
    <3>2. /\ rows' = [rows EXCEPT ![u].bytes = rows[u].bytes + delta]
          /\ transferred' = transferred + delta /\ UNCHANGED <<tickActive, ticks>>
      BY <1>2, <2>1 DEF HandleProgress
    <3> HIDE DEF u
    <3> QED
      BY <3>1, <3>2
  <2>2. CASE ~ (under[n] \in Name /\ rows[under[n]].state = "active")
    BY <1>2, <2>2 DEF HandleProgress
  <2> QED
    BY <2>1, <2>2
<1>3. CASE HandleDone(r, DoneSize(n))
  <2> DEFINE size == DoneSize(n)
             final == IF size > 0 THEN size ELSE rows[r].size
             gap == IF final > rows[r].bytes THEN final - rows[r].bytes ELSE 0
  <2>1. size \in Nat /\ final \in Nat /\ gap \in Nat
    BY <1>0
  <2>2. /\ rows' = [rows EXCEPT ![r] = [state |-> "done", size |-> final, bytes |-> @.bytes + gap]]
        /\ transferred' = transferred + gap
        /\ UNCHANGED <<tickActive, ticks>>
    BY <1>3 DEF HandleDone
  <2> HIDE DEF size, final, gap
  <2> QED
    BY <1>0, <2>1, <2>2
<1>4. ASSUME NEW st \in {"failed", "skipped"}, HandleEnd(r, st)
      PROVE  /\ rows' \in [Name -> [state : RowStates, size : Nat, bytes : Nat]]
             /\ transferred' \in Nat
             /\ tickActive' \in BOOLEAN
             /\ ticks' \in Nat
  BY <1>0, <1>4 DEF HandleEnd
<1> QED
  BY <1>1, <1>2, <1>3, <1>4 DEF Update, r

LEMMA SendTypes ==
  ASSUME TypeOK, NEW n \in Name, Send(n)
  PROVE  TypeOK'
<1>1. PICK delta \in IF step[n] = "progress" THEN 1..(Size[n] - moved[n]) ELSE {0} :
        /\ moved' = [moved EXCEPT ![n] = @ + delta]
        /\ \/ view = "running" /\ Update(n, delta)
           \/ view = "done" /\ UNCHANGED model
        /\ \E next \in NextMessages(n, moved[n] + delta) : step' = [step EXCEPT ![n] = next]
  BY DEF Send
<1>2. delta \in Nat
  BY <1>1, SizeAssumption DEF TypeOK
<1>3. moved' \in [Name -> Nat]
  BY <1>1, <1>2 DEF TypeOK
<1>4. step' \in [Name -> Messages \cup {"queued", "settled"}]
  BY <1>1 DEF TypeOK, NextMessages, Messages
<1>5. /\ rows' \in [Name -> [state : RowStates, size : Nat, bytes : Nat]]
      /\ transferred' \in Nat
      /\ tickActive' \in BOOLEAN
      /\ ticks' \in Nat
  <2>1. CASE Update(n, delta)
    BY <1>2, <2>1, UpdateTypes
  <2>2. CASE UNCHANGED model
    BY <2>2 DEF TypeOK, model
  <2> QED
    BY <1>1, <2>1, <2>2
<1>6. outcome' \in [Name -> Outcomes \cup {"none"}]
  BY DEF Send, TypeOK
<1> QED
  BY <1>3, <1>4, <1>5, <1>6 DEF Send, TypeOK, choice, keyboard, program

LEMMA NextTypes == TypeOK /\ [Next]_vars => TypeOK'
<1> SUFFICES ASSUME TypeOK, [Next]_vars PROVE TypeOK'
  OBVIOUS
<1> USE DEF TypeOK, choice, work, keyboard, program, model, Messages, Phases
<1>1. CASE GiveUp \/ EnsureStarted \/ Gate \/ NotConfirmed
  BY <1>1 DEF GiveUp, EnsureStarted, Gate, NotConfirmed, ToExit
<1>2. CASE AssetsExpected
  BY <1>2 DEF AssetsExpected, Commands
<1>3. CASE Confirmed
  BY <1>3 DEF Confirmed
<1>4. CASE FirstUpload
  BY <1>4 DEF FirstUpload, Queued
<1>5. CASE SpawnRest
  <2>1. step' \in [Name -> Messages \cup {"queued", "settled"}]
    BY <1>5 DEF SpawnRest
  <2> QED
    BY <1>5, <2>1 DEF SpawnRest
<1>6. CASE BatchReturned
  BY <1>6 DEF BatchReturned, ToExit
<1>7. CASE FinalizeReturned \/ Close \/ Exit
  BY <1>7 DEF FinalizeReturned, Close, Exit, ToExit
<1>8. CASE Loop
  BY <1>8 DEF Loop, RunView, RunViewFails, Quit
<1>9. CASE HandleTick
  <2>0. ticks > 0 /\ ticks' = ticks - 1 /\ tickActive' = FALSE
    BY <1>9 DEF HandleTick
  <2>1. ticks' \in Nat
    BY <2>0
  <2>2. UNCHANGED <<choice, work, keyboard, program, rows, transferred>>
    BY <1>9 DEF HandleTick
  <2>3. /\ command' = command /\ docRow' = docRow /\ under' = under /\ step' = step
        /\ moved' = moved /\ outcome' = outcome /\ rows' = rows
        /\ phase' = phase /\ exit' = exit /\ cancelled' = cancelled
        /\ interrupted' = interrupted /\ presses' = presses /\ view' = view
        /\ quitting' = quitting /\ transferred' = transferred
    BY <2>2
  <2>4. tickActive' \in BOOLEAN
    BY <2>0
  <2> QED
    BY ONLY TypeOK, <2>1, <2>3, <2>4
<1>10. CASE CtrlC
  BY <1>10, PressesAssumption DEF CtrlC
<1>11. CASE Signal
  BY <1>11 DEF Signal
<1>12. ASSUME NEW n \in Name, Send(n) PROVE TypeOK'
  BY <1>12, SendTypes
<1>13. CASE UNCHANGED vars
  BY <1>13 DEF vars
<1> QED
  BY <1>1, <1>2, <1>3, <1>4, <1>5, <1>6, <1>7, <1>8, <1>9, <1>10, <1>11, <1>12, <1>13
  DEF Next, Main

\* TypeOK: the variables of the view and of its command keep their types.
THEOREM TypeCorrect == Spec => []TypeOK
<1> QED
  BY InitTypes, NextTypes, PTL DEF Spec

\* A message keeps the tick as it is, or starts it again.
LEMMA SendTick ==
  ASSUME TypeOK, TickInv, NEW n \in Name, Send(n)
  PROVE  TickInv'
<1> USE DEF TickInv, TicksWhileActive
<1>1. view' = view
  BY DEF Send, program
<1>2. CASE view = "done"
  BY <1>1, <1>2
<1>3. CASE view = "running"
  <2>1. PICK delta : Update(n, delta)
    BY <1>3 DEF Send
  <2>2. CASE HandleStart(Row(n), StartSize(n))
    BY <1>1, <1>3, <2>2 DEF HandleStart, TypeOK
  <2>3. CASE HandleProgress(under[n], delta)
    BY <1>1, <1>3, <2>3 DEF HandleProgress, TypeOK
  <2>4. CASE HandleDone(Row(n), DoneSize(n))
    <3>1. \A m \in Name : rows'[m].state = "active" => rows[m].state = "active"
      BY <2>4 DEF HandleDone, TypeOK
    <3>2. UNCHANGED <<tickActive, ticks>>
      BY <2>4 DEF HandleDone
    <3> QED
      BY <1>1, <1>3, <3>1, <3>2
  <2>5. ASSUME NEW st \in {"failed", "skipped"}, HandleEnd(Row(n), st) PROVE TickInv'
    BY <1>1, <1>3, <2>5 DEF HandleEnd, TypeOK
  <2> QED
    BY <2>1, <2>2, <2>3, <2>4, <2>5 DEF Update
<1> QED
  BY <1>2, <1>3 DEF Send

LEMMA NextTick == TypeOK /\ TickInv /\ [Next]_vars => TickInv'
<1> SUFFICES ASSUME TypeOK, TickInv, [Next]_vars PROVE TickInv'
  OBVIOUS
<1> USE DEF TypeOK, TickInv, TicksWhileActive, program, model
<1>1. CASE Main
  <2>1. CASE EnsureStarted
    BY <2>1 DEF EnsureStarted
  <2>2. CASE UNCHANGED view /\ UNCHANGED model
    BY <2>2
  <2> QED
    BY <1>1, <2>1, <2>2 DEF Main, GiveUp, AssetsExpected, Gate, Confirmed, NotConfirmed,
       FirstUpload, SpawnRest, BatchReturned, FinalizeReturned, Close, Exit
<1>2. CASE RunView
  BY <1>2 DEF RunView
<1>3. CASE RunViewFails \/ Quit
  BY <1>3 DEF RunViewFails, Quit
<1>4. CASE HandleTick
  BY <1>4 DEF HandleTick, Terminal
<1>5. CASE CtrlC \/ Signal
  BY <1>5 DEF CtrlC, Signal
<1>6. ASSUME NEW n \in Name, Send(n) PROVE TickInv'
  BY <1>6, SendTick
<1>7. CASE UNCHANGED vars
  BY <1>7 DEF vars
<1> QED
  BY <1>1, <1>2, <1>3, <1>4, <1>5, <1>6, <1>7 DEF Next, Loop

\* TicksWhileActive: one tick is due while any row is active, and never two.
THEOREM TickIsKept == Spec => []TicksWhileActive
<1>1. Init => TickInv
  BY DEF Init, TickInv, TicksWhileActive
<1>2. TickInv => TicksWhileActive
  BY DEF TickInv
<1> QED
  BY <1>1, <1>2, NextTick, TypeCorrect, PTL DEF Spec

-----------------------------------------------------------------------------
\* Settled rows.

Before == {"expect", "gate", "prompt"}
Batch == {"skips", "first", "rest"}

\* Each sender tells one result, and only that makes its row terminal; the
\* document is sent when every asset has told its own.
RowsInv ==
  /\ under[Doc] = docRow
  /\ phase \in Before => \A n \in Name : step[n] = "queued"
  /\ phase \in Before \cup Batch => step[Doc] = "queued"
  /\ step[Doc] \in Messages => phase = "finalize"
  /\ step[Doc] # "queued" => \A a \in Asset : outcome[a] # "none"
  /\ \A n \in Name : step[n] # "settled" => outcome[n] = "none"
  /\ \A n \in Name : rows[n].state \in Terminal => outcome[n] # "none"

\* What Update does to the rows.
LEMMA UpdateRows ==
  ASSUME TypeOK, NEW n \in Name, NEW delta, Update(n, delta), NEW r, r = Row(n)
  PROVE  /\ DOMAIN rows' = Name
         /\ \A m \in Name : rows[m].state \in Terminal /\ m # r => rows'[m] = rows[m]
         /\ \A m \in Name \ {r} : rows'[m].state = rows[m].state
         /\ rows'[r].state \in Terminal => rows[r].state \in Terminal \/ step[n] \in Outcomes
<1> USE DEF TypeOK, Terminal, Outcomes
<1>0. r \in Name
  BY DEF Row
<1>1. CASE step[n] = "start" /\ HandleStart(r, StartSize(n))
  BY <1>0, <1>1 DEF HandleStart
<1>2. CASE step[n] = "progress" /\ HandleProgress(under[n], delta)
  BY <1>0, <1>2 DEF HandleProgress
<1>3. CASE step[n] = "ok" /\ HandleDone(r, DoneSize(n))
  <2>1. PICK x : rows' = [rows EXCEPT ![r] = x]
    BY <1>3 DEF HandleDone
  <2> QED
    BY <1>0, <1>3, <2>1
<1>4. CASE step[n] = "fail" /\ HandleEnd(r, "failed")
  BY <1>0, <1>4 DEF HandleEnd
<1>5. CASE step[n] = "skip" /\ HandleEnd(r, "skipped")
  BY <1>0, <1>5 DEF HandleEnd
<1> QED
  BY <1>1, <1>2, <1>3, <1>4, <1>5 DEF Update

\* Only the document shows its messages in the row of another.
LEMMA RowIs ==
  ASSUME TypeOK, NEW n \in Name
  PROVE  /\ Row(n) \in RowNames /\ Row(n) \in Name
         /\ Row(n) # n => n = Doc /\ Row(n) = docRow /\ docRow \in Asset
BY DEF TypeOK, Row, RowNames, Name

LEMMA SendRows ==
  ASSUME TypeOK, RowsInv, NEW n \in Name, Send(n)
  PROVE  RowsInv'
<1> USE DEF TypeOK, RowsInv
<1>1. /\ step[n] \in Messages
      /\ phase' = phase /\ docRow' = docRow /\ under' = under
      /\ outcome' = [outcome EXCEPT ![n] = IF step[n] \in Outcomes THEN step[n] ELSE @]
  BY DEF Send, choice
<1>2. step[n] # "queued" /\ step[n] # "settled"
  BY <1>1 DEF Messages
<1>3. phase' \notin Before /\ (phase' \in Batch => n # Doc)
  BY <1>1, <1>2
<1>4. PICK next : /\ step' = [step EXCEPT ![n] = next]
                  /\ step[n] \in Outcomes => next = "settled"
  BY DEF Send, NextMessages, Outcomes
<1>5. phase' \in Before \cup Batch => step'[Doc] = "queued"
  BY <1>1, <1>3, <1>4 DEF Name
<1>6. \A m \in Name : step'[m] # "settled" => outcome'[m] = "none"
  BY <1>1, <1>2, <1>4
<1>7. /\ \A m \in Name : outcome[m] # "none" => outcome'[m] # "none"
      /\ step[n] \in Outcomes => outcome'[n] # "none"
  BY <1>1 DEF Outcomes
<1>8. /\ step'[Doc] \in Messages => phase' = "finalize"
      /\ step'[Doc] # "queued" => \A a \in Asset : outcome'[a] # "none"
  BY <1>1, <1>2, <1>4, <1>7 DEF Name
<1>9. \A m \in Name : rows'[m].state \in Terminal => outcome'[m] # "none"
  <2>1. CASE UNCHANGED model
    BY <1>7, <2>1 DEF model
  <2>2. ASSUME NEW delta, Update(n, delta), NEW m \in Name, rows'[m].state \in Terminal
        PROVE  outcome'[m] # "none"
    <3>1. CASE m # Row(n)
      BY <1>7, <2>2, <3>1, UpdateRows
    <3>2. CASE m = Row(n) /\ m = n
      BY <1>7, <2>2, <3>2, UpdateRows
    <3>3. CASE m = Row(n) /\ m # n
      BY <1>2, <1>7, <3>3, RowIs
    <3> QED
      BY <3>1, <3>2, <3>3
  <2> QED
    BY <2>1, <2>2 DEF Send
<1> QED
  BY <1>1, <1>3, <1>5, <1>6, <1>8, <1>9

LEMMA NextRows == TypeOK /\ RowsInv /\ [Next]_vars => RowsInv'
<1> SUFFICES ASSUME TypeOK, RowsInv, [Next]_vars PROVE RowsInv'
  OBVIOUS
<1> USE NameAssumption
    DEF TypeOK, RowsInv, Before, Batch, Messages, choice, work, keyboard, program, model
<1>1. CASE GiveUp \/ EnsureStarted \/ Gate \/ NotConfirmed
  BY <1>1 DEF GiveUp, EnsureStarted, Gate, NotConfirmed, ToExit
<1>2. CASE AssetsExpected
  BY <1>2 DEF AssetsExpected, Commands, Name
<1>3. CASE Confirmed
  BY <1>3 DEF Confirmed, Name
<1>4. CASE FirstUpload
  BY <1>4 DEF FirstUpload, Queued, Name
<1>5. CASE SpawnRest
  <2>1. ASSUME NEW refused \in SUBSET Queued,
               step' = [m \in Name |-> IF m \in refused THEN "fail"
                                       ELSE IF m \in Queued THEN "start" ELSE step[m]]
        PROVE  \A m \in Name : step'[m] = step[m] \/ (step[m] = "queued" /\ m # Doc)
    BY <2>1 DEF Queued
  <2>2. ASSUME UNCHANGED step
        PROVE  \A m \in Name : step'[m] = step[m] \/ (step[m] = "queued" /\ m # Doc)
    BY <2>2
  <2>3. \A m \in Name : step'[m] = step[m] \/ (step[m] = "queued" /\ m # Doc)
    <3>1. CASE Failed \/ cancelled
      BY <1>5, <2>2, <3>1 DEF SpawnRest
    <3>2. CASE ~(Failed \/ cancelled)
      <4>1. PICK refused \in IF command = "pull" THEN SUBSET Queued ELSE {{}} :
              step' = [m \in Name |-> IF m \in refused THEN "fail"
                                      ELSE IF m \in Queued THEN "start" ELSE step[m]]
        BY <1>5, <3>2 DEF SpawnRest
      <4>2. refused \in SUBSET Queued
        BY <4>1
      <4> QED
        BY <2>1, <4>1, <4>2
    <3> QED
      BY <3>1, <3>2
  <2>4. phase = "first" /\ phase' = "rest" /\ UNCHANGED <<docRow, under, outcome, rows>>
    BY <1>5 DEF SpawnRest
  <2>5. step[Doc] = "queued" /\ step'[Doc] = "queued"
    BY <2>3, <2>4 DEF Name
  <2> QED
    BY <2>3, <2>4, <2>5
<1>6. CASE BatchReturned
  BY <1>6 DEF BatchReturned, ToExit, Whole, Name
<1>7. CASE FinalizeReturned \/ Close \/ Exit
  BY <1>7 DEF FinalizeReturned, Close, Exit, ToExit, Told, Name
<1>8. CASE Loop
  BY <1>8 DEF Loop, RunView, RunViewFails, Quit
<1>9. CASE HandleTick \/ CtrlC \/ Signal
  BY <1>9 DEF HandleTick, CtrlC, Signal
<1>10. ASSUME NEW n \in Name, Send(n) PROVE RowsInv'
  BY <1>10, SendRows
<1>11. CASE UNCHANGED vars
  BY <1>11 DEF vars
<1> QED
  BY <1>1, <1>2, <1>3, <1>4, <1>5, <1>6, <1>7, <1>8, <1>9, <1>10, <1>11 DEF Next, Main

LEMMA InitRows == Init => RowsInv
<1> SUFFICES ASSUME Init PROVE RowsInv
  OBVIOUS
<1>1. under[Doc] = docRow
  <2>1. CASE command = "publish"
    BY <2>1 DEF Init, Reporting
  <2>2. CASE command # "publish"
    BY <2>2 DEF Init, Reporting, DocRows, Name
  <2> QED
    BY <2>1, <2>2
<1> QED
  BY <1>1 DEF Init, RowsInv, Before, Batch, NoRow, Terminal, Messages, Name

\* SettledRowsStay: no later message changes the row of a settled asset, under
\* whatever names the others report, but those of a document that is named like
\* the key of the asset, when all of them are settled.
THEOREM SettledRowsAreFinal == Spec => SettledRowsStay
<1>1. TypeOK /\ RowsInv /\ [Next]_vars
        => [\A n \in Name : rows[n].state \in Terminal =>
              \/ rows'[n] = rows[n]
              \/ n = docRow /\ n # Doc /\ phase = "finalize"]_vars
  <2> SUFFICES ASSUME TypeOK, RowsInv, Next, NEW r \in Name, rows[r].state \in Terminal
               PROVE  rows'[r] = rows[r] \/ (r = docRow /\ r # Doc /\ phase = "finalize")
    OBVIOUS
  <2>1. ASSUME NEW n \in Name, Send(n)
        PROVE  rows'[r] = rows[r] \/ (r = docRow /\ r # Doc /\ phase = "finalize")
    <3>1. CASE UNCHANGED model
      BY <3>1 DEF model
    <3>2. ASSUME NEW delta, Update(n, delta)
          PROVE  rows'[r] = rows[r] \/ (r = docRow /\ r # Doc /\ phase = "finalize")
      <4>1. r # n /\ step[n] \in Messages
        BY <2>1 DEF RowsInv, Send, Messages
      <4>2. CASE r # Row(n)
        BY <3>2, <4>2, UpdateRows
      <4>3. CASE r = Row(n)
        BY <4>1, <4>3, RowIs DEF RowsInv
      <4> QED
        BY <4>2, <4>3
    <3> QED
      BY <2>1, <3>1, <3>2 DEF Send
  <2>2. CASE UNCHANGED rows
    BY <2>2
  <2> QED
    BY <2>1, <2>2 DEF Next, Main, Loop, model, GiveUp, EnsureStarted, AssetsExpected, Gate,
       Confirmed, NotConfirmed, FirstUpload, SpawnRest, BatchReturned, FinalizeReturned, Close,
       Exit, RunView, RunViewFails, Quit, HandleTick, CtrlC, Signal
<1> QED
  BY <1>1, InitRows, NextRows, TypeCorrect, PTL DEF Spec, SettledRowsStay

-----------------------------------------------------------------------------
\* Totals.

\* The bytes of the rows in each subset of N, as MapThenSumSet adds them up.
Picked(s) == CHOOSE x \in s : TRUE
IsSums(g, r, N) ==
  g = [s \in SUBSET N |-> IF s = {} THEN 0 ELSE r[Picked(s)].bytes + g[s \ {Picked(s)}]]
Sums(r, N) == CHOOSE g : IsSums(g, r, N)

Total(r, N) == MapThenSumSet(LAMBDA n : r[n].bytes, N)

\* q has d bytes more than r in the row of n.
Weighed(r, N) == \A x \in N : r[x].bytes \in Nat
Gains(q, r, N, n, d) == \A x \in N : q[x].bytes = r[x].bytes + (IF x = n THEN d ELSE 0)
Natural(f, N) == \A s \in SUBSET N : f[s] \in Nat

LEMMA TotalIs ==
  ASSUME NEW r, NEW N PROVE Total(r, N) = Sums(r, N)[N]
BY DEF Total, Sums, IsSums, Picked, MapThenSumSet, MapThenFoldSet

LEMMA SmallestExists ==
  ASSUME NEW S, S \subseteq Nat, S # {}
  PROVE  \E n \in S : \A m \in S : n <= m
<1>1. PICK n \in S : \A y \in S : ~ (<<y, n>> \in OpToRel(<, Nat))
  BY WFMin, NatLessThanWellFounded
<1>2. ASSUME NEW m \in S PROVE n <= m
  <2>1. ~ (m < n)
    BY <1>1 DEF OpToRel
  <2> QED
    BY <2>1
<1> QED
  BY <1>2

\* Without the element picked first a set is smaller.
LEMMA PickedIs ==
  ASSUME NEW N, IsFiniteSet(N), NEW s \in SUBSET N, s # {}
  PROVE  /\ Picked(s) \in s /\ s \ {Picked(s)} \in SUBSET N
         /\ IsFiniteSet(s)
         /\ Cardinality(s) \in Nat /\ Cardinality(s) > 0
         /\ Cardinality(s \ {Picked(s)}) = Cardinality(s) - 1
<1>1. Picked(s) \in s
  BY DEF Picked
<1>2. IsFiniteSet(s)
  BY FS_Subset
<1>3. Cardinality(s) \in Nat /\ Cardinality(s \ {Picked(s)}) = Cardinality(s) - 1
  BY <1>1, <1>2, FS_RemoveElement, FS_CardinalityType
<1>4. Cardinality(s) # 0
  BY <1>2, FS_EmptySet
<1> QED
  BY <1>1, <1>2, <1>3, <1>4

\* Two sums whose rows differ by d bytes in one row differ by d bytes where
\* that row is.
LEMMA SumsDiffer ==
  ASSUME NEW N, IsFiniteSet(N), NEW n \in N, NEW d \in Nat,
         NEW r, Weighed(r, N), NEW q, Gains(q, r, N, n, d),
         NEW f, IsSums(f, r, N), Natural(f, N), NEW g, IsSums(g, q, N)
  PROVE  \A s \in SUBSET N : g[s] = f[s] + (IF n \in s THEN d ELSE 0)
<1> DEFINE Bad == {s \in SUBSET N : g[s] # f[s] + (IF n \in s THEN d ELSE 0)}
           C == {Cardinality(s) : s \in Bad}
<1>1. SUFFICES ASSUME Bad # {} PROVE FALSE
  OBVIOUS
<1>2. C \subseteq Nat /\ C # {}
  BY <1>1, FS_Subset, FS_CardinalityType
<1>3. PICK c \in C : \A m \in C : c <= m
  BY <1>2, SmallestExists
<1>4. PICK s \in Bad : c = Cardinality(s)
  BY <1>3
<1>5. /\ f[s] = IF s = {} THEN 0 ELSE r[Picked(s)].bytes + f[s \ {Picked(s)}]
      /\ g[s] = IF s = {} THEN 0 ELSE q[Picked(s)].bytes + g[s \ {Picked(s)}]
  BY <1>4 DEF IsSums
<1>6. CASE s = {}
  BY <1>4, <1>5, <1>6
<1>7. CASE s # {}
  <2> DEFINE x == Picked(s)
             t == s \ {x}
  <2>1. /\ s \in SUBSET N /\ x \in s /\ x \in N /\ t \in SUBSET N
        /\ Cardinality(s) \in Nat /\ Cardinality(t) = Cardinality(s) - 1
    BY <1>4, <1>7, PickedIs
  <2>2. t \notin Bad
    <3>1. ~ (Cardinality(s) <= Cardinality(t))
      BY <2>1
    <3> HIDE DEF t, Bad
    <3> QED
      BY <1>3, <1>4, <3>1
  <2>3. g[t] = f[t] + (IF n \in t THEN d ELSE 0) /\ f[t] \in Nat
    BY <2>1, <2>2 DEF Natural
  <2>4. f[s] = r[x].bytes + f[t] /\ g[s] = q[x].bytes + g[t]
    BY <1>5, <1>7
  <2>5. q[x].bytes = r[x].bytes + (IF x = n THEN d ELSE 0) /\ r[x].bytes \in Nat
    BY <2>1 DEF Gains, Weighed
  <2>6. (n \in s <=> (n = x \/ n \in t)) /\ (n \in t => n # x)
    BY <2>1
  <2>7. g[s] # f[s] + (IF n \in s THEN d ELSE 0)
    BY <1>4
  <2> HIDE DEF x, t, Bad
  <2> QED
    BY <2>3, <2>4, <2>5, <2>6, <2>7
<1> QED
  BY <1>6, <1>7

\* The sums exist: there is one for the sets up to each size.
LEMMA SumsExist ==
  ASSUME NEW N, IsFiniteSet(N), NEW r, Weighed(r, N)
  PROVE  \E g \in [SUBSET N -> Nat] : IsSums(g, r, N)
<1> DEFINE Small(k) == {s \in SUBSET N : Cardinality(s) <= k}
           Next_(g, s) == IF s = {} THEN 0 ELSE r[Picked(s)].bytes + g[s \ {Picked(s)}]
           Upto(k) == \E g \in [Small(k) -> Nat] : \A s \in Small(k) : g[s] = Next_(g, s)
           Bad == {k \in Nat : ~ Upto(k)}
<1>1. \A s \in SUBSET N : Cardinality(s) \in Nat /\ Cardinality(s) <= Cardinality(N)
  BY FS_Subset, FS_CardinalityType
<1>2. Cardinality(N) \in Nat
  BY FS_CardinalityType
<1>3. Upto(0)
  <2>1. \A s \in Small(0) : s = {}
    <3> SUFFICES ASSUME NEW s \in Small(0) PROVE s = {}
      OBVIOUS
    <3>1. Cardinality(s) = 0 /\ IsFiniteSet(s)
      BY <1>1, FS_Subset
    <3> QED
      BY <3>1, FS_EmptySet
  <2> DEFINE g == [s \in Small(0) |-> 0]
  <2>2. g \in [Small(0) -> Nat] /\ \A s \in Small(0) : g[s] = Next_(g, s)
    BY <2>1
  <2> QED
    BY <2>2
<1>4. ASSUME NEW k \in Nat, Upto(k) PROVE Upto(k + 1)
  <2>1. PICK g \in [Small(k) -> Nat] : \A s \in Small(k) : g[s] = Next_(g, s)
    BY <1>4
  <2> DEFINE h == [s \in Small(k + 1) |-> Next_(g, s)]
  <2>2. ASSUME NEW s \in Small(k + 1), s # {}
        PROVE  s \ {Picked(s)} \in Small(k) /\ r[Picked(s)].bytes \in Nat
    BY <2>2, PickedIs DEF Weighed
  <2>3. Small(k) \subseteq Small(k + 1)
    BY <1>1
  <2>4. \A s \in Small(k) : h[s] = g[s]
    BY <2>1, <2>3
  <2>5. \A s \in Small(k + 1) : Next_(g, s) \in Nat
    BY <2>1, <2>2
  <2>6. h \in [Small(k + 1) -> Nat]
    BY <2>5
  <2>7. \A s \in Small(k + 1) : h[s] = Next_(h, s)
    BY <2>2, <2>4
  <2> HIDE DEF h
  <2> QED
    BY <2>6, <2>7
<1>5. Upto(Cardinality(N))
  <2>1. Bad = {}
    <3>1. SUFFICES ASSUME Bad # {} PROVE FALSE
      OBVIOUS
    <3>2. PICK k \in Bad : \A m \in Bad : k <= m
      <4>1. Bad \subseteq Nat
        OBVIOUS
      <4> HIDE DEF Bad
      <4> QED
        BY <3>1, <4>1, SmallestExists
    <3>3. k \in Nat /\ ~ Upto(k)
      BY <3>2
    <3>4. k # 0
      BY <1>3, <3>3
    <3>5. k - 1 \in Nat /\ k - 1 \notin Bad /\ (k - 1) + 1 = k
      <4>1. k - 1 \in Nat /\ ~ (k <= k - 1) /\ (k - 1) + 1 = k
        BY <3>3, <3>4
      <4> HIDE DEF Bad
      <4> QED
        BY <3>2, <4>1
    <3>6. Upto(k - 1)
      BY <3>5
    <3> HIDE DEF Upto
    <3> QED
      BY <1>4, <3>3, <3>5, <3>6
  <2> QED
    BY <1>2, <2>1
<1>6. Small(Cardinality(N)) = SUBSET N
  BY <1>1
<1>7. PICK g \in [SUBSET N -> Nat] : \A s \in SUBSET N : g[s] = Next_(g, s)
  BY <1>5, <1>6
<1>8. g = [s \in SUBSET N |-> Next_(g, s)]
  BY <1>7
<1> QED
  BY <1>7, <1>8 DEF IsSums

LEMMA SumsAre ==
  ASSUME NEW N, IsFiniteSet(N), NEW r, Weighed(r, N)
  PROVE  IsSums(Sums(r, N), r, N) /\ Natural(Sums(r, N), N)
<1>1. PICK f \in [SUBSET N -> Nat] : IsSums(f, r, N)
  BY SumsExist
<1>2. IsSums(Sums(r, N), r, N)
  BY <1>1 DEF Sums
<1>3. CASE N = {}
  <2>1. Sums(r, N)[{}] = 0
    BY <1>2, <1>3 DEF IsSums
  <2> QED
    BY <1>2, <1>3, <2>1 DEF Natural
<1>4. CASE N # {}
  <2>1. PICK n \in N : TRUE
    BY <1>4
  <2>2. Gains(r, r, N, n, 0) /\ Natural(f, N)
    BY <1>1 DEF Gains, Weighed, Natural
  <2>3. \A s \in SUBSET N : Sums(r, N)[s] = f[s] + (IF n \in s THEN 0 ELSE 0)
    BY <1>1, <1>2, <2>2, SumsDiffer
  <2> QED
    BY <1>1, <1>2, <2>3 DEF Natural
<1> QED
  BY <1>3, <1>4

\* Where one row gains d bytes the total gains d.
LEMMA TotalGains ==
  ASSUME NEW N, IsFiniteSet(N), NEW n \in N, NEW d \in Nat,
         NEW r, Weighed(r, N), NEW q, Gains(q, r, N, n, d)
  PROVE  Total(q, N) = Total(r, N) + d
<1>1. Weighed(q, N)
  BY DEF Weighed, Gains
<1>2. /\ IsSums(Sums(r, N), r, N) /\ Natural(Sums(r, N), N)
      /\ IsSums(Sums(q, N), q, N)
  BY <1>1, SumsAre
<1>3. \A s \in SUBSET N : Sums(q, N)[s] = Sums(r, N)[s] + (IF n \in s THEN d ELSE 0)
  BY <1>2, SumsDiffer
<1> QED
  BY <1>3, TotalIs

LEMMA TotalOfNone ==
  ASSUME NEW N, IsFiniteSet(N), NEW r, \A x \in N : r[x].bytes = 0
  PROVE  Total(r, N) = 0
<1> DEFINE f == [s \in SUBSET N |-> 0]
<1>0. Weighed(r, N)
  BY DEF Weighed
<1>1. IsSums(Sums(r, N), r, N)
  BY <1>0, SumsAre
<1>2. IsSums(f, r, N) /\ Natural(f, N) /\ f[N] = 0
  <2>1. ASSUME NEW s \in SUBSET N, s # {} PROVE r[Picked(s)].bytes + f[s \ {Picked(s)}] = 0
    <3>1. Picked(s) \in N /\ s \ {Picked(s)} \in SUBSET N
      BY <2>1, PickedIs
    <3> QED
      BY <3>1
  <2> QED
    BY <2>1 DEF IsSums, Natural
<1> HIDE DEF f
<1>3. CASE N = {}
  <2>1. Sums(r, N)[{}] = 0
    BY <1>1, <1>3 DEF IsSums
  <2> QED
    BY <1>3, <2>1, TotalIs
<1>4. CASE N # {}
  <2>1. PICK n \in N : TRUE
    BY <1>4
  <2>2. Gains(r, r, N, n, 0)
    BY DEF Gains
  <2>3. \A s \in SUBSET N : Sums(r, N)[s] = f[s] + (IF n \in s THEN 0 ELSE 0)
    BY <1>0, <1>1, <1>2, <2>2, SumsDiffer
  <2>4. Sums(r, N)[N] = 0 + 0
    BY <1>2, <2>3
  <2> QED
    BY <2>4, TotalIs
<1> QED
  BY <1>3, <1>4

-----------------------------------------------------------------------------
\* What is painted.

After == {"close", "wait", "exited"}

\* When main is done with the goroutines, and what the exit code says of them.
EndInv ==
  /\ phase \in After => \A n \in Name : step[n] \notin Messages
  /\ phase = "finalize" => \A n \in Asset : step[n] \notin Messages /\ outcome[n] \in {"ok", "skip"}
  /\ phase \in After /\ exit = 0 => \A n \in Name : outcome[n] # "fail"
  /\ quitting = "close" => phase \in {"wait", "exited"}
  /\ interrupted => presses >= 1
  /\ quitting = "forced" => presses >= 2

\* Nothing is sent before the view runs, and a row that nobody else reports
\* under has no more bytes than its sender has moved.
ModelInv ==
  /\ view \in {"dormant", "starting"} =>
       /\ phase \in Before \cup After
       /\ transferred = 0
       /\ \A n \in Name : rows[n] = NoRow /\ step[n] = "queued" /\ outcome[n] = "none"
  /\ command = "publish" /\ phase \in {"gate", "prompt"} => view \in {"running", "done"}
  /\ \A n \in Name :
       /\ moved[n] <= Size[n]
       /\ rows[n].state # "done" /\ ~ Foreign(n) => rows[n].bytes <= moved[n]

PaintInv == view = "running" \/ quitting = "close" => Painted

LEMMA EndStep == TypeOK /\ RowsInv /\ EndInv /\ [Next]_vars => EndInv'
<1> SUFFICES ASSUME TypeOK, RowsInv, EndInv, [Next]_vars PROVE EndInv'
  OBVIOUS
<1> USE DEF After, choice, work, keyboard, program, model
<1>1. CASE GiveUp
  <2>1. phase \in Before /\ phase' = "close" /\ exit' = 1
    BY <1>1 DEF GiveUp, ToExit, Before
  <2> QED
    BY <1>1, <2>1 DEF GiveUp, EndInv, RowsInv, Messages
<1>2. CASE EnsureStarted \/ Gate
  BY <1>2 DEF EnsureStarted, Gate, EndInv
<1>3. CASE NotConfirmed
  <2>1. /\ phase = "prompt" /\ phase' = "close"
        /\ UNCHANGED <<choice, step, moved, outcome, keyboard, program, model>>
    BY <1>3 DEF NotConfirmed, ToExit
  <2>2. \A n \in Name : step[n] = "queued" /\ outcome[n] = "none"
    BY <2>1 DEF RowsInv, Before
  <2> QED
    BY <2>1, <2>2 DEF EndInv, Messages
<1>4. CASE AssetsExpected \/ Confirmed
  <2>1. /\ phase' \notin After \cup {"finalize"} /\ phase \notin {"wait", "exited"}
        /\ UNCHANGED <<quitting, interrupted, presses>>
    BY <1>4 DEF AssetsExpected, Confirmed, Commands, TypeOK
  <2> QED
    BY <2>1 DEF EndInv
<1>5. CASE FirstUpload \/ SpawnRest
  <2>1. /\ phase' \in {"first", "rest"} /\ phase \notin {"wait", "exited"}
        /\ UNCHANGED <<quitting, interrupted, presses>>
    BY <1>5 DEF FirstUpload, SpawnRest
  <2> QED
    BY <2>1 DEF EndInv
<1>6. CASE BatchReturned
  <2>1. /\ phase = "rest" /\ Told /\ phase' \in {"close", "finalize"}
        /\ UNCHANGED <<choice, moved, outcome, keyboard, program, model>>
        /\ phase' = "close" => UNCHANGED step
        /\ phase' = "finalize" => Whole /\ step' = [step EXCEPT ![Doc] = "start"]
        /\ phase' = "close" /\ exit' = 0 => Whole
    BY <1>6 DEF BatchReturned, ToExit
  <2>2. step[Doc] = "queued" /\ outcome[Doc] = "none"
    BY <2>1 DEF RowsInv, Batch, Name
  <2>3. Whole => \A n \in Name : outcome[n] # "fail"
    BY <2>2 DEF Whole, Name
  <2>4. phase' = "finalize" =>
          \A n \in Asset : step'[n] \notin Messages /\ outcome'[n] \in {"ok", "skip"}
    BY <2>1, NameAssumption DEF Told, Whole, Name, TypeOK
  <2>5. phase' = "close" => \A n \in Name : step'[n] \notin Messages
    BY <2>1 DEF Told
  <2>6. quitting # "close"
    BY <2>1 DEF EndInv
  <2> QED
    BY <2>1, <2>3, <2>4, <2>5, <2>6 DEF EndInv
<1>7. CASE FinalizeReturned
  <2>1. /\ phase = "finalize" /\ Told /\ phase' = "close"
        /\ exit' = IF outcome[Doc] = "ok" THEN 0 ELSE 1
        /\ UNCHANGED <<choice, step, moved, outcome, keyboard, program, model>>
    BY <1>7 DEF FinalizeReturned, ToExit
  <2>2. exit' = 0 => \A n \in Name : outcome'[n] # "fail"
    BY <2>1 DEF EndInv, Name
  <2> QED
    BY <2>1, <2>2 DEF EndInv, Told
<1>8. CASE Close
  BY <1>8 DEF Close, EndInv
<1>9. CASE Exit
  BY <1>9 DEF Exit, EndInv
<1>10. CASE Loop \/ HandleTick \/ Signal
  BY <1>10 DEF Loop, RunView, RunViewFails, Quit, HandleTick, Signal, EndInv
<1>11. CASE CtrlC
  BY <1>11 DEF CtrlC, EndInv, TypeOK
<1>12. ASSUME NEW n \in Name, Send(n) PROVE EndInv'
  <2>1. /\ step[n] \in Messages /\ UNCHANGED <<phase, exit, quitting, interrupted, presses>>
        /\ outcome' = [outcome EXCEPT ![n] = IF step[n] \in Outcomes THEN step[n] ELSE @]
    BY <1>12 DEF Send
  <2>2. PICK next : step' = [step EXCEPT ![n] = next]
    BY <1>12 DEF Send
  <2>3. phase \notin After /\ (phase = "finalize" => n \notin Asset)
    BY <1>12, <2>1 DEF EndInv
  <2>4. phase = "finalize" =>
          \A m \in Asset : step'[m] \notin Messages /\ outcome'[m] \in {"ok", "skip"}
    BY <2>1, <2>2, <2>3 DEF EndInv, TypeOK, Name
  <2> QED
    BY <2>1, <2>3, <2>4 DEF EndInv
<1>13. CASE UNCHANGED vars
  BY <1>13 DEF vars, EndInv
<1> QED
  BY <1>1, <1>2, <1>3, <1>4, <1>5, <1>6, <1>7, <1>8, <1>9, <1>10, <1>11, <1>12, <1>13 DEF Next, Main

LEMMA NamesAreFinite == IsFiniteSet(Name)
BY NameAssumption, FS_AddElement DEF Name

\* What a row shows: how the sender w ended, and a done row in full.
Shows(n, w) ==
  rows[n].state = CASE outcome[w] = "ok" -> "done"
                    [] outcome[w] = "fail" -> "failed"
                    [] outcome[w] = "skip" -> "skipped"
                    [] OTHER -> IF step[w] \in Messages /\ rows[n].state # "none"
                                THEN "active" ELSE "none"

StateShown(n) == Shows(n, Shown(n))

BytesShown(n) ==
  rows[n].state = "done" =>
    rows[n].bytes >= rows[n].size /\ (~ Foreign(n) => rows[n].bytes = rows[n].size)

LEMMA PaintedIs ==
  Painted <=> /\ \A n \in RowNames : StateShown(n) /\ BytesShown(n)
              /\ transferred = Total(rows, Name)
<1>1. Total(rows, Name) = MapThenSumSet(LAMBDA n : rows[n].bytes, Name)
  BY DEF Total
<1> QED
  BY <1>1 DEF Painted, StateShown, Shows, BytesShown

LEMMA PaintedIsNext ==
  Painted' <=> /\ \A n \in RowNames' : StateShown(n)' /\ BytesShown(n)'
               /\ transferred' = Total(rows', Name)
<1>1. (Painted <=> /\ \A n \in RowNames : StateShown(n) /\ BytesShown(n)
                   /\ transferred = Total(rows, Name))'
  BY PaintedIs, PTL
<1> QED
  BY <1>1 DEF Name

\* A row that nobody else reports under shows its own sender.
LEMMA OwnRow ==
  ASSUME TypeOK, RowsInv, NEW n \in Name, ~ Foreign(n) PROVE Shown(n) = n
BY DEF TypeOK, RowsInv, Foreign, Shown, Name

\* A sender finds its own state shown once its message has been taken, and
\* before, unless it takes over the row with that message.
LEMMA ShownIs ==
  ASSUME TypeOK, RowsInv, NEW n \in Name, step[n] \in Messages
  PROVE  /\ step[n] # "start" \/ Row(n) = n => Shown(Row(n)) = n
         /\ \A m \in RowNames : m # Row(n) => Shown(m) # n
<1> USE DEF Messages
<1>1. CASE n = Doc
  BY <1>1, NameAssumption DEF Row, Shown, RowNames
<1>2. CASE n # Doc
  <2>1. n \in Asset /\ outcome[n] = "none"
    BY <1>2 DEF RowsInv, Name
  <2>2. step[Doc] = "queued"
    BY <2>1 DEF RowsInv
  <2> QED
    BY <1>2, <2>2 DEF Row, Shown
<1> QED
  BY <1>1, <1>2

\* The row that a message adds bytes to, if any, and how many.
LEMMA UpdateBytes ==
  ASSUME TypeOK, NEW n \in Name, NEW delta \in Nat, Update(n, delta),
         NEW r, r = Row(n)
  PROVE  /\ \E g \in Name, d \in Nat :
              /\ \A m \in Name : rows'[m].bytes = rows[m].bytes + (IF m = g THEN d ELSE 0)
              /\ transferred' = transferred + d
         /\ \A m \in Name : rows'[m].bytes # rows[m].bytes => m = r \/ m = under[n]
         /\ step[n] # "ok" => rows'[r].bytes <= rows[r].bytes + delta
         /\ step[n] = "ok" =>
              /\ rows'[r].bytes >= rows'[r].size
              /\ rows[r].bytes <= moved[n] /\ moved[n] <= Size[n] => rows'[r].bytes = rows'[r].size
<1>0. /\ DOMAIN rows = Name /\ r \in Name
      /\ \A m \in Name : rows[m].bytes \in Nat /\ rows[m].size \in Nat
      /\ moved[n] \in Nat /\ Size[n] \in Nat /\ StartSize(n) \in Nat
      /\ DoneSize(n) = (IF command = "pull" THEN moved[n] ELSE Size[n]) /\ DoneSize(n) \in Nat
  BY SizeAssumption DEF TypeOK, StartSize, DoneSize, Row
<1>1. CASE step[n] # "ok" /\ \/ HandleStart(r, StartSize(n))
                             \/ HandleEnd(r, "failed") \/ HandleEnd(r, "skipped")
  <2>1. \A m \in Name : rows'[m].bytes = rows[m].bytes
    <3>1. CASE HandleStart(r, StartSize(n))
      <4>1. PICK s : rows' = [rows EXCEPT ![r] = [state |-> "active", bytes |-> rows[r].bytes,
                                                  size |-> s]]
        BY <3>1 DEF HandleStart
      <4> QED
        BY <1>0, <4>1
    <3>2. CASE HandleEnd(r, "failed") \/ HandleEnd(r, "skipped")
      BY <3>2 DEF HandleEnd, TypeOK
    <3> QED
      BY <1>1, <3>1, <3>2
  <2>2. transferred' = transferred
    BY <1>1 DEF HandleStart, HandleEnd
  <2>3. /\ \A m \in Name : rows'[m].bytes = rows[m].bytes + (IF m = r THEN 0 ELSE 0)
        /\ transferred' = transferred + 0
    BY <1>0, <2>1, <2>2 DEF TypeOK
  <2>4. rows'[r].bytes <= rows[r].bytes + delta
    BY <1>0, <2>1
  <2> QED
    BY <1>1, <2>1, <2>3, <2>4
<1>2. CASE step[n] = "progress" /\ HandleProgress(under[n], delta)
  <2>1. CASE under[n] \in Name /\ rows[under[n]].state = "active"
    <3>1. /\ rows' = [rows EXCEPT ![under[n]].bytes = @ + delta]
          /\ transferred' = transferred + delta
      BY <1>2, <2>1 DEF HandleProgress
    <3>2. \A m \in Name : rows'[m].bytes = rows[m].bytes + (IF m = under[n] THEN delta ELSE 0)
      BY <1>0, <2>1, <3>1
    <3>3. /\ \A m \in Name : rows'[m].bytes # rows[m].bytes => m = under[n]
          /\ rows'[r].bytes <= rows[r].bytes + delta
      BY <1>0, <3>2
    <3> QED
      BY <1>2, <2>1, <3>1, <3>2, <3>3
  <2>2. CASE ~ (under[n] \in Name /\ rows[under[n]].state = "active")
    <3>1. rows' = rows /\ transferred' = transferred
      BY <1>2, <2>2 DEF HandleProgress
    <3>2. /\ \A m \in Name : rows'[m].bytes = rows[m].bytes + (IF m = r THEN 0 ELSE 0)
          /\ transferred' = transferred + 0
          /\ rows'[r].bytes <= rows[r].bytes + delta
      BY <1>0, <3>1 DEF TypeOK
    <3> QED
      BY <1>2, <3>1, <3>2
  <2> QED
    BY <2>1, <2>2
<1>3. CASE step[n] = "ok" /\ HandleDone(r, DoneSize(n))
  <2> DEFINE final == IF DoneSize(n) > 0 THEN DoneSize(n) ELSE rows[r].size
             gap == IF final > rows[r].bytes THEN final - rows[r].bytes ELSE 0
             row == [state |-> "done", size |-> final, bytes |-> rows[r].bytes + gap]
  <2>1. rows' = [rows EXCEPT ![r] = row] /\ transferred' = transferred + gap
    BY <1>3 DEF HandleDone
  <2>2. final \in Nat /\ gap \in Nat
    BY <1>0
  <2>3. row.bytes = rows[r].bytes + gap /\ row.size = final
    OBVIOUS
  <2>4. rows[r].bytes + gap >= final
    BY <1>0, <2>2
  <2>5. rows[r].bytes <= moved[n] /\ moved[n] <= Size[n] => rows[r].bytes + gap = final
    <3> HIDE DEF row
    <3> QED
      BY <1>0
  <2> HIDE DEF final, gap, row
  <2>6. \A m \in Name : rows'[m] = IF m = r THEN row ELSE rows[m]
    BY <1>0, <2>1
  <2>7. \A m \in Name : rows'[m].bytes = rows[m].bytes + (IF m = r THEN gap ELSE 0)
    BY <1>0, <2>2, <2>3, <2>6
  <2>8. \A m \in Name : rows'[m].bytes # rows[m].bytes => m = r
    BY <2>6
  <2>9. rows'[r].bytes = rows[r].bytes + gap /\ rows'[r].size = final
    BY <1>0, <2>3, <2>6
  <2> QED
    BY <1>0, <1>3, <2>1, <2>2, <2>4, <2>5, <2>7, <2>8, <2>9
<1> QED
  BY <1>1, <1>2, <1>3 DEF Update

\* The state of the row that a message is about.
LEMMA UpdateState ==
  ASSUME TypeOK, NEW n \in Name, NEW delta, Update(n, delta), NEW r, r = Row(n)
  PROVE  rows'[r].state = CASE step[n] = "start" -> "active"
                            [] step[n] = "ok"    -> "done"
                            [] step[n] = "fail"  -> "failed"
                            [] step[n] = "skip"  -> "skipped"
                            [] OTHER             -> rows[r].state
<1>0. /\ DOMAIN rows = Name /\ r \in Name
      /\ \A m \in Name : rows[m] \in [state : RowStates, size : Nat, bytes : Nat]
  BY DEF TypeOK, Row
<1>1. CASE step[n] = "start" /\ HandleStart(r, StartSize(n))
  BY <1>0, <1>1 DEF HandleStart
<1>2. CASE step[n] = "progress" /\ HandleProgress(under[n], delta)
  BY <1>0, <1>2 DEF HandleProgress
<1>3. CASE step[n] = "ok" /\ HandleDone(r, DoneSize(n))
  <2>1. PICK s, b : rows' = [rows EXCEPT ![r] = [state |-> "done", size |-> s, bytes |-> b]]
    BY <1>3 DEF HandleDone
  <2> QED
    BY <1>0, <1>3, <2>1
<1>4. CASE step[n] = "fail" /\ HandleEnd(r, "failed")
  BY <1>0, <1>4 DEF HandleEnd
<1>5. CASE step[n] = "skip" /\ HandleEnd(r, "skipped")
  BY <1>0, <1>5 DEF HandleEnd
<1> QED
  BY <1>1, <1>2, <1>3, <1>4, <1>5 DEF Update

\* What a sender has moved is never more than there is.
LEMMA SendMoves ==
  ASSUME TypeOK, NEW n \in Name, Send(n), moved[n] <= Size[n]
  PROVE  \E delta \in Nat :
           /\ moved' = [moved EXCEPT ![n] = moved[n] + delta]
           /\ moved[n] + delta <= Size[n]
           /\ \/ view = "running" /\ Update(n, delta)
              \/ view = "done" /\ UNCHANGED model
<1>1. PICK delta \in IF step[n] = "progress" THEN 1..(Size[n] - moved[n]) ELSE {0} :
        /\ moved' = [moved EXCEPT ![n] = @ + delta]
        /\ \/ view = "running" /\ Update(n, delta)
           \/ view = "done" /\ UNCHANGED model
  BY DEF Send
<1>2. moved[n] \in Nat /\ Size[n] \in Nat
  BY SizeAssumption DEF TypeOK
<1>3. delta \in Nat /\ moved[n] + delta <= Size[n]
  BY <1>1, <1>2
<1> QED
  BY <1>1, <1>3

\* A message keeps what is painted true of the senders.
LEMMA SendPaints ==
  ASSUME TypeOK, RowsInv, ModelInv, Painted, NEW n \in Name, Send(n),
         NEW delta \in Nat, Update(n, delta)
  PROVE  Painted'
<1> PICK r : r = Row(n)
  OBVIOUS
<1>1. /\ step[n] \in Messages /\ outcome[n] = "none"
      /\ outcome' = [outcome EXCEPT ![n] = IF step[n] \in Outcomes THEN step[n] ELSE @]
      /\ under' = under /\ docRow' = docRow
  BY DEF Send, choice, RowsInv, Messages
<1>2. PICK next : /\ step' = [step EXCEPT ![n] = next]
                  /\ step[n] \notin Outcomes => next \in Messages
                  /\ step[n] \in Outcomes => next = "settled"
                  /\ next \notin {"queued", "start"}
  <2>1. PICK m : \E next \in NextMessages(n, m) : step' = [step EXCEPT ![n] = next]
    BY DEF Send
  <2>2. PICK next \in NextMessages(n, m) : step' = [step EXCEPT ![n] = next]
    BY <2>1
  <2>3. /\ step[n] \notin Outcomes => next \in Messages
        /\ step[n] \in Outcomes => next = "settled"
        /\ next \notin {"queued", "start"}
    BY <1>1, <2>2 DEF NextMessages, Messages, Outcomes
  <2> QED
    BY <2>2, <2>3
<1>3. /\ \A m \in RowNames : StateShown(m) /\ BytesShown(m)
      /\ transferred = Total(rows, Name)
  BY PaintedIs
<1>4. r = Row(n) /\ r \in RowNames /\ r \in Name /\ RowNames \subseteq Name /\ RowNames' = RowNames
  BY <1>1, RowIs DEF RowNames, Name, TypeOK
<1>5. step[n] # "start" => rows[r].state \in {"none", "active"}
  <2>1. step[n] # "start" => Shows(r, n)
    BY <1>1, <1>3, <1>4, ShownIs DEF StateShown
  <2> QED
    BY <1>1, <2>1 DEF Shows
<1>6. /\ \A m \in Name : m # n => step'[m] = step[m] /\ outcome'[m] = outcome[m]
      /\ outcome'[n] = (IF step[n] \in Outcomes THEN step[n] ELSE "none") /\ step'[n] = next
  BY <1>1, <1>2 DEF TypeOK
<1>7. \A m \in Name : m # r => rows'[m].state = rows[m].state
  BY <1>4, UpdateRows
<1>8. rows'[r].state = CASE step[n] = "start" -> "active"
                         [] step[n] = "ok"    -> "done"
                         [] step[n] = "fail"  -> "failed"
                         [] step[n] = "skip"  -> "skipped"
                         [] OTHER             -> rows[r].state
  BY <1>4, UpdateState
<1>9. ASSUME NEW m \in RowNames PROVE StateShown(m)'
  <2>1. CASE m # r
    <3>1. Shown(m)' = Shown(m)
      <4>1. CASE n = Doc
        BY <1>1, <1>4, <2>1, <4>1 DEF Row, Shown
      <4>2. CASE n # Doc
        BY <1>1, <1>6, <4>2 DEF Shown, Name
      <4> QED
        BY <4>1, <4>2
    <3>2. Shown(m) # n /\ Shown(m) \in Name
      BY <1>1, <1>4, <2>1, ShownIs DEF Shown, Name
    <3> QED
      BY <1>3, <1>4, <1>6, <1>7, <2>1, <3>1, <3>2 DEF StateShown, Shows
  <2>2. CASE m = r
    <3>1. Shown(r)' = n
      <4>1. CASE n = Doc
        BY <1>1, <1>2, <1>4, <1>6, <4>1 DEF Row, Shown
      <4>2. CASE n # Doc
        <5>1. step[Doc] = "queued" /\ r = n
          BY <1>1, <1>4, <4>2 DEF RowsInv, Row, Name
        <5>2. step'[Doc] = "queued"
          BY <1>6, <4>2, <5>1 DEF Name
        <5> QED
          BY <5>1, <5>2 DEF Shown
      <4> QED
        BY <4>1, <4>2
    <3>2. Shows(r, n)'
      <4>1. CASE step[n] \in Outcomes
        BY <1>6, <1>8, <4>1 DEF Shows, Outcomes
      <4>2. CASE step[n] \notin Outcomes
        <5>1. outcome'[n] = "none" /\ step'[n] \in Messages
          BY <1>2, <1>6, <4>2
        <5>2. rows'[r].state \in {"none", "active"}
          BY <1>1, <1>5, <1>8, <4>2 DEF Messages, Outcomes
        <5> QED
          BY <5>1, <5>2 DEF Shows
      <4> QED
        BY <4>1, <4>2
    <3> QED
      BY <2>2, <3>1, <3>2 DEF StateShown
  <2> QED
    BY <2>1, <2>2
<1>10. ASSUME NEW m \in RowNames PROVE BytesShown(m)'
  <2>1. Foreign(m)' <=> Foreign(m)
    BY <1>1 DEF Foreign
  <2>2. CASE rows'[m].state # "done"
    BY <2>2 DEF BytesShown
  <2>3. CASE m # r /\ rows'[m].state = "done"
    <3>1. rows[m].state = "done"
      BY <1>4, <1>7, <2>3
    <3>2. rows'[m] = rows[m]
      BY <1>4, <2>3, <3>1, UpdateRows DEF Terminal
    <3> QED
      BY <1>3, <2>1, <3>1, <3>2 DEF BytesShown
  <2>4. CASE m = r /\ rows'[m].state = "done"
    <3>1. step[n] = "ok"
      BY <1>1, <1>5, <1>8, <2>4 DEF Messages
    <3>2. /\ rows'[r].bytes >= rows'[r].size
          /\ rows[r].bytes <= moved[n] /\ moved[n] <= Size[n] => rows'[r].bytes = rows'[r].size
      BY <1>4, <3>1, UpdateBytes
    <3>3. ~ Foreign(r) => rows'[r].bytes = rows'[r].size
      <4>1. ~ Foreign(r) => r = n
        BY <1>4, RowIs DEF Foreign, RowsInv, Name
      <4>2. moved[n] <= Size[n] /\ (~ Foreign(r) => rows[r].bytes <= moved[n])
        BY <1>5, <3>1, <4>1 DEF ModelInv
      <4> QED
        BY <3>2, <4>2
    <3> QED
      BY <2>1, <2>4, <3>2, <3>3 DEF BytesShown
  <2> QED
    BY <2>2, <2>3, <2>4
<1>11. transferred' = Total(rows', Name)
  <2>1. PICK g \in Name, d \in Nat :
          /\ \A m \in Name : rows'[m].bytes = rows[m].bytes + (IF m = g THEN d ELSE 0)
          /\ transferred' = transferred + d
    BY <1>4, UpdateBytes
  <2>2. Weighed(rows, Name) /\ Gains(rows', rows, Name, g, d)
    BY <2>1 DEF Weighed, Gains, TypeOK
  <2>3. Total(rows', Name) = Total(rows, Name) + d
    BY <2>2, NamesAreFinite, TotalGains
  <2> QED
    BY <1>3, <2>1, <2>3
<1> QED
  BY <1>4, <1>9, <1>10, <1>11, PaintedIsNext

\* Other steps change neither the rows nor what their senders have told.
LEMMA StillPainted ==
  ASSUME Painted, docRow \in Name, UNCHANGED <<command, docRow, under, outcome, rows, transferred>>,
         step'[Doc] \in {"queued", "start"} <=> step[Doc] \in {"queued", "start"},
         \A n \in Name : step'[n] = step[n] \/ step[n] \notin Messages
  PROVE  Painted'
<1>1. /\ \A n \in RowNames : StateShown(n) /\ BytesShown(n)
      /\ transferred = Total(rows, Name)
  BY PaintedIs
<1>2. \A n \in RowNames : Foreign(n)' <=> Foreign(n)
  BY DEF Foreign
<1>3. ASSUME NEW n \in RowNames PROVE StateShown(n)' /\ BytesShown(n)'
  <2>1. StateShown(n)'
    <3>1. PICK w : w = Shown(n)
      OBVIOUS
    <3>2. Shown(n)' = w /\ w \in Name
      BY <3>1 DEF Shown, RowNames, Name
    <3>3. Shows(n, w) /\ (step'[w] = step[w] \/ step[w] \notin Messages)
      BY <1>1, <3>1, <3>2 DEF StateShown
    <3>4. Shows(n, w)'
      BY <3>3 DEF Shows
    <3> QED
      BY <3>2, <3>4 DEF StateShown
  <2>2. BytesShown(n)'
    BY <1>1, <1>2 DEF BytesShown
  <2> QED
    BY <2>1, <2>2
<1>4. transferred' = Total(rows', Name)
  BY <1>1
<1>5. RowNames' = RowNames
  BY DEF RowNames
<1> QED
  BY <1>3, <1>4, <1>5, PaintedIsNext

LEMMA MainFrame ==
  ASSUME TypeOK, RowsInv, Main
  PROVE  /\ UNCHANGED <<command, docRow, under, moved, outcome, rows, transferred>>
         /\ \A n \in Name : step'[n] = step[n] \/ step[n] \notin Messages
         /\ step'[Doc] \in {"queued", "start"} <=> step[Doc] \in {"queued", "start"}
<1> USE DEF choice, work, keyboard, program, model
<1>1. CASE GiveUp \/ EnsureStarted \/ Gate \/ NotConfirmed
  BY <1>1 DEF GiveUp, EnsureStarted, Gate, NotConfirmed, ToExit
<1>2. CASE AssetsExpected \/ Confirmed
  <2>1. \A n \in Name : step[n] = "queued" /\ step[n] \notin Messages
    BY <1>2 DEF AssetsExpected, Confirmed, RowsInv, Before, Messages
  <2>2. step'[Doc] = "queued"
    BY <1>2, <2>1, NameAssumption DEF AssetsExpected, Confirmed, Name, Commands, TypeOK
  <2> QED
    BY <1>2, <2>1, <2>2 DEF AssetsExpected, Confirmed, Name
<1>3. CASE FirstUpload \/ SpawnRest \/ BatchReturned
  <2>1. step[Doc] = "queued"
    BY <1>3 DEF FirstUpload, SpawnRest, BatchReturned, RowsInv, Batch
  <2>2. step'[Doc] \in {"queued", "start"}
    <3>1. CASE FirstUpload
      BY <2>1, <3>1, NameAssumption DEF FirstUpload, Queued, TypeOK, Name
    <3>2. CASE SpawnRest
      BY <2>1, <3>2, NameAssumption DEF SpawnRest, Queued, Name
    <3>3. CASE BatchReturned
      BY <2>1, <3>3 DEF BatchReturned, TypeOK, Name
    <3> QED
      BY <1>3, <3>1, <3>2, <3>3
  <2>3. \A n \in Name : step'[n] = step[n] \/ step[n] \notin Messages
    BY <1>3 DEF FirstUpload, SpawnRest, BatchReturned, Told
  <2> QED
    BY <1>3, <2>1, <2>2, <2>3 DEF FirstUpload, SpawnRest, BatchReturned
<1>4. CASE FinalizeReturned \/ Close \/ Exit
  BY <1>4 DEF FinalizeReturned, Close, Exit, ToExit
<1> QED
  BY <1>1, <1>2, <1>3, <1>4 DEF Main

LEMMA PaintStep ==
  TypeOK /\ RowsInv /\ EndInv /\ ModelInv /\ PaintInv /\ [Next]_vars => PaintInv'
<1> SUFFICES ASSUME TypeOK, RowsInv, EndInv, ModelInv, PaintInv, [Next]_vars,
                    view' = "running" \/ quitting' = "close"
             PROVE  Painted'
  BY DEF PaintInv
<1> USE DEF choice, work, keyboard, program, model
<1>1. CASE Main
  <2>1. view = "running" \/ quitting = "close"
    BY <1>1 DEF Main, GiveUp, EnsureStarted, AssetsExpected, Gate, Confirmed, NotConfirmed,
       FirstUpload, SpawnRest, BatchReturned, FinalizeReturned, Close, Exit
  <2> QED
    BY <1>1, <2>1, MainFrame, StillPainted DEF PaintInv, TypeOK
<1>2. CASE RunView
  <2>1. /\ view = "starting" /\ UNCHANGED <<choice, work, rows, transferred>>
        /\ transferred = 0
        /\ \A n \in Name : rows[n] = NoRow /\ step[n] = "queued" /\ outcome[n] = "none"
    BY <1>2 DEF RunView, ModelInv
  <2>2. \A n \in RowNames : StateShown(n) /\ BytesShown(n)
    <3> SUFFICES ASSUME NEW n \in RowNames PROVE StateShown(n) /\ BytesShown(n)
      OBVIOUS
    <3>1. n \in Name /\ Shown(n) \in Name
      BY DEF RowNames, Shown, Name, TypeOK
    <3> QED
      BY <2>1, <3>1 DEF StateShown, Shows, BytesShown, NoRow, Messages
  <2>3. Total(rows, Name) = 0
    BY <2>1, NamesAreFinite, TotalOfNone DEF NoRow
  <2>4. Painted
    BY <2>1, <2>2, <2>3, PaintedIs
  <2> QED
    BY <2>1, <2>4, StillPainted DEF TypeOK
<1>3. CASE \/ RunViewFails \/ Quit \/ HandleTick \/ CtrlC \/ Signal \/ UNCHANGED vars
  <2>1. /\ UNCHANGED <<command, docRow, under, outcome, rows, transferred, step>>
        /\ view = "running" \/ quitting = "close"
    BY <1>3 DEF RunViewFails, Quit, HandleTick, CtrlC, Signal, vars
  <2> QED
    BY <2>1, StillPainted DEF PaintInv, TypeOK
<1>4. ASSUME NEW n \in Name, Send(n) PROVE Painted'
  <2>1. /\ step[n] \in Messages /\ UNCHANGED <<phase, view, quitting>>
        /\ view \in {"running", "done"}
    BY <1>4 DEF Send
  <2>2. quitting # "close"
    BY <2>1 DEF EndInv, After
  <2>3. view = "running" /\ Painted
    BY <2>1, <2>2 DEF PaintInv
  <2>4. PICK delta \in Nat : Update(n, delta)
    BY <1>4, <2>3, SendMoves DEF ModelInv
  <2> QED
    BY <1>4, <2>3, <2>4, SendPaints
<1> QED
  BY <1>1, <1>2, <1>3, <1>4 DEF Next, Loop

LEMMA SendModel ==
  ASSUME TypeOK, RowsInv, ModelInv, PaintInv, NEW n \in Name, Send(n)
  PROVE  ModelInv'
<1>1. /\ step[n] \in Messages /\ UNCHANGED <<command, docRow, under, phase, view>>
      /\ outcome[n] = "none" /\ view \in {"running", "done"}
  BY DEF Send, choice, program, RowsInv, Messages
<1>2. PICK delta \in Nat :
        /\ moved' = [moved EXCEPT ![n] = moved[n] + delta]
        /\ moved[n] + delta <= Size[n]
        /\ \/ view = "running" /\ Update(n, delta)
           \/ view = "done" /\ UNCHANGED model
  BY SendMoves DEF ModelInv
<1>3. /\ moved \in [Name -> Nat] /\ \A m \in Name : Foreign(m)' <=> Foreign(m)
      /\ \A m \in Name : rows[m].bytes \in Nat
  BY <1>1 DEF TypeOK, Foreign
<1>4. ASSUME NEW m \in Name
      PROVE  /\ moved'[m] <= Size[m]
             /\ rows'[m].state # "done" /\ ~ Foreign(m)' => rows'[m].bytes <= moved'[m]
  <2>1. /\ moved[m] <= Size[m]
        /\ rows[m].state # "done" /\ ~ Foreign(m) => rows[m].bytes <= moved[m]
    BY DEF ModelInv
  <2>2. moved'[m] = (IF m = n THEN moved[m] + delta ELSE moved[m]) /\ moved[m] \in Nat
    BY <1>2, <1>3
  <2>3. moved'[m] <= Size[m]
    BY <1>2, <2>1, <2>2
  <2>4. CASE UNCHANGED model
    <3>1. rows' = rows
      BY <2>4 DEF model
    <3> QED
      BY <1>3, <2>1, <2>2, <2>3, <3>1
  <2>5. CASE view = "running" /\ Update(n, delta)
    <3>1. ASSUME rows'[m].state # "done", ~ Foreign(m) PROVE rows'[m].bytes <= moved'[m]
      <4>1. CASE m = Row(n)
        <5>0. m = n /\ n \in RowNames /\ Shown(n) = n
          BY <3>1, <4>1, RowIs, OwnRow DEF RowsInv, Foreign, Name
        <5>1. rows[n].state # "done"
          <6>1. Shows(n, n)
            BY <2>5, <5>0, PaintedIs DEF PaintInv, StateShown
          <6> QED
            BY <1>1, <6>1 DEF Shows
        <5>2. step[n] # "ok"
          BY <2>5, <3>1, <4>1, <5>0, UpdateState
        <5>3. rows'[n].bytes <= rows[n].bytes + delta
          BY <2>5, <4>1, <5>0, <5>2, UpdateBytes
        <5>4. rows'[n].bytes \in Nat
          BY <2>5, UpdateTypes
        <5> QED
          BY <1>3, <2>1, <2>2, <3>1, <5>0, <5>1, <5>3, <5>4
      <4>2. CASE m # Row(n)
        <5>1. rows'[m].state = rows[m].state
          BY <2>5, <4>2, UpdateRows
        <5>2. m # under[n]
          BY <3>1, <4>2 DEF Foreign, RowsInv, Row
        <5>3. rows'[m].bytes = rows[m].bytes
          BY <2>5, <4>2, <5>2, UpdateBytes
        <5>4. moved[m] <= moved'[m] /\ rows[m].bytes <= moved[m]
          BY <2>1, <2>2, <3>1, <5>1
        <5>5. moved[m] \in Nat /\ moved'[m] \in Nat /\ rows[m].bytes \in Nat
          BY <1>3, <2>2
        <5> QED
          BY <5>3, <5>4, <5>5
      <4> QED
        BY <4>1, <4>2
    <3> QED
      BY <1>3, <2>3, <3>1
  <2> QED
    BY <1>2, <2>4, <2>5
<1> QED
  BY <1>1, <1>4 DEF ModelInv

LEMMA ModelStep ==
  TypeOK /\ RowsInv /\ ModelInv /\ PaintInv /\ [Next]_vars => ModelInv'
<1> SUFFICES ASSUME TypeOK, RowsInv, ModelInv, PaintInv, [Next]_vars PROVE ModelInv'
  OBVIOUS
<1> USE DEF choice, work, keyboard, program, model
<1>1. ASSUME UNCHANGED <<command, docRow, under, moved, outcome, rows, transferred>>
      PROVE  \A n \in Name :
               /\ moved'[n] <= Size[n]
               /\ rows'[n].state # "done" /\ ~ Foreign(n)' => rows'[n].bytes <= moved'[n]
  BY <1>1 DEF ModelInv, Foreign
<1>2. CASE Main
  <2>1. /\ UNCHANGED <<command, docRow, under, moved, outcome, rows, transferred>>
        /\ \A n \in Name : step'[n] = step[n] \/ step[n] \notin Messages
    BY <1>2, MainFrame
  <2>2. \/ view' = view \/ EnsureStarted
    BY <1>2 DEF Main, GiveUp, AssetsExpected, Gate, Confirmed, NotConfirmed,
       FirstUpload, SpawnRest, BatchReturned, FinalizeReturned, Close, Exit
  <2>3. ASSUME view' \in {"dormant", "starting"}
        PROVE  phase' \in Before \cup After /\ step' = step /\ view \in {"dormant", "starting"}
    <3>1. view \in {"dormant", "starting"}
      BY <2>2, <2>3 DEF EnsureStarted
    <3>2. phase \in Before \cup After
      BY <3>1 DEF ModelInv
    <3>3. command = "publish" => phase # "gate" /\ phase # "prompt"
      BY <3>1 DEF ModelInv
    <3>4. CASE GiveUp \/ EnsureStarted \/ Gate \/ NotConfirmed
      BY <3>1, <3>4 DEF GiveUp, EnsureStarted, Gate, NotConfirmed, ToExit, Before, After
    <3>5. CASE AssetsExpected
      BY <3>1, <3>5 DEF AssetsExpected
    <3>6. CASE Confirmed
      BY <3>1, <3>3, <3>6 DEF Confirmed, Before
    <3>7. CASE FirstUpload \/ SpawnRest \/ BatchReturned \/ FinalizeReturned
      BY <3>2, <3>7 DEF FirstUpload, SpawnRest, BatchReturned, FinalizeReturned, Before, After
    <3>8. CASE Close \/ Exit
      BY <3>1, <3>8 DEF Close, Exit, After
    <3> QED
      BY <1>2, <3>1, <3>4, <3>5, <3>6, <3>7, <3>8 DEF Main
  <2>4. view' \in {"dormant", "starting"} =>
          /\ phase' \in Before \cup After
          /\ transferred' = 0
          /\ \A n \in Name : rows'[n] = NoRow /\ step'[n] = "queued" /\ outcome'[n] = "none"
    BY <2>1, <2>3 DEF ModelInv
  <2>5. command' = "publish" /\ phase' \in {"gate", "prompt"} => view' \in {"running", "done"}
    <3>1. CASE EnsureStarted
      BY <3>1 DEF EnsureStarted
    <3>2. CASE AssetsExpected
      BY <3>2 DEF AssetsExpected
    <3>3. CASE Gate
      BY <3>3 DEF Gate, ModelInv
    <3>4. CASE GiveUp \/ NotConfirmed \/ Confirmed
      BY <3>4 DEF GiveUp, NotConfirmed, Confirmed, ToExit
    <3>5. CASE FirstUpload \/ SpawnRest \/ BatchReturned \/ FinalizeReturned \/ Close \/ Exit
      BY <3>5 DEF FirstUpload, SpawnRest, BatchReturned, FinalizeReturned, Close, Exit, ToExit
    <3> QED
      BY <1>2, <3>1, <3>2, <3>3, <3>4, <3>5 DEF Main
  <2> QED
    BY <1>1, <2>1, <2>4, <2>5 DEF ModelInv
<1>3. CASE RunView \/ RunViewFails \/ Quit \/ HandleTick \/ CtrlC \/ Signal \/ UNCHANGED vars
  <2>1. /\ UNCHANGED <<command, docRow, under, phase, moved, outcome, rows, transferred, step>>
        /\ view' = view \/ view' \in {"running", "done"}
    BY <1>3 DEF RunView, RunViewFails, Quit, HandleTick, CtrlC, Signal, vars
  <2> QED
    BY <1>1, <2>1 DEF ModelInv
<1>4. ASSUME NEW n \in Name, Send(n) PROVE ModelInv'
  BY <1>4, SendModel
<1> QED
  BY <1>2, <1>3, <1>4 DEF Next, Loop

\* FinalPaintIsWhole: one Ctrl-C does not end the view, and when Close ends it
\* each asset is painted as it ended, with the sum of the bytes, whatever order
\* the messages came in.
THEOREM FinalPaintHolds == Spec => []FinalPaintIsWhole
<1> DEFINE Inv == TypeOK /\ RowsInv /\ EndInv /\ ModelInv /\ PaintInv
<1>1. Init => Inv
  <2> SUFFICES ASSUME Init PROVE Inv
    OBVIOUS
  <2>1. TypeOK
    BY InitTypes
  <2>2. RowsInv
    BY InitRows
  <2>3. EndInv
    BY DEF Init, EndInv, After
  <2>4. ModelInv
    BY SizeAssumption DEF Init, ModelInv, Before, NoRow
  <2>5. PaintInv
    BY DEF Init, PaintInv
  <2> QED
    BY <2>1, <2>2, <2>3, <2>4, <2>5
<1>2. Inv /\ [Next]_vars => Inv'
  BY NextTypes, NextRows, EndStep, ModelStep, PaintStep
<1>3. Inv => FinalPaintIsWhole
  <2> SUFFICES ASSUME Inv PROVE FinalPaintIsWhole
    OBVIOUS
  <2>1. view = "running" \/ quitting = "close" => Painted
    BY DEF PaintInv
  <2>2. presses < 2 => quitting # "forced"
    BY DEF EndInv, TypeOK
  <2>3. ASSUME phase = "exited", exit = 0, quitting = "close", NEW n \in RowNames
        PROVE  rows[n].state \in {"none", "done", "skipped"}
    <3> DEFINE w == Shown(n)
    <3>1. w \in Name
      BY DEF RowNames, Shown, Name, TypeOK
    <3>2. step[w] \notin Messages /\ outcome[w] \in {"none", "ok", "skip"}
      BY <2>3, <3>1 DEF EndInv, After, TypeOK, Outcomes
    <3>3. Shows(n, w)
      BY <2>1, <2>3, PaintedIs DEF StateShown
    <3> HIDE DEF w
    <3> QED
      BY <3>2, <3>3 DEF Shows
  <2> QED
    BY <2>1, <2>2, <2>3 DEF FinalPaintIsWhole
<1> HIDE DEF Inv
<1> QED
  BY <1>1, <1>2, <1>3, PTL DEF Spec
=============================================================================
