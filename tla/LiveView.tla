------------------------------ MODULE LiveView ------------------------------
(***************************************************************************)
(* The live view of publish, promote and pull: a bubbletea program that    *)
(* paints one row per asset, fed by the goroutines of the command through  *)
(* an unbuffered channel, with the keyboard in raw mode.  One invocation,  *)
(* from the first event to the exit code.                                  *)
(*                                                                         *)
(* What the calls to CodeArtifact do is in Publish, Stages and Pull; here  *)
(* each of them succeeds or fails.  The loop of bubbletea is external: it  *)
(* handles one message at a time, runs each command it is returned beside  *)
(* itself, and discards what is sent to it after its end.                  *)
(***************************************************************************)
EXTENDS Integers, FiniteSets, FiniteSetsExt

CONSTANTS
  Asset,        \* the assets of the version: manifest keys, or file names
  Doc,          \* the document, sent last by publish and promote
  Size,         \* their bytes
  Elsewhere,    \* a file name that is the key of no row
  MaxPresses    \* how often the user presses Ctrl-C

\* Who sends messages, each about a row of its own but for docRow.
Name == Asset \cup {Doc}

ASSUME NameAssumption == IsFiniteSet(Asset) /\ Doc \notin Asset /\ Elsewhere \notin Name
ASSUME SizeAssumption == Size \in [Name -> Nat]
ASSUME PressesAssumption == MaxPresses \in Nat

VARIABLES
  command, docRow, under,                 \* chosen once
  phase, step, moved, outcome, exit,      \* main and the goroutines
  cancelled, interrupted, presses,        \* the context, the atomic.Bool, the keyboard
  view, quitting,                         \* the program
  rows, transferred, tickActive, ticks    \* the model it holds, ticks that are due

choice == <<command, docRow, under>>
work == <<phase, step, moved, outcome, exit>>
keyboard == <<cancelled, interrupted, presses>>
program == <<view, quitting>>
model == <<rows, transferred, tickActive, ticks>>
vars == <<choice, work, keyboard, program, model>>

Commands == {"publish", "promote", "pull", "dryrun"}
Finalizes == command \in {"publish", "promote"}

Phases ==
  {"expect", "gate", "prompt", "skips", "first", "rest", "finalize", "close", "wait", "exited"}

Messages == {"start", "progress", "ok", "fail", "skip"}
Outcomes == {"ok", "fail", "skip"}

RowStates == {"none", "active", "done", "failed", "skipped"}
Terminal == {"done", "failed", "skipped"}
NoRow == [state |-> "none", size |-> 0, bytes |-> 0]

\* The row of cob-provenance.json: no file of a manifest may be named like it,
\* but a key may be, and then the document shares the row of that asset.
DocRows == IF command = "publish" THEN Name ELSE {Doc}

Row(n) == IF n = Doc THEN docRow ELSE n

\* Publisher.Progress reports under the file name of a source, the rows are
\* those of the manifest keys.  File names of a manifest are distinct.
Reporting ==
  IF command = "publish"
  THEN {f \in [Name -> Name \cup {Elsewhere}] :
          /\ f[Doc] = docRow
          /\ \A a, b \in Asset : f[a] = f[b] => a = b \/ f[a] = Elsewhere
          /\ \A a \in Asset : f[a] \notin {Doc, docRow}}
  ELSE {[n \in Name |-> n]}

Init ==
  /\ command \in Commands
  /\ docRow \in DocRows
  /\ under \in Reporting
  /\ phase = IF command = "promote" THEN "gate" ELSE "expect"
  /\ step = [n \in Name |-> "queued"]
  /\ moved = [n \in Name |-> 0]
  /\ outcome = [n \in Name |-> "none"]
  /\ exit = -1
  /\ cancelled = FALSE /\ interrupted = FALSE /\ presses = 0
  /\ view = "dormant" /\ quitting = "no"
  /\ rows = [n \in Name |-> NoRow]
  /\ transferred = 0
  /\ tickActive = TRUE
  /\ ticks = 0

-----------------------------------------------------------------------------
\* The model: what Update does with a message.

\* Mutant of HandleStart: a tick is scheduled whether or not one is due.
HandleStartTicks(n, size) ==
  /\ rows' = [rows EXCEPT ![n] = [state |-> "active", bytes |-> @.bytes,
                                  size |-> IF @.size > 0 THEN @.size ELSE size]]
  /\ tickActive' = TRUE
  /\ ticks' = ticks + 1
  /\ UNCHANGED transferred

\* A row appears with the first Start, and is active again with any other.
HandleStart(n, size) ==
  /\ rows' = [rows EXCEPT ![n] = [state |-> "active", bytes |-> @.bytes,
                                  size |-> IF @.size > 0 THEN @.size ELSE size]]
  /\ tickActive' = TRUE
  /\ ticks' = IF tickActive THEN ticks ELSE ticks + 1
  /\ UNCHANGED transferred

\* Mutant of HandleProgress: only that the row exists is asked.
HandleProgressLate(r, delta) ==
  /\ IF r \in Name /\ rows[r].state # "none"
     THEN /\ rows' = [rows EXCEPT ![r].bytes = @ + delta]
          /\ transferred' = transferred + delta
     ELSE UNCHANGED <<rows, transferred>>
  /\ UNCHANGED <<tickActive, ticks>>

\* Bytes count for the row they are reported under while it is active.
HandleProgress(r, delta) ==
  /\ IF r \in Name /\ rows[r].state = "active"
     THEN /\ rows' = [rows EXCEPT ![r].bytes = @ + delta]
          /\ transferred' = transferred + delta
     ELSE UNCHANGED <<rows, transferred>>
  /\ UNCHANGED <<tickActive, ticks>>

\* A result makes its row if there is none; a done row is filled up.
HandleDone(n, size) ==
  LET final == IF size > 0 THEN size ELSE rows[n].size
      gap == IF final > rows[n].bytes THEN final - rows[n].bytes ELSE 0
  IN  /\ rows' = [rows EXCEPT ![n] = [state |-> "done", size |-> final, bytes |-> @.bytes + gap]]
      /\ transferred' = transferred + gap
      /\ UNCHANGED <<tickActive, ticks>>

HandleEnd(n, state) ==
  /\ rows' = [rows EXCEPT ![n].state = state]
  /\ UNCHANGED <<transferred, tickActive, ticks>>

\* The tick is scheduled again unless all there is is settled.
HandleTick ==
  /\ view = "running" /\ ticks > 0
  /\ \E n \in Name : rows[n].state # "none"
  /\ \A n \in Name : rows[n].state \in Terminal \cup {"none"}
  /\ tickActive' = FALSE
  /\ ticks' = ticks - 1
  /\ UNCHANGED <<choice, work, keyboard, program, rows, transferred>>

\* Mutant of CtrlC: the first press quits as well.
CtrlCQuits ==
  /\ view = "running" /\ presses < MaxPresses
  /\ presses' = presses + 1
  /\ quitting' = IF quitting = "no" THEN "forced" ELSE quitting
  /\ cancelled' = TRUE
  /\ interrupted' = TRUE
  /\ UNCHANGED <<choice, work, view, model>>

\* The first Ctrl-C cancels the context, every other one ends the view.
CtrlC ==
  /\ view = "running" /\ presses < MaxPresses
  /\ presses' = presses + 1
  /\ quitting' = IF interrupted /\ quitting = "no" THEN "forced" ELSE quitting
  /\ cancelled' = TRUE
  /\ interrupted' = TRUE
  /\ UNCHANGED <<choice, work, view, model>>

-----------------------------------------------------------------------------
\* The program.

\* Init of the model returns the first tick.
RunView ==
  /\ view = "starting"
  /\ view' = "running"
  /\ ticks' = 1
  /\ UNCHANGED <<choice, work, keyboard, quitting, rows, transferred, tickActive>>

\* Run returns at once: no terminal to be had, and runErr is not looked at.
RunViewFails ==
  /\ view = "starting"
  /\ view' = "done"
  /\ UNCHANGED <<choice, work, keyboard, quitting, model>>

\* tea.Quit has come round the loop.
Quit ==
  /\ view = "running" /\ quitting # "no"
  /\ view' = "done"
  /\ UNCHANGED <<choice, work, keyboard, quitting, model>>

\* A signal, which the kernel makes of Ctrl-C only outside raw mode.
Signal ==
  /\ ~cancelled /\ phase # "exited"
  /\ cancelled' = TRUE
  /\ UNCHANGED <<choice, work, interrupted, presses, program, model>>

-----------------------------------------------------------------------------
\* The goroutines: each has one message on the way, and goes on when it is
\* taken or, after the end of the view, discarded.

\* pull stores what it received; one listed without a hash may be short.
MayEnd(n, m) == m = Size[n] \/ command = "pull"

\* What the sender of a message sends next; m is what it has moved by then.
NextMessages(n, m) ==
  CASE step[n] = "start" \/ step[n] = "progress" ->
         {"fail"} \cup (IF m < Size[n] THEN {"progress"} ELSE {})
                  \cup (IF MayEnd(n, m) THEN {"ok"} ELSE {})
                  \cup (IF step[n] = "start" /\ command = "pull" THEN {"skip"} ELSE {})
    [] OTHER -> {"settled"}

\* The sizes publish and promote know are those of the results.
StartSize(n) == IF command = "pull" THEN Size[n] ELSE 0
DoneSize(n) == IF command = "pull" THEN moved[n] ELSE Size[n]

Update(n, delta) ==
  \/ step[n] = "start" /\ HandleStart(Row(n), StartSize(n))
  \/ step[n] = "progress" /\ HandleProgress(under[n], delta)
  \/ step[n] = "ok" /\ HandleDone(Row(n), DoneSize(n))
  \/ step[n] = "fail" /\ HandleEnd(Row(n), "failed")
  \/ step[n] = "skip" /\ HandleEnd(Row(n), "skipped")

Send(n) ==
  /\ step[n] \in Messages
  /\ \E delta \in IF step[n] = "progress" THEN 1..(Size[n] - moved[n]) ELSE {0} :
       /\ moved' = [moved EXCEPT ![n] = @ + delta]
       /\ \/ view = "running" /\ Update(n, delta)
          \/ view = "done" /\ UNCHANGED model
       /\ \E next \in NextMessages(n, moved[n] + delta) : step' = [step EXCEPT ![n] = next]
  /\ outcome' = [outcome EXCEPT ![n] = IF step[n] \in Outcomes THEN step[n] ELSE @]
  /\ UNCHANGED <<choice, phase, exit, keyboard, program>>

-----------------------------------------------------------------------------
\* main.

ToExit(code) == phase' = "close" /\ exit' = code

\* Something before the batch fails.
GiveUp ==
  /\ phase \in {"expect", "gate"}
  /\ view # "starting"
  /\ ToExit(1)
  /\ UNCHANGED <<choice, step, moved, outcome, keyboard, program, model>>

\* ensureStarted; the numbers that AssetsExpected sends are only painted.
EnsureStarted ==
  /\ phase = "expect" /\ view = "dormant"
  /\ view' = "starting"
  /\ UNCHANGED <<choice, work, keyboard, quitting, model>>

\* The message is taken, or discarded.
AssetsExpected ==
  /\ phase = "expect" /\ view \in {"running", "done"}
  /\ phase' = CASE command = "publish" -> "gate"
                [] command = "promote" -> "skips"
                [] command = "pull"    -> "first"
                [] command = "dryrun"  -> "rest"
  /\ \/ command = "publish" /\ UNCHANGED step
     \/ command = "promote" /\ \E present \in SUBSET Asset :
          step' = [n \in Name |-> IF n \in present THEN "skip" ELSE "queued"]
     \/ command = "pull" /\ UNCHANGED step
     \/ command = "dryrun" /\ \E good \in SUBSET Asset :
          step' = [n \in Name |-> CASE n \in good         -> "ok"
                                    [] n \in Asset \ good -> "fail"
                                    [] OTHER              -> "queued"]
  /\ UNCHANGED <<choice, moved, outcome, exit, keyboard, program, model>>

\* The gate lets the run through; without --yes the user is asked.
Gate ==
  /\ phase = "gate"
  /\ phase' = "prompt"
  /\ UNCHANGED <<choice, step, moved, outcome, exit, keyboard, program, model>>

\* --yes, or y; publish expected its assets before the gate.
Confirmed ==
  /\ phase = "prompt"
  /\ IF command = "publish"
     THEN /\ phase' = "skips"
          /\ \E present \in SUBSET Asset :
               step' = [n \in Name |-> IF n \in present THEN "skip" ELSE "queued"]
     ELSE phase' = "expect" /\ UNCHANGED step
  /\ UNCHANGED <<choice, moved, outcome, exit, keyboard, program, model>>

\* Another answer, or the context is cancelled while the user is asked.
NotConfirmed ==
  /\ phase = "prompt"
  /\ \/ ToExit(0)
     \/ cancelled /\ ToExit(1)
  /\ UNCHANGED <<choice, step, moved, outcome, keyboard, program, model>>

Told == \A n \in Name : step[n] \notin Messages
Queued == {n \in Asset : step[n] = "queued"}
Failed == \E n \in Asset : outcome[n] = "fail"

\* The first asset to upload goes alone.
FirstUpload ==
  /\ phase = "skips" /\ Told
  /\ phase' = "first"
  /\ \/ Queued = {} /\ UNCHANGED step
     \/ \E n \in Queued : step' = [step EXCEPT ![n] = "start"]
  /\ UNCHANGED <<choice, moved, outcome, exit, keyboard, program, model>>

\* RunConcurrent spawns the rest, unless the context is cancelled already.  A
\* pull refuses names that lead out of the destination.
SpawnRest ==
  /\ phase = "first" /\ Told
  /\ phase' = "rest"
  /\ IF Failed \/ cancelled
     THEN UNCHANGED step
     ELSE \E refused \in IF command = "pull" THEN SUBSET Queued ELSE {{}} :
            step' = [n \in Name |-> IF n \in refused THEN "fail"
                                    ELSE IF n \in Queued THEN "start" ELSE step[n]]
  /\ UNCHANGED <<choice, moved, outcome, exit, keyboard, program, model>>

Whole == \A n \in Asset : outcome[n] \in {"ok", "skip"}

BatchReturned ==
  /\ phase = "rest" /\ Told
  /\ \/ ~Finalizes /\ UNCHANGED step
        /\ ToExit(IF command = "pull" /\ interrupted THEN 130 ELSE IF Whole THEN 0 ELSE 1)
     \/ Finalizes /\ ~Whole /\ UNCHANGED step /\ ToExit(IF interrupted THEN 130 ELSE 1)
     \/ Finalizes /\ Whole /\ UNCHANGED step /\ ToExit(1)   \* Marshal fails
     \/ Finalizes /\ Whole /\ phase' = "finalize" /\ step' = [step EXCEPT ![Doc] = "start"]
        /\ UNCHANGED exit
  /\ UNCHANGED <<choice, moved, outcome, keyboard, program, model>>

FinalizeReturned ==
  /\ phase = "finalize" /\ Told
  /\ ToExit(IF outcome[Doc] = "ok" THEN 0 ELSE 1)
  /\ UNCHANGED <<choice, step, moved, outcome, keyboard, program, model>>

\* Mutant of Close: a view that was interrupted is expected to end by itself.
CloseInterrupted ==
  /\ phase = "close" /\ view # "starting"
  /\ phase' = IF view = "dormant" THEN "exited" ELSE "wait"
  /\ quitting' = IF view = "running" /\ ~interrupted THEN "close" ELSE quitting
  /\ UNCHANGED <<choice, step, moved, outcome, exit, keyboard, view, model>>

\* Close of the renderer: nothing to do for a dormant one, otherwise quitMsg
\* is taken or discarded like any other message.
Close ==
  /\ phase = "close" /\ view # "starting"
  /\ phase' = IF view = "dormant" THEN "exited" ELSE "wait"
  /\ quitting' = IF view = "running" THEN "close" ELSE quitting
  /\ UNCHANGED <<choice, step, moved, outcome, exit, keyboard, view, model>>

\* <-l.done, and the process exits.
Exit ==
  /\ phase = "wait" /\ view = "done"
  /\ phase' = "exited"
  /\ UNCHANGED <<choice, step, moved, outcome, exit, keyboard, program, model>>

Main ==
  \/ GiveUp \/ EnsureStarted \/ AssetsExpected \/ Gate \/ Confirmed \/ NotConfirmed
  \/ FirstUpload \/ SpawnRest \/ BatchReturned \/ FinalizeReturned \/ Close \/ Exit

Loop == RunView \/ RunViewFails \/ Quit

Next == Main \/ Loop \/ HandleTick \/ CtrlC \/ Signal \/ \E n \in Name : Send(n)

Spec == Init /\ [][Next]_vars

\* main, the loop of the view and every goroutine are scheduled; their calls
\* come back, and Go hands an unbuffered channel to its senders in turn.  No
\* fairness for the user.
FairSpec ==
  /\ Spec
  /\ WF_vars(Main /\ phase # "prompt")
  /\ WF_vars(Loop)
  /\ WF_vars(HandleTick)
  /\ \A n \in Name : WF_vars(Send(n))

-----------------------------------------------------------------------------
TypeOK ==
  /\ command \in Commands
  /\ docRow \in Name
  /\ under \in [Name -> Name \cup {Elsewhere}]
  /\ phase \in Phases
  /\ step \in [Name -> Messages \cup {"queued", "settled"}]
  /\ moved \in [Name -> Nat]
  /\ outcome \in [Name -> Outcomes \cup {"none"}]
  /\ exit \in {-1, 0, 1, 130}
  /\ cancelled \in BOOLEAN /\ interrupted \in BOOLEAN /\ presses \in 0..MaxPresses
  /\ view \in {"dormant", "starting", "running", "done"}
  /\ quitting \in {"no", "forced", "close"}
  /\ rows \in [Name -> [state : RowStates, size : Nat, bytes : Nat]]
  /\ transferred \in Nat
  /\ tickActive \in BOOLEAN
  /\ ticks \in Nat

\* One tick is due as long as the chain is active and none otherwise, so that
\* rates and times left are refreshed while any asset moves, and not twice
\* (the tickMsg and assetStartMsg cases of Update).
TicksWhileActive ==
  view = "running" =>
    /\ ticks = IF tickActive THEN 1 ELSE 0
    /\ (\E n \in Name : rows[n].state = "active") => tickActive

\* The row of a settled asset is final, whoever still reports bytes under its
\* name (the assetProgressMsg case of Update).  The one that is not is the row
\* of an asset whose key is cob-provenance.json: once every asset is settled,
\* the document takes it over.
SettledRowsStay ==
  [][\A n \in Name : rows[n].state \in Terminal =>
       \/ rows'[n] = rows[n]
       \/ n = docRow /\ n # Doc /\ phase = "finalize"]_vars

Foreign(n) == \E a \in Name \ {n} : under[a] = n

RowNames == Asset \cup {docRow}

\* Whose state a row shows: the document's from the start of that on.
Shown(r) == IF r = docRow /\ step[Doc] \notin {"queued", "start"} THEN Doc ELSE r

\* What is painted: each asset as it ended, done ones in full, and the total.
Painted ==
  /\ \A n \in RowNames :
       /\ rows[n].state = CASE outcome[Shown(n)] = "ok" -> "done"
                            [] outcome[Shown(n)] = "fail" -> "failed"
                            [] outcome[Shown(n)] = "skip" -> "skipped"
                            [] OTHER -> IF step[Shown(n)] \in Messages /\ rows[n].state # "none"
                                        THEN "active" ELSE "none"
       /\ rows[n].state = "done" => rows[n].bytes >= rows[n].size
       /\ rows[n].state = "done" /\ ~Foreign(n) => rows[n].bytes = rows[n].size
  /\ transferred = MapThenSumSet(LAMBDA n : rows[n].bytes, Name)

\* One Ctrl-C does not end the view: a view that could start has shown the
\* end of every asset by the time it closes, and after exit 0 shows no failure
\* (the tea.KeyMsg case of Update, and Close).
FinalPaintIsWhole ==
  /\ view = "running" \/ quitting = "close" => Painted
  /\ presses < 2 => quitting # "forced"
  /\ phase = "exited" /\ exit = 0 /\ quitting = "close" =>
       \A n \in RowNames : rows[n].state \in {"none", "done", "skipped"}

\* However the view ended or failed to start, a command that has begun its
\* batch ends (send, Close).
ViewCloses == phase = "skips" \/ phase = "first" \/ phase = "rest" ~> phase = "exited"

\* live.go:18-22: the view is not launched until the first asset event, and a
\* command without one has the terminal to itself; helpers.go:128: a prompt
\* takes the answer of the user.  So nothing else reads the keyboard then.
PromptHasTheTerminal == phase = "prompt" => view # "running"
=============================================================================
