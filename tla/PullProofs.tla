----------------------------- MODULE PullProofs -----------------------------
(***************************************************************************)
(* pull, for every set of assets, every content, listing and destination,  *)
(* every --concurrency and any number of runs, faults and replacements of  *)
(* the version.                                                            *)
(***************************************************************************)
EXTENDS Pull, TLAPS

\* What the listing promised of asset i is kept at its path.
InPlace(i) == listed[i] \in {files[Dest(i)], Unhashed}

\* The steps after the assets were chosen.
Working == {"batch", "open", "manifest", "write"}

\* A working process has not answered yet; it knows what it is to fetch, and
\* several assets have a directory to go to.
Answering ==
  /\ pc # "idle" => result = "none"
  /\ pc = "list" => selected = {}
  /\ pc \in Working => selected # {}
  /\ \A i, j \in selected : i # j => dir

\* The loop, the tasks and the slots of results share no asset.
Handover ==
  /\ pending \cap running = {}
  /\ pending \cup running \subseteq selected
  /\ \A i \in pending \cup running : outcome[i] = "nil"
  /\ pc \in {"list", "batch", "manifest", "write"} =>
       pending = {} /\ running = {}
  /\ pc \in {"list", "batch"} => \A i \in Index : outcome[i] = "nil"
  /\ pc = "open" =>
       \A i \in selected : i \in pending \cup running \/ outcome[i] # "nil"

\* A slot is only ok once the file is in place.
SlotsInPlace ==
  pc # "idle" =>
    \A i \in Index : outcome[i] = "ok" => i \in selected /\ InPlace(i)

\* Only a task in flight has a temp file, and only for a file that is wanted.
TempsOwned ==
  pc # "idle" =>
    \A i \in Index : temp[i] # None => i \in running /\ ~Present(i)

\* The manifest comes after everything else, beside everything else.
ManifestLast ==
  /\ pc \in {"manifest", "write"} =>
       dir /\ (\A i \in selected : outcome[i] = "ok")
  /\ pc = "write" => ManifestPath \notin selected

IInv ==
  /\ TypeOK
  /\ Answering
  /\ Handover
  /\ SlotsInPlace
  /\ TempsOwned
  /\ ManifestLast
  /\ ExitZeroIsComplete
  /\ NoTempLeft

-----------------------------------------------------------------------------
(* Paths                                                                   *)

\* No two chosen assets share a path.
LEMMA DestInjective ==
  ASSUME Answering, NEW i \in selected, NEW j \in selected, Dest(i) = Dest(j)
  PROVE  i = j
BY DEF Dest, Answering

LEMMA DestIsPath ==
  ASSUME TypeOK, NEW i \in Index
  PROVE  Dest(i) \in Path
BY DEF Dest, Path

\* What is asked for stays what it is while nothing is listed.
LEMMA SamePlan ==
  ASSUME UNCHANGED plan
  PROVE  /\ UNCHANGED dir
         /\ \A i : Dest(i)' = Dest(i)
         /\ Requests' = Requests
BY DEF plan, Dest, Requests

\* Nor do the files and what is known of them.
LEMMA SameFiles ==
  ASSUME UNCHANGED plan, UNCHANGED files
  PROVE  \A i : InPlace(i)' = InPlace(i) /\ Present(i)' = Present(i)
BY SamePlan DEF plan, InPlace, Present

LEMMA FaultType ==
  ASSUME TypeOK, Fault
  PROVE  faults' \in 0 .. MaxFaults
BY PullAssumption DEF Fault, TypeOK

LEMMA ExcusedType ==
  ASSUME TypeOK, NEW c, Excused(c)
  PROVE  faults' \in 0 .. MaxFaults
BY FaultType DEF Excused, TypeOK

-----------------------------------------------------------------------------
(* Type correctness                                                        *)

LEMMA InitType == Init => TypeOK
<1> SUFFICES ASSUME Init PROVE TypeOK
  OBVIOUS
<1>1. /\ remote \in [assets : Contents, doc : SUBSET Index]
      /\ runs \in 0 .. MaxRuns /\ faults \in 0 .. MaxFaults
      /\ changes \in 0 .. MaxChanges
  BY PullAssumption DEF Init
<1>2. files \in [Path -> FileContent]
  BY DEF Init, FileContent
<1>3. opts \in Options
  BY DEF Init, Options
<1>4. /\ listed \in [Asset -> Bytes \cup {None, Unhashed}]
      /\ temp \in [Index -> Bytes \cup {None, Torn}]
      /\ outcome \in [Index -> {"nil", "ok", "err"}]
  BY PullAssumption DEF Init, NoContents
<1> QED
  BY <1>1, <1>2, <1>3, <1>4 DEF Init, TypeOK, Result

LEMMA StartType == TypeOK /\ Start => TypeOK'
<1> SUFFICES ASSUME TypeOK, Start PROVE TypeOK'
  OBVIOUS
<1>1. /\ remote' \in [assets : Contents, doc : SUBSET Index]
      /\ runs' \in 0 .. MaxRuns
  BY PullAssumption DEF Start, TypeOK
<1>2. opts' \in Options
  BY PullAssumption DEF Start, Options
<1>3. /\ listed' \in [Asset -> Bytes \cup {None, Unhashed}]
      /\ temp' \in [Index -> Bytes \cup {None, Torn}]
      /\ outcome' \in [Index -> {"nil", "ok", "err"}]
  BY PullAssumption DEF Start, NoContents
<1> QED
  BY <1>1, <1>2, <1>3 DEF Start, TypeOK, Result

LEMMA ListAssetsType == TypeOK /\ ListAssets => TypeOK'
<1> SUFFICES ASSUME TypeOK, ListAssets PROVE TypeOK'
  OBVIOUS
<1>1. Listing \in [Asset -> Bytes \cup {None, Unhashed}]
  BY DEF Listing, TypeOK, Contents
<1>2. Chosen \in SUBSET Index
  BY DEF Chosen
<1>3. faults' \in 0 .. MaxFaults
  BY ExcusedType DEF ListAssets, TypeOK
<1>4. dir' \in BOOLEAN
  BY DEF ListAssets, DirTarget, TypeOK
<1> QED
  BY <1>1, <1>2, <1>3, <1>4 DEF TypeOK, ListAssets, Exit, Result, group, signals

\* The steps of the loop and of the tasks.
LEMMA TaskType ==
  ASSUME TypeOK,
         SpawnTask \/ \E i \in Index : \/ SkipAsset(i) \/ Download(i)
                                      \/ DownloadFails(i) \/ RenameIntoPlace(i)
                                      \/ Discard(i)
  PROVE  TypeOK'
<1>1. CASE SpawnTask
  BY <1>1 DEF TypeOK, SpawnTask, Spawn, plan, signals, counters
<1>2. ASSUME NEW i \in Index, SkipAsset(i) PROVE TypeOK'
  BY <1>2 DEF TypeOK, SkipAsset, Return, plan, signals, counters
<1>3. ASSUME NEW i \in Index, Download(i) PROVE TypeOK'
  <2>1. remote.assets[i] \in Bytes \cup {None}
    BY PullAssumption DEF TypeOK, Contents
  <2>2. faults' \in 0 .. MaxFaults
    BY <1>3, FaultType DEF Download, TypeOK
  <2> QED
    BY <1>3, <2>1, <2>2 DEF TypeOK, Download, plan, signals, group
<1>4. ASSUME NEW i \in Index, DownloadFails(i) PROVE TypeOK'
  BY <1>4, ExcusedType DEF TypeOK, DownloadFails, Return, plan, signals
<1>5. ASSUME NEW i \in Index, RenameIntoPlace(i) PROVE TypeOK'
  <2>1. temp[i] \in FileContent
    BY DEF TypeOK, FileContent
  <2> QED
    BY <1>5, <2>1 DEF TypeOK, RenameIntoPlace, Return, plan, signals, counters
<1>6. ASSUME NEW i \in Index, Discard(i) PROVE TypeOK'
  <2>1. faults' \in 0 .. MaxFaults
    BY <1>6, FaultType DEF Discard, TypeOK
  <2> QED
    BY <1>6, <2>1 DEF TypeOK, Discard, Return, plan, signals
<1> QED
  BY <1>1, <1>2, <1>3, <1>4, <1>5, <1>6

\* The steps around the batch, the manifest and the environment.
LEMMA RunType ==
  ASSUME TypeOK,
         \/ BeginBatch \/ BatchReturned \/ TruncateManifest \/ NoManifest
         \/ WriteManifest \/ Republish \/ Cancel \/ Crash
  PROVE  TypeOK'
<1>1. CASE BeginBatch
  BY <1>1 DEF TypeOK, BeginBatch, Exit, Result, plan, signals, counters
<1>2. CASE BatchReturned
  BY <1>2 DEF TypeOK, BatchReturned, Exit, Result, plan, signals, group, counters
<1>3. CASE TruncateManifest
  <2>1. Sources \in SUBSET Index
    BY PullAssumption DEF Sources, TypeOK
  <2>2. files' \in [Path -> FileContent]
    BY <1>3 DEF TruncateManifest, TypeOK, FileContent
  <2> QED
    BY <1>3, <2>1, <2>2 DEF TypeOK, TruncateManifest, plan, signals, group, counters
<1>4. CASE NoManifest
  BY <1>4, ExcusedType DEF TypeOK, NoManifest, Exit, Result, plan, signals, group
<1>5. CASE WriteManifest
  <2>1. files' \in [Path -> FileContent]
    BY <1>5 DEF WriteManifest, TypeOK, FileContent
  <2>2. faults' \in 0 .. MaxFaults
    BY <1>5, FaultType DEF WriteManifest, TypeOK
  <2> QED
    BY <1>5, <2>1, <2>2 DEF TypeOK, WriteManifest, Exit, Result, plan, signals, group
<1>6. CASE Republish
  BY <1>6, PullAssumption DEF TypeOK, Republish, plan, signals, group
<1>7. CASE Cancel
  BY <1>7, FaultType DEF TypeOK, Cancel, plan, group
<1>8. CASE Crash
  BY <1>8, FaultType DEF TypeOK, Crash, Exit, Result, plan, signals, group
<1> QED
  BY <1>1, <1>2, <1>3, <1>4, <1>5, <1>6, <1>7, <1>8

LEMMA StutterType == TypeOK /\ UNCHANGED vars => TypeOK'
BY DEF TypeOK, vars, plan, signals, group, counters

-----------------------------------------------------------------------------
(* The invariant                                                           *)

LEMMA InitIInv == Init => IInv
<1> SUFFICES ASSUME Init PROVE IInv
  OBVIOUS
<1>1. TypeOK
  BY InitType
<1>2. temp = [i \in Index |-> None]
  BY PullAssumption DEF Init, NoContents
<1> QED
  BY <1>1, <1>2
     DEF Init, IInv, Answering, Handover, SlotsInPlace, TempsOwned, ManifestLast,
         ExitZeroIsComplete, NoTempLeft, Working

LEMMA StartIInv == IInv /\ Start => IInv'
<1> SUFFICES ASSUME IInv, Start PROVE IInv'
  OBVIOUS
<1>1. TypeOK'
  BY StartType DEF IInv
<1>2. temp' = [i \in Index |-> None] /\ outcome' = [i \in Index |-> "nil"]
  BY PullAssumption DEF Start, NoContents
<1>3. /\ pc' = "list" /\ result' = "none" /\ selected' = {}
      /\ pending' = {} /\ running' = {}
  BY DEF Start
<1> QED
  BY <1>1, <1>2, <1>3
     DEF IInv, Answering, Handover, SlotsInPlace, TempsOwned, ManifestLast,
         ExitZeroIsComplete, NoTempLeft, Working

LEMMA ListAssetsIInv == IInv /\ ListAssets => IInv'
<1> SUFFICES ASSUME IInv, ListAssets PROVE IInv'
  OBVIOUS
<1>1. TypeOK'
  BY ListAssetsType DEF IInv
<1>2. /\ pc = "list" /\ pending = {} /\ running = {}
      /\ \A i \in Index : outcome[i] = "nil" /\ temp[i] = None
  BY DEF IInv, ListAssets, Handover, TempsOwned
<1>3. UNCHANGED <<temp, pending, running, outcome>>
  BY DEF ListAssets, group
<1>4. \/ /\ pc' = "batch" /\ result' = "none" /\ selected' # {}
      \/ /\ pc' = "idle" /\ result' \in {"notfound", "refused"}
  BY <1>2 DEF ListAssets, Exit, IInv, Answering
<1>5. \A i, j \in selected' : i # j => dir'
  <2>1. CASE dir' = DirTarget /\ selected' = Chosen
    BY <2>1 DEF DirTarget
  <2>2. CASE UNCHANGED <<selected, dir>>
    BY <2>2 DEF IInv, Answering
  <2> QED
    BY <2>1, <2>2 DEF ListAssets
<1> QED
  BY <1>1, <1>2, <1>3, <1>4, <1>5
     DEF IInv, Answering, Handover, SlotsInPlace, TempsOwned, ManifestLast,
         ExitZeroIsComplete, NoTempLeft, Working

\* A process that works goes on without touching files, temp files or slots, or
\* ends without claiming success.
LEMMA QuietStep ==
  ASSUME IInv, TypeOK', pc # "idle",
         UNCHANGED <<files, plan, temp, running, outcome, pending>>,
         \/ pc' = pc /\ result' = result
         \/ pc' = "idle" /\ result' \in {"failed", "interrupted"} /\ running = {}
         \/ pc' = "idle" /\ result' = "killed"
  PROVE  IInv'
<1>1. \A i : InPlace(i)' = InPlace(i) /\ Present(i)' = Present(i)
  BY SameFiles
<1>2. UNCHANGED dir
  BY SamePlan
<1>3. UNCHANGED <<selected, listed, opts, dir>>
  BY DEF plan
<1>4. Answering' /\ Handover' /\ ManifestLast'
  BY <1>2, <1>3 DEF IInv, Answering, Handover, ManifestLast, Working
<1>5. SlotsInPlace' /\ TempsOwned'
  BY <1>1, <1>3 DEF IInv, SlotsInPlace, TempsOwned
<1>6. ExitZeroIsComplete'
  BY DEF IInv, ExitZeroIsComplete, Answering
<1>7. NoTempLeft'
  BY DEF IInv, NoTempLeft, TempsOwned
<1> QED
  BY <1>4, <1>5, <1>6, <1>7 DEF IInv

LEMMA EnvironmentIInv ==
  ASSUME IInv, Republish \/ Cancel \/ Crash
  PROVE  IInv'
<1>1. TypeOK'
  BY RunType DEF IInv
<1>2. CASE Republish
  BY <1>1, <1>2, QuietStep DEF Republish, group
<1>3. CASE Cancel
  BY <1>1, <1>3, QuietStep DEF Cancel, group
<1>4. CASE Crash
  BY <1>1, <1>4, QuietStep DEF Crash, Exit, group
<1> QED
  BY <1>2, <1>3, <1>4

LEMMA BeginBatchIInv == IInv /\ BeginBatch => IInv'
<1> SUFFICES ASSUME IInv, BeginBatch PROVE IInv'
  OBVIOUS
<1>1. TypeOK'
  BY RunType DEF IInv
<1>2. /\ pc = "batch" /\ pending = {} /\ running = {}
      /\ \A i \in Index : outcome[i] = "nil"
  BY DEF IInv, BeginBatch, Handover
<1>3. CASE ctx
  BY <1>1, <1>2, <1>3, QuietStep DEF BeginBatch, Exit
<1>4. CASE ~ctx
  <2>1. /\ pc' = "open" /\ pending' = selected /\ result' = result
        /\ UNCHANGED <<files, plan, temp, running, outcome>>
    BY <1>4 DEF BeginBatch
  <2>2. \A i : InPlace(i)' = InPlace(i) /\ Present(i)' = Present(i)
    BY <2>1, SameFiles
  <2>3. UNCHANGED <<selected, listed, opts, dir>>
    BY <2>1 DEF plan
  <2>4. Answering' /\ ManifestLast'
    BY <1>2, <2>1, <2>3 DEF IInv, Answering, ManifestLast, Working
  <2>5. Handover'
    BY <1>2, <2>1, <2>3 DEF IInv, TypeOK, Handover
  <2>6. SlotsInPlace' /\ TempsOwned'
    BY <1>2, <2>1, <2>2, <2>3 DEF IInv, SlotsInPlace, TempsOwned
  <2>7. ExitZeroIsComplete' /\ NoTempLeft'
    BY <1>2, <2>1 DEF IInv, Answering, ExitZeroIsComplete, NoTempLeft
  <2> QED
    BY <1>1, <2>4, <2>5, <2>6, <2>7 DEF IInv
<1> QED
  BY <1>3, <1>4

LEMMA SpawnTaskIInv == IInv /\ SpawnTask => IInv'
<1> SUFFICES ASSUME IInv, SpawnTask PROVE IInv'
  OBVIOUS
<1>1. TypeOK'
  BY TaskType DEF IInv
<1>2. PICK i \in pending : Spawn(i, Concurrency)
  BY DEF SpawnTask
<1>3. /\ pc = "open" /\ pending' = pending \ {i} /\ running' = running \cup {i}
      /\ UNCHANGED <<files, plan, temp, outcome, pc, result>>
  BY <1>2 DEF SpawnTask, Spawn
<1>4. \A j : InPlace(j)' = InPlace(j) /\ Present(j)' = Present(j)
  BY <1>3, SameFiles
<1>5. UNCHANGED <<selected, listed, opts, dir>>
  BY <1>3 DEF plan
<1>6. Answering' /\ ManifestLast'
  BY <1>3, <1>5 DEF IInv, Answering, ManifestLast, Working
<1>7. Handover'
  BY <1>3, <1>5 DEF IInv, Handover
<1>8. SlotsInPlace' /\ TempsOwned'
  BY <1>3, <1>4, <1>5 DEF IInv, SlotsInPlace, TempsOwned
<1>9. ExitZeroIsComplete' /\ NoTempLeft'
  BY <1>3 DEF IInv, Answering, ExitZeroIsComplete, NoTempLeft
<1> QED
  BY <1>1, <1>6, <1>7, <1>8, <1>9 DEF IInv

\* Task i returns without having touched a file other than its own: what the
\* other tasks know stays true.
LEMMA ReturnStep ==
  ASSUME IInv, TypeOK', NEW i \in running, NEW o \in {"ok", "err"}, Return(i, o),
         pc = "open", UNCHANGED <<pc, result, plan>>,
         \A p \in Path : p # Dest(i) => files'[p] = files[p],
         \A j \in Index : j # i => temp'[j] = temp[j],
         temp'[i] = None,
         o = "ok" => InPlace(i)'
  PROVE  IInv'
<1>1. /\ running' = running \ {i} /\ pending' = pending
      /\ outcome' = [outcome EXCEPT ![i] = o]
  BY DEF Return
<1>2. i \in selected /\ selected \subseteq Index /\ TypeOK
  BY DEF IInv, Handover, TypeOK
<1>3. \A j : Dest(j)' = Dest(j)
  BY SamePlan
<1>4. UNCHANGED <<selected, listed, opts, dir>>
  BY DEF plan
<1>5. ASSUME NEW j \in selected, j # i
      PROVE  InPlace(j)' = InPlace(j) /\ Present(j)' = Present(j)
  <2>1. Dest(j) # Dest(i) /\ Dest(j) \in Path
    BY <1>2, <1>5, DestInjective, DestIsPath DEF IInv
  <2> QED
    BY <1>3, <1>4, <2>1 DEF InPlace, Present
<1>6. outcome \in [Index -> {"nil", "ok", "err"}]
  BY DEF IInv, TypeOK
<1>7. Answering' /\ ManifestLast'
  BY <1>4 DEF IInv, Answering, ManifestLast, Working
<1>8. Handover'
  BY <1>1, <1>2, <1>4, <1>6 DEF IInv, Handover
<1>9. SlotsInPlace'
  BY <1>1, <1>2, <1>4, <1>5, <1>6 DEF IInv, SlotsInPlace
<1>10. TempsOwned'
  <2> SUFFICES ASSUME NEW j \in Index, temp'[j] # None
               PROVE  j \in running' /\ ~Present(j)'
    BY DEF TempsOwned
  <2>1. j # i /\ temp[j] # None
    OBVIOUS
  <2>2. j \in running /\ ~Present(j)
    BY <2>1 DEF IInv, TempsOwned
  <2> QED
    BY <1>1, <1>5, <2>1, <2>2 DEF IInv, Handover
<1>11. ExitZeroIsComplete' /\ NoTempLeft'
  BY DEF IInv, Answering, ExitZeroIsComplete, NoTempLeft
<1> QED
  BY <1>7, <1>8, <1>9, <1>10, <1>11 DEF IInv

LEMMA SkipAssetIInv ==
  ASSUME IInv, NEW i \in Index, SkipAsset(i)
  PROVE  IInv'
<1>1. TypeOK'
  BY TaskType DEF IInv
<1>2. /\ i \in running /\ pc = "open" /\ temp[i] = None /\ Present(i)
      /\ Return(i, "ok") /\ UNCHANGED <<files, pc, result, plan, temp>>
  BY DEF SkipAsset
<1>3. InPlace(i)'
  BY <1>2, SameFiles DEF InPlace, Present
<1> QED
  BY <1>1, <1>2, <1>3, ReturnStep

LEMMA DownloadFailsIInv ==
  ASSUME IInv, NEW i \in Index, DownloadFails(i)
  PROVE  IInv'
<1>1. TypeOK'
  BY TaskType DEF IInv
<1>2. /\ i \in running /\ pc = "open" /\ temp[i] = None
      /\ Return(i, "err") /\ UNCHANGED <<files, pc, result, plan, temp>>
  BY DEF DownloadFails
<1> QED
  BY <1>1, <1>2, ReturnStep

LEMMA DiscardIInv ==
  ASSUME IInv, NEW i \in Index, Discard(i)
  PROVE  IInv'
<1>1. TypeOK'
  BY TaskType DEF IInv
<1>2. /\ i \in running /\ pc = "open" /\ temp' = [temp EXCEPT ![i] = None]
      /\ Return(i, "err") /\ UNCHANGED <<files, pc, result, plan>>
  BY DEF Discard
<1>3. temp \in [Index -> Bytes \cup {None, Torn}]
  BY DEF IInv, TypeOK
<1> QED
  BY <1>1, <1>2, <1>3, ReturnStep

\* What a rename does to the one path it writes.
LEMMA RenameEffect ==
  ASSUME IInv, NEW i \in Index, RenameIntoPlace(i)
  PROVE  /\ i \in selected /\ Dest(i) \in Path
         /\ files' = [files EXCEPT ![Dest(i)] = temp[i]]
         /\ files'[Dest(i)] = temp[i]
         /\ listed[i] \in {temp[i], Unhashed}
         /\ InPlace(i)'
<1>1. i \in selected
  BY DEF RenameIntoPlace, IInv, Handover
<1>2. Dest(i) \in Path /\ files \in [Path -> FileContent]
  BY DestIsPath DEF IInv, TypeOK
<1>3. /\ files' = [files EXCEPT ![Dest(i)] = temp[i]]
      /\ listed[i] \in {temp[i], Unhashed} /\ UNCHANGED plan
  BY DEF RenameIntoPlace, Verified
<1>4. Dest(i)' = Dest(i) /\ listed' = listed
  BY <1>3, SamePlan DEF plan
<1> QED
  BY <1>1, <1>2, <1>3, <1>4 DEF InPlace

LEMMA RenameIntoPlaceIInv ==
  ASSUME IInv, NEW i \in Index, RenameIntoPlace(i)
  PROVE  IInv'
<1>1. TypeOK'
  BY TaskType DEF IInv
<1>2. /\ i \in running /\ pc = "open" /\ temp' = [temp EXCEPT ![i] = None]
      /\ Return(i, "ok") /\ UNCHANGED <<pc, result, plan>>
  BY DEF RenameIntoPlace
<1>3. /\ temp \in [Index -> Bytes \cup {None, Torn}]
      /\ files \in [Path -> FileContent]
  BY DEF IInv, TypeOK
<1>4. \A p \in Path : p # Dest(i) => files'[p] = files[p]
  BY <1>3, RenameEffect
<1> QED
  BY <1>1, <1>2, <1>3, <1>4, RenameEffect, ReturnStep

LEMMA DownloadIInv ==
  ASSUME IInv, NEW i \in Index, Download(i)
  PROVE  IInv'
<1>1. TypeOK'
  BY TaskType DEF IInv
<1>2. /\ i \in running /\ pc = "open" /\ ~Present(i)
      /\ UNCHANGED <<files, pc, result, plan, pending, running, outcome>>
      /\ \A j \in Index : j # i => temp'[j] = temp[j]
  BY DEF Download, group, IInv, TypeOK
<1>3. \A j : InPlace(j)' = InPlace(j) /\ Present(j)' = Present(j)
  BY <1>2, SameFiles
<1>4. UNCHANGED <<selected, listed, opts, dir>>
  BY <1>2 DEF plan
<1>5. Answering' /\ Handover' /\ ManifestLast'
  BY <1>2, <1>4 DEF IInv, Answering, Handover, ManifestLast, Working
<1>6. SlotsInPlace' /\ TempsOwned'
  BY <1>2, <1>3, <1>4 DEF IInv, SlotsInPlace, TempsOwned
<1>7. ExitZeroIsComplete' /\ NoTempLeft'
  BY <1>2 DEF IInv, Answering, ExitZeroIsComplete, NoTempLeft
<1> QED
  BY <1>1, <1>5, <1>6, <1>7 DEF IInv

\* All slots are ok: everything is in place.
LEMMA CompleteWhenOk ==
  ASSUME IInv, pc # "idle", \A i \in selected : outcome[i] = "ok"
  PROVE  \A i \in selected : InPlace(i)
BY DEF IInv, SlotsInPlace, TypeOK

\* A batch whose tasks are back and did not fail has only ok slots.
LEMMA BatchOkIsComplete ==
  ASSUME IInv, pc = "open", Drained, BatchOk
  PROVE  \A i \in selected : outcome[i] = "ok"
BY DEF IInv, Handover, Drained, BatchOk, TypeOK

\* The process ends with success once all slots are ok.
LEMMA SuccessStep ==
  ASSUME IInv, TypeOK', pc \in Working, running = {}, pending = {},
         \A i \in selected : outcome[i] = "ok",
         UNCHANGED <<plan, temp, running, outcome, pending>>,
         \A i \in selected : files'[Dest(i)] = files[Dest(i)],
         pc' = "idle", result' = "pulled"
  PROVE  IInv'
<1>1. UNCHANGED <<selected, listed, opts, dir>>
  BY DEF plan
<1>2. \A i : Dest(i)' = Dest(i)
  BY SamePlan
<1>3. pc # "idle" /\ selected # {}
  BY DEF IInv, Answering, Working
<1>4. \A i \in selected : InPlace(i)
  BY <1>3, CompleteWhenOk
<1>5. ExitZeroIsComplete'
  BY <1>1, <1>2, <1>3, <1>4 DEF ExitZeroIsComplete, InPlace
<1>6. NoTempLeft'
  BY <1>3 DEF IInv, TempsOwned, NoTempLeft
<1>7. Answering' /\ ManifestLast' /\ SlotsInPlace' /\ TempsOwned'
  BY <1>1 DEF IInv, Answering, ManifestLast, SlotsInPlace, TempsOwned, Working
<1>8. Handover'
  BY DEF Handover
<1> QED
  BY <1>5, <1>6, <1>7, <1>8 DEF IInv

LEMMA BatchReturnedIInv == IInv /\ BatchReturned => IInv'
<1> SUFFICES ASSUME IInv, BatchReturned PROVE IInv'
  OBVIOUS
<1>1. TypeOK'
  BY RunType DEF IInv
<1>2. /\ pc = "open" /\ pending = {} /\ running = {} /\ Drained
      /\ UNCHANGED <<files, plan, temp, pending, running, outcome>>
  BY DEF BatchReturned, Drained, group
<1>3. CASE pc' = "idle" /\ result' \in {"interrupted", "failed"}
  BY <1>1, <1>2, <1>3, QuietStep
<1>4. CASE BatchOk /\ pc' = "idle" /\ result' = "pulled"
  BY <1>1, <1>2, <1>4, BatchOkIsComplete, SuccessStep DEF Working
<1>5. CASE BatchOk /\ dir /\ pc' = "manifest" /\ result' = result
  <2>1. \A i \in selected : outcome[i] = "ok"
    BY <1>2, <1>5, BatchOkIsComplete
  <2>2. dir' /\ \A i : InPlace(i)' = InPlace(i) /\ Present(i)' = Present(i)
    BY <1>2, <1>5, SameFiles, SamePlan
  <2>3. UNCHANGED <<selected, listed, opts, dir>>
    BY <1>2 DEF plan
  <2>4. Answering' /\ ManifestLast' /\ Handover'
    BY <1>2, <1>5, <2>1, <2>2, <2>3
       DEF IInv, Answering, ManifestLast, Handover, Working
  <2>5. SlotsInPlace' /\ TempsOwned'
    BY <1>2, <1>5, <2>2, <2>3 DEF IInv, SlotsInPlace, TempsOwned
  <2>6. ExitZeroIsComplete' /\ NoTempLeft'
    BY <1>2, <1>5 DEF IInv, Answering, ExitZeroIsComplete, NoTempLeft
  <2> QED
    BY <1>1, <2>4, <2>5, <2>6 DEF IInv
<1> QED
  BY <1>3, <1>4, <1>5 DEF BatchReturned, Exit

\* Beside a complete directory: the path of the manifest is nobody's.
LEMMA ManifestIsBeside ==
  ASSUME IInv, pc \in {"manifest", "write"}, ManifestPath \notin selected,
         NEW c, files' = [files EXCEPT ![ManifestPath] = c]
  PROVE  \A i \in selected : files'[Dest(i)] = files[Dest(i)]
<1>1. dir /\ selected \subseteq Index /\ files \in [Path -> FileContent]
  BY DEF IInv, ManifestLast, TypeOK
<1>2. \A i \in selected : Dest(i) # ManifestPath /\ Dest(i) \in Path
  BY <1>1 DEF Dest, Path
<1> QED
  BY <1>1, <1>2

LEMMA TruncateManifestIInv == IInv /\ TruncateManifest => IInv'
<1> SUFFICES ASSUME IInv, TruncateManifest PROVE IInv'
  OBVIOUS
<1>1. TypeOK'
  BY RunType DEF IInv
<1>2. /\ pc = "manifest" /\ pc' = "write" /\ result' = result
      /\ ManifestPath \notin selected /\ pending = {} /\ running = {}
      /\ files' = [files EXCEPT ![ManifestPath] = Torn]
      /\ UNCHANGED <<plan, temp, pending, running, outcome>>
      /\ \A i \in selected : outcome[i] = "ok"
  BY DEF TruncateManifest, NameTaken, group, IInv, Handover, ManifestLast
<1>3. \A i \in selected : files'[Dest(i)] = files[Dest(i)]
  BY <1>2, ManifestIsBeside
<1>4. UNCHANGED dir /\ \A i : Dest(i)' = Dest(i)
  BY <1>2, SamePlan
<1>5. UNCHANGED <<selected, listed, opts, dir>>
  BY <1>2 DEF plan
<1>6. Answering' /\ ManifestLast' /\ Handover'
  BY <1>2, <1>4, <1>5 DEF IInv, Answering, ManifestLast, Handover, Working
<1>7. SlotsInPlace'
  BY <1>2, <1>3, <1>4, <1>5 DEF IInv, SlotsInPlace, InPlace
<1>8. TempsOwned'
  BY <1>2 DEF IInv, TempsOwned
<1>9. ExitZeroIsComplete' /\ NoTempLeft'
  BY <1>2 DEF IInv, Answering, ExitZeroIsComplete, NoTempLeft
<1> QED
  BY <1>1, <1>6, <1>7, <1>8, <1>9 DEF IInv

LEMMA ManifestEndIInv ==
  ASSUME IInv, NoManifest \/ WriteManifest
  PROVE  IInv'
<1>1. TypeOK'
  BY RunType DEF IInv
<1>2. /\ pc \in {"manifest", "write"} /\ pending = {} /\ running = {}
      /\ \A i \in selected : outcome[i] = "ok"
  BY DEF NoManifest, WriteManifest, IInv, Handover, ManifestLast
<1>3. /\ pc' = "idle" /\ result' = "pulled"
      /\ UNCHANGED <<plan, temp, pending, running, outcome>>
  BY DEF NoManifest, WriteManifest, Exit, group
<1>4. \A i \in selected : files'[Dest(i)] = files[Dest(i)]
  BY <1>2, ManifestIsBeside DEF NoManifest, WriteManifest, IInv, ManifestLast
<1> QED
  BY <1>1, <1>2, <1>3, <1>4, SuccessStep DEF Working

LEMMA StutterIInv == IInv /\ UNCHANGED vars => IInv'
<1> SUFFICES ASSUME IInv, UNCHANGED vars PROVE IInv'
  OBVIOUS
<1>1. TypeOK'
  BY StutterType DEF IInv
<1>2. UNCHANGED <<files, plan, temp, running, outcome, pending, pc, result>>
  BY DEF vars, group
<1>3. CASE pc # "idle"
  BY <1>1, <1>2, <1>3, QuietStep
<1>4. CASE pc = "idle"
  <2>1. UNCHANGED dir /\ \A i : Dest(i)' = Dest(i)
    BY <1>2, SamePlan
  <2>2. UNCHANGED <<selected, listed, opts, dir>>
    BY <1>2 DEF plan
  <2> QED
    BY <1>1, <1>2, <1>4, <2>1, <2>2
       DEF IInv, Answering, Handover, SlotsInPlace, TempsOwned, ManifestLast,
           ExitZeroIsComplete, NoTempLeft, Working
<1> QED
  BY <1>3, <1>4

LEMMA NextIInv == IInv /\ [Next]_vars => IInv'
<1> SUFFICES ASSUME IInv, [Next]_vars PROVE IInv'
  OBVIOUS
<1>1. CASE Advance
  <2>1. CASE \E i \in Index : \/ SkipAsset(i) \/ Download(i) \/ DownloadFails(i)
                             \/ RenameIntoPlace(i) \/ Discard(i)
    BY <2>1, SkipAssetIInv, DownloadIInv, DownloadFailsIInv, RenameIntoPlaceIInv,
       DiscardIInv
  <2> QED
    BY <1>1, <2>1, ListAssetsIInv, BeginBatchIInv, SpawnTaskIInv,
       BatchReturnedIInv, TruncateManifestIInv, ManifestEndIInv
       DEF Advance
<1> QED
  BY <1>1, StartIInv, EnvironmentIInv, StutterIInv DEF Next

-----------------------------------------------------------------------------
(* Theorems                                                                *)

\* IInv is an invariant: at every step of a pull each slot of results, each
\* temp file and each file at a chosen path have to do with each other what
\* the parts of IInv say.
THEOREM InvariantHolds == Spec => []IInv
BY InitIInv, NextIInv, PTL DEF Spec

\* TypeOK: the variables of Pull keep their types.
THEOREM TypeCorrect == Spec => []TypeOK
<1>1. IInv => TypeOK
  BY DEF IInv
<1> QED
  BY <1>1, InvariantHolds, PTL

\* ExitZeroIsComplete: exit 0 means that every chosen asset is at its path with
\* the listed bytes.
THEOREM SuccessIsComplete == Spec => []ExitZeroIsComplete
<1>1. IInv => ExitZeroIsComplete
  BY DEF IInv
<1> QED
  BY <1>1, InvariantHolds, PTL

\* NoTempLeft: a pull that ends by itself leaves no temp file.
THEOREM TempsAreRemoved == Spec => []NoTempLeft
<1>1. IInv => NoTempLeft
  BY DEF IInv
<1> QED
  BY <1>1, InvariantHolds, PTL

\* A file that has the listed hash is left alone by each step of a process.
LEMMA KeptByStep ==
  ASSUME IInv, [Next]_vars, NEW i \in selected, Present(i), pc # "idle"
  PROVE  files'[Dest(i)] = files[Dest(i)] /\ temp'[i] = temp[i]
<1>1. i \in Index /\ temp \in [Index -> Bytes \cup {None, Torn}]
  BY DEF IInv, TypeOK
<1>2. temp[i] = None
  BY <1>1 DEF IInv, TempsOwned
<1>3. ASSUME NEW j \in Index, RenameIntoPlace(j)
      PROVE  files'[Dest(i)] = files[Dest(i)] /\ temp'[i] = temp[i]
  <2>1. j # i
    BY <1>2, <1>3 DEF RenameIntoPlace
  <2>2. Dest(i) # Dest(j) /\ Dest(i) \in Path
    BY <1>1, <1>3, <2>1, RenameEffect, DestInjective, DestIsPath DEF IInv
  <2>3. /\ files' = [files EXCEPT ![Dest(j)] = temp[j]]
        /\ temp' = [temp EXCEPT ![j] = None]
        /\ files \in [Path -> FileContent]
    BY <1>3 DEF RenameIntoPlace, IInv, TypeOK
  <2> QED
    BY <1>1, <2>1, <2>2, <2>3
<1>4. ASSUME NEW j \in Index, Download(j)
      PROVE  files'[Dest(i)] = files[Dest(i)] /\ temp'[i] = temp[i]
  BY <1>1, <1>4 DEF Download
<1>5. ASSUME NEW j \in Index, Discard(j)
      PROVE  files'[Dest(i)] = files[Dest(i)] /\ temp'[i] = temp[i]
  BY <1>1, <1>2, <1>5 DEF Discard
<1>6. CASE TruncateManifest
  BY <1>6, ManifestIsBeside DEF TruncateManifest, NameTaken
<1>7. CASE WriteManifest
  BY <1>7, ManifestIsBeside DEF WriteManifest, IInv, ManifestLast
<1>8. CASE UNCHANGED <<files, temp>>
  BY <1>8
<1>9. CASE Advance
  <2>1. CASE \E j \in Index : SkipAsset(j) \/ DownloadFails(j)
    BY <1>8, <2>1 DEF SkipAsset, DownloadFails
  <2>2. CASE ListAssets \/ BeginBatch \/ SpawnTask \/ BatchReturned \/ NoManifest
    BY <1>8, <2>2
       DEF ListAssets, BeginBatch, SpawnTask, BatchReturned, NoManifest
  <2> QED
    BY <1>3, <1>4, <1>5, <1>6, <1>7, <1>9, <2>1, <2>2 DEF Advance
<1>10. CASE Republish \/ Cancel \/ Crash \/ UNCHANGED vars
  BY <1>8, <1>10 DEF Republish, Cancel, Crash, vars
<1> QED
  BY <1>9, <1>10 DEF Next, Start

\* PresentIsKept: what is there already is neither fetched nor replaced.
THEOREM PresentStays == Spec => PresentIsKept
<1>1. IInv /\ [Next]_vars =>
        [\A i \in selected : Present(i) /\ pc # "idle" =>
           files'[Dest(i)] = files[Dest(i)] /\ temp'[i] = temp[i]]_vars
  BY KeptByStep
<1> QED
  BY <1>1, InvariantHolds, PTL DEF Spec, PresentIsKept

-----------------------------------------------------------------------------
(* Pull implements PullContract                                            *)

\* Every slot is ok: every request is met.
LEMMA AllMet ==
  ASSUME IInv, pc # "idle", \A i \in selected : outcome[i] = "ok"
  PROVE  Contract!AllInPlace
BY CompleteWhenOk DEF Contract!AllInPlace, Requests, InPlace

\* The end of a working process, in the contract's words.
LEMMA AnswerStep ==
  ASSUME pc \in Working, pc' = "idle", UNCHANGED <<files, plan>>,
         result' = "pulled" => Contract!AllInPlace
  PROVE  Contract!Answer
<1>1. Verdict = "open"
  BY DEF Verdict, Working
<1>2. Verdict' = IF result' = "pulled" THEN "ok" ELSE "closed"
  BY DEF Verdict
<1> QED
  BY <1>1, <1>2, SamePlan DEF Contract!Answer

LEMMA PlaceStep ==
  ASSUME IInv, NEW i \in Index, RenameIntoPlace(i)
  PROVE  Contract!Place
<1>1. /\ pc = "open" /\ UNCHANGED <<pc, result, plan>>
  BY DEF RenameIntoPlace
<1>2. Verdict = "open" /\ Verdict' = "open"
  BY <1>1 DEF Verdict
<1>3. [path |-> Dest(i), sha |-> listed[i]] \in Requests
  BY RenameEffect DEF Requests
<1> QED
  BY <1>1, <1>2, <1>3, RenameEffect, SamePlan DEF Contract!Place

LEMMA BesideStep ==
  ASSUME IInv, pc \in {"manifest", "write"}, ManifestPath \notin selected,
         NEW c, files' = [files EXCEPT ![ManifestPath] = c], UNCHANGED plan,
         pc' = "write" \/ (pc' = "idle" /\ result' = "pulled")
  PROVE  Contract!WriteBeside
<1>1. \A w \in Requests : files'[w.path] = files[w.path]
  <2>1. \A i \in selected : files'[Dest(i)] = files[Dest(i)]
    BY ManifestIsBeside
  <2> QED
    BY <2>1 DEF Requests
<1>2. Contract!AllInPlace
  BY AllMet DEF IInv, ManifestLast
<1>3. Verdict = "open" /\ Verdict' \in {"open", "ok"}
  BY DEF Verdict
<1> QED
  BY <1>1, <1>2, <1>3, SamePlan DEF Contract!WriteBeside

\* What the contract sees of a step that leaves the files and the plan alone
\* and stays on its side of the answer.
LEMMA UnseenStep ==
  ASSUME UNCHANGED <<files, plan>>,
         \/ UNCHANGED <<pc, result>>
         \/ pc \in Working /\ pc' \in Working
         \/ pc = "list" /\ pc' = "idle" /\ result' # "pulled"
  PROVE  UNCHANGED <<files, Requests, Verdict>>
BY SamePlan DEF Verdict, Working

LEMMA StepImplements ==
  ASSUME IInv, [Next]_vars
  PROVE  [Contract!Next]_<<files, Requests, Verdict>>
<1> USE DEF Contract!Next
<1>1. CASE Start
  <2>1. Verdict # "open" /\ Verdict' = "closed" /\ Requests' = {}
    BY <1>1 DEF Start, Verdict, Requests
  <2> QED
    BY <1>1, <2>1 DEF Start, Contract!Forget
<1>2. CASE ListAssets
  <2>1. CASE pc' = "batch"
    <3>1. Verdict = "closed" /\ Verdict' = "open"
      BY <1>2, <2>1 DEF ListAssets, Verdict
    <3> QED
      BY <1>2, <3>1 DEF ListAssets, Contract!Ask
  <2>2. CASE pc' # "batch"
    BY <1>2, <2>2, UnseenStep DEF ListAssets, Exit, plan
  <2> QED
    BY <2>1, <2>2
<1>3. CASE BeginBatch
  <2>1. CASE pc' = "idle"
    BY <1>3, <2>1, AnswerStep DEF BeginBatch, Exit, Working
  <2>2. CASE pc' = "open"
    BY <1>3, <2>2, UnseenStep DEF BeginBatch, Working
  <2> QED
    BY <1>3, <2>1, <2>2 DEF BeginBatch, Exit
<1>4. CASE \/ SpawnTask
           \/ \E i \in Index : SkipAsset(i) \/ Download(i) \/ DownloadFails(i) \/ Discard(i)
  BY <1>4, UnseenStep DEF SpawnTask, SkipAsset, Download, DownloadFails, Discard
<1>5. CASE \E i \in Index : RenameIntoPlace(i)
  BY <1>5, PlaceStep
<1>6. CASE BatchReturned
  <2>1. CASE pc' = "idle" /\ result' # "pulled"
    BY <1>6, <2>1, AnswerStep DEF BatchReturned, Working
  <2>2. CASE pc' = "idle" /\ BatchOk
    <3>1. Contract!AllInPlace
      BY <1>6, <2>2, BatchOkIsComplete, AllMet DEF BatchReturned
    <3> QED
      BY <1>6, <2>2, <3>1, AnswerStep DEF BatchReturned, Working
  <2>3. CASE pc' = "manifest"
    BY <1>6, <2>3, UnseenStep DEF BatchReturned, Working
  <2> QED
    BY <1>6, <2>1, <2>2, <2>3 DEF BatchReturned, Exit
<1>7. CASE TruncateManifest
  <2>1. Contract!WriteBeside
    BY <1>7, BesideStep DEF TruncateManifest, NameTaken
  <2> QED
    BY <2>1
<1>8. CASE NoManifest
  BY <1>8, AllMet, AnswerStep DEF NoManifest, Exit, IInv, ManifestLast, Working
<1>9. CASE WriteManifest
  <2>1. CASE files' = [files EXCEPT ![ManifestPath] = generated]
    BY <1>9, <2>1, BesideStep DEF WriteManifest, Exit, IInv, ManifestLast
  <2>2. CASE UNCHANGED files
    BY <1>9, <2>2, AllMet, AnswerStep
       DEF WriteManifest, Exit, IInv, ManifestLast, Working
  <2> QED
    BY <1>9, <2>1, <2>2 DEF WriteManifest
<1>10. CASE Republish \/ Cancel \/ UNCHANGED vars
  BY <1>10, UnseenStep DEF Republish, Cancel, vars
<1>11. CASE Crash
  <2>1. CASE pc = "list"
    BY <1>11, <2>1, UnseenStep DEF Crash, Exit
  <2>2. CASE pc # "list"
    BY <1>11, <2>2, AnswerStep DEF Crash, Exit, Working, IInv, TypeOK
  <2> QED
    BY <2>1, <2>2
<1> QED
  BY <1>1, <1>2, <1>3, <1>4, <1>5, <1>6, <1>7, <1>8, <1>9, <1>10, <1>11
     DEF Next, Advance

\* ImplementsContract: whatever fails and whenever, the destination changes as
\* PullContract says, one whole file at a time, and success is only claimed
\* for a complete set.
THEOREM Refinement == Spec => ImplementsContract
<1>1. Init => Contract!Init
  BY DEF Init, Contract!Init, Requests, Verdict
<1> QED
  BY <1>1, StepImplements, InvariantHolds, PTL
     DEF Spec, ImplementsContract, Contract!Spec
=============================================================================
