-------------------------------- MODULE Pull --------------------------------
(***************************************************************************)
(* "cob pull <coordinates | manifest>[:names] [destination]" to one        *)
(* destination, a directory or a file, run after run: the listing, choice  *)
(* of the assets and of their paths, one task per asset through            *)
(* RunConcurrent (skip by hash, or download to a temp file, compare,       *)
(* rename), the verdict, and the manifest written beside a whole package.  *)
(* While a pull works, the version may be removed and published again with *)
(* other assets.                                                           *)
(*                                                                         *)
(* Asset i is the i-th name of a listing; cob-provenance.json is one more  *)
(* asset here, since pull downloads it like the others.  A version without *)
(* assets is one that is not there.  Nobody else writes to the             *)
(* destination.                                                            *)
(***************************************************************************)
EXTENDS CodeArtifact, FanOut

CONSTANTS
  Versions,     \* what a repository may hold for a version somebody pulls
  Hashless,     \* assets listed without a SHA-256
  Torn,         \* the content of a file cut short, or of a file cob never saw
  Unhashed,     \* the expected hash of an asset listed without one
  Single,       \* the destination itself, as the path of a file
  ManifestPath, \* <destination>/cob-manifest.yaml, possibly an asset's path
  Filters,      \* the sets of names an inline filter may have
  Declarations, \* the assets a manifest SOURCE may declare; {}: coordinates
  Concurrency,  \* --concurrency
  MaxRuns,      \* bound: how often pull is run
  MaxFaults,    \* bound: how many failures, cancellations and deaths
  MaxChanges    \* bound: how often the version changes under a run

ASSUME PullAssumption ==
  /\ Asset = Index
  /\ Versions \subseteq [assets : Contents, doc : SUBSET Index]
  /\ Hashless \subseteq Index
  /\ Torn \notin Bytes \cup {None}
  /\ Unhashed \notin Bytes \cup {None, Torn}
  /\ Single \notin Index \cup {ManifestPath}
  /\ Filters \subseteq SUBSET Index
  /\ Declarations \subseteq SUBSET Index
  /\ Concurrency \in Int
  /\ MaxRuns \in Nat
  /\ MaxFaults \in Nat
  /\ MaxChanges \in Nat

\* The paths pull may write: one per asset below the destination, one for the
\* manifest there, and the destination itself.
Path == Index \cup {Single, ManifestPath}

\* What can be at a path.  A generated manifest is the set of its sources.
FileContent == Bytes \cup {None, Torn} \cup SUBSET Index

VARIABLES
  remote,       \* what CodeArtifact holds: every asset, the document's assets
  files,        \* what is at the destination and below it
  dir,          \* TRUE if the destination is a directory
  pc,           \* where Run is; "idle" between two runs
  result,       \* how the latest run ended
  opts,         \* what it was asked for
  listed,       \* AssetInfo.SHA256 of every asset FetchAssetInfo returned
  selected,     \* the assets selectAssets chose
  temp,         \* the temp file of every task, renamed or removed at its end
  generated,    \* the sources of the manifest being written
  ctx,          \* TRUE once the run's context is cancelled
  interrupted,  \* out.Interrupted(): the live view took the Ctrl-C
  runs, faults, changes

group == <<pending, running, outcome, gctx>>
signals == <<ctx, interrupted>>
counters == <<runs, faults, changes>>
plan == <<opts, listed, selected, dir>>
vars == <<remote, files, pc, result, plan, temp, generated, signals, group,
          counters>>

\* slash: the destination is given with a trailing "/".  filtered: there is an
\* inline filter, of the names "names" (none if it is only blanks).
Options == [slash : BOOLEAN, filtered : BOOLEAN, names : SUBSET Index,
            declared : SUBSET Index]

\* "pulled": exit 0.  "refused", "failed": 1.  "notfound": 2.  "interrupted":
\* 130.  "killed": the process died.
Result == {"none", "pulled", "refused", "failed", "notfound", "interrupted",
           "killed"}

NoContents == [a \in Asset |-> None]

TypeOK ==
  /\ remote \in [assets : Contents, doc : SUBSET Index]
  /\ files \in [Path -> FileContent]
  /\ dir \in BOOLEAN
  /\ pc \in {"idle", "list", "batch", "open", "manifest", "write"}
  /\ result \in Result
  /\ opts \in Options
  /\ listed \in [Asset -> Bytes \cup {None, Unhashed}]
  /\ selected \in SUBSET Index
  /\ temp \in [Index -> Bytes \cup {None, Torn}]
  /\ generated \in SUBSET Index
  /\ ctx \in BOOLEAN
  /\ interrupted \in BOOLEAN
  /\ pending \in SUBSET Index
  /\ running \in SUBSET Index
  /\ outcome \in [Index -> {"nil", "ok", "err"}]
  /\ gctx \in BOOLEAN
  /\ runs \in 0 .. MaxRuns
  /\ faults \in 0 .. MaxFaults
  /\ changes \in 0 .. MaxChanges

Init ==
  /\ remote \in Versions
  /\ dir \in BOOLEAN
  /\ files \in [Path -> {None, Torn}]
  /\ \A p \in Path : files[p] # None => (dir <=> p # Single)
  /\ pc = "idle"
  /\ result = "none"
  /\ opts = [slash |-> FALSE, filtered |-> FALSE, names |-> {}, declared |-> {}]
  /\ listed = NoContents
  /\ selected = {}
  /\ temp = NoContents
  /\ generated = {}
  /\ ctx = FALSE
  /\ interrupted = FALSE
  /\ pending = {}
  /\ running = {}
  /\ outcome = [i \in Index |-> "nil"]
  /\ gctx = FALSE
  /\ runs = 0
  /\ faults = 0
  /\ changes = 0

-----------------------------------------------------------------------------
(* Helpers                                                                 *)

Fault ==
  /\ faults < MaxFaults
  /\ faults' = faults + 1

\* An error that the context or the state explains is not a fault of its own.
Excused(explained) == IF explained THEN UNCHANGED faults ELSE Fault

Exit(r) ==
  /\ pc' = "idle"
  /\ result' = r

\* SafeJoin(outputPath, name), or the destination itself.  A run that wants a
\* directory has one once it has listed, and no other run has one.
Dest(i) == IF dir THEN i ELSE Single

\* The hash asset i is to have is known and its file has it.
Present(i) == listed[i] \in Bytes /\ files[Dest(i)] = listed[i]

-----------------------------------------------------------------------------
(* The listing                                                             *)

\* A new process, asked for this version or another one.  The temp files of a
\* process that died stay where they are: nobody knows their names.
Start ==
  /\ pc = "idle"
  /\ runs < MaxRuns
  /\ runs' = runs + 1
  /\ remote' \in Versions
  /\ \E slash, filtered \in BOOLEAN, names \in Filters, declared \in Declarations :
       /\ ~filtered => names = {}
       /\ filtered => declared = {}
       /\ opts' = [slash |-> slash, filtered |-> filtered, names |-> names,
                   declared |-> declared]
  /\ pc' = "list"
  /\ result' = "none"
  /\ listed' = NoContents
  /\ selected' = {}
  /\ temp' = NoContents
  /\ generated' = {}
  /\ ctx' = FALSE
  /\ interrupted' = FALSE
  /\ pending' = {}
  /\ running' = {}
  /\ outcome' = [i \in Index |-> "nil"]
  /\ gctx' = FALSE
  /\ UNCHANGED <<files, dir, faults, changes>>

\* FetchAssetInfo: the names and their hashes at this moment.
Listing ==
  [i \in Asset |-> IF remote.assets[i] # None /\ i \in Hashless THEN Unhashed
                   ELSE remote.assets[i]]

\* selectAssets: without a name to look for, everything.
Chosen ==
  {i \in Index : remote.assets[i] # None /\ (opts.names = {} \/ i \in opts.names)}

\* dirTarget: more than one asset, a trailing slash or an existing directory.
DirTarget == opts.slash \/ dir \/ \E i, j \in Chosen : i # j

\* MkdirAll cannot make a directory of a file, one that an earlier pull of a
\* single asset left there for example.
FileInTheWay == DirTarget /\ files[Single] # None

\* The destination directory is made here; the live view starts.
ListAssets ==
  /\ pc = "list"
  /\ \/ /\ ~ctx
        /\ Chosen # {}
        /\ ~FileInTheWay
        /\ listed' = Listing
        /\ selected' = Chosen
        /\ dir' = DirTarget
        /\ pc' = "batch"
        /\ UNCHANGED <<result, faults>>
     \/ /\ ~ctx
        /\ Chosen = {}
        /\ Exit("notfound")
        /\ UNCHANGED <<listed, selected, dir, faults>>
     \/ /\ Excused(ctx \/ (Chosen # {} /\ FileInTheWay))
        /\ Exit("refused")
        /\ UNCHANGED <<listed, selected, dir>>
  /\ UNCHANGED <<remote, files, opts, temp, generated, signals, group, runs,
                 changes>>

-----------------------------------------------------------------------------
(* The tasks                                                               *)

\* RunConcurrent looks at the context before it spawns anything.
BeginBatch ==
  /\ pc = "batch"
  /\ \/ ctx /\ Exit(IF interrupted THEN "interrupted" ELSE "failed")
        /\ UNCHANGED pending
     \/ ~ctx /\ pc' = "open" /\ pending' = selected /\ UNCHANGED result
  /\ UNCHANGED <<remote, files, plan, temp, generated, signals, running,
                 outcome, gctx, counters>>

SpawnTask ==
  /\ pc = "open"
  /\ \E i \in pending : Spawn(i, Concurrency)
  /\ UNCHANGED <<remote, files, pc, result, plan, temp, generated, signals,
                 counters>>

\* The file is there with the listed hash.  Nobody asks the context.
SkipAsset(i) ==
  /\ pc = "open"
  /\ i \in running
  /\ temp[i] = None
  /\ Present(i)
  /\ Return(i, "ok")
  /\ UNCHANGED <<remote, files, pc, result, plan, temp, generated, signals,
                 counters>>

\* GetPackageVersionAsset and the copy to the temp file.  The bytes are those
\* the version has now; the transfer may end early without an error.
Download(i) ==
  /\ pc = "open"
  /\ i \in running
  /\ temp[i] = None
  /\ ~Present(i)
  /\ ~(ctx \/ gctx)
  /\ remote.assets[i] # None
  /\ \/ temp' = [temp EXCEPT ![i] = remote.assets[i]] /\ UNCHANGED faults
     \/ temp' = [temp EXCEPT ![i] = Torn] /\ Fault
  /\ UNCHANGED <<remote, files, pc, result, plan, generated, signals, group,
                 runs, changes>>

\* The asset is gone, the call, SafeJoin, the directory or the copy fails; a
\* temp file that was made is removed.
DownloadFails(i) ==
  /\ pc = "open"
  /\ i \in running
  /\ temp[i] = None
  /\ Excused(~Present(i) /\ (ctx \/ gctx \/ remote.assets[i] = None))
  /\ Return(i, "err")
  /\ UNCHANGED <<remote, files, pc, result, plan, temp, generated, signals,
                 runs, changes>>

\* Mutant of Verified: the hash is not compared.
Unverified(i) == TRUE

\* Mutant of Verified: an asset listed without a hash matches nothing.
VerifiedStrictly(i) == listed[i] = temp[i]

\* The bytes hashed on the way are the listed ones, if a hash was listed.
Verified(i) == listed[i] \in {temp[i], Unhashed}

RenameIntoPlace(i) ==
  /\ pc = "open"
  /\ i \in running
  /\ temp[i] # None
  /\ Verified(i)
  /\ files' = [files EXCEPT ![Dest(i)] = temp[i]]
  /\ temp' = [temp EXCEPT ![i] = None]
  /\ Return(i, "ok")
  /\ UNCHANGED <<remote, pc, result, plan, generated, signals, counters>>

\* Mutant of Discard: the temp file stays when its hash is wrong.
DiscardForgotten(i) ==
  /\ pc = "open"
  /\ i \in running
  /\ temp[i] # None
  /\ \/ ~Verified(i) /\ UNCHANGED <<temp, faults>>
     \/ Verified(i) /\ Fault /\ temp' = [temp EXCEPT ![i] = None]
  /\ Return(i, "err")
  /\ UNCHANGED <<remote, files, pc, result, plan, generated, signals, runs,
                 changes>>

\* Another hash than the listed one, or the rename fails: the temp file goes.
Discard(i) ==
  /\ pc = "open"
  /\ i \in running
  /\ temp[i] # None
  /\ IF Verified(i) THEN Fault ELSE UNCHANGED faults
  /\ temp' = [temp EXCEPT ![i] = None]
  /\ Return(i, "err")
  /\ UNCHANGED <<remote, files, pc, result, plan, generated, signals, runs,
                 changes>>

\* Mutant of BatchOk: a batch is good if something arrived.
SomethingArrived == \E i \in selected : outcome[i] = "ok"

\* The ok of RunConcurrent.
BatchOk == \A i \in selected : outcome[i] # "err"

\* A Ctrl-C the live view took decides before the verdict does.
BatchReturned ==
  /\ pc = "open"
  /\ Drained
  /\ \/ interrupted /\ Exit("interrupted")
     \/ ~interrupted /\ ~BatchOk /\ Exit("failed")
     \/ ~interrupted /\ BatchOk /\ (opts.filtered \/ ~dir) /\ Exit("pulled")
     \/ ~interrupted /\ BatchOk /\ ~opts.filtered /\ dir
        /\ pc' = "manifest" /\ UNCHANGED result
  /\ UNCHANGED <<remote, files, plan, temp, generated, signals, group, counters>>

-----------------------------------------------------------------------------
(* The generated manifest                                                  *)

\* ManifestYAMLFor: the assets of the document, else those of a new listing.
Sources ==
  IF remote.doc # {} THEN remote.doc
  ELSE {i \in Index : remote.assets[i] # None}

\* Mutant of NameTaken: an asset with the name of the manifest is overlooked.
NameTakenUnseen == FALSE

\* An asset of the package has the name cob-manifest.yaml.
NameTaken == ManifestPath \in selected

\* The manifest is made up, and os.WriteFile empties its file.
TruncateManifest ==
  /\ pc = "manifest"
  /\ ~NameTaken
  /\ ~ctx
  /\ Sources # {}
  /\ generated' = Sources
  /\ files' = [files EXCEPT ![ManifestPath] = Torn]
  /\ pc' = "write"
  /\ UNCHANGED <<remote, result, plan, temp, signals, group, counters>>

\* No manifest this time: only a warning.
NoManifest ==
  /\ pc = "manifest"
  /\ Excused(NameTaken \/ ctx \/ Sources = {})
  /\ Exit("pulled")
  /\ UNCHANGED <<remote, files, plan, temp, generated, signals, group, runs,
                 changes>>

\* The write fails half way at worst: only a warning.
WriteManifest ==
  /\ pc = "write"
  /\ \/ files' = [files EXCEPT ![ManifestPath] = generated] /\ UNCHANGED faults
     \/ Fault /\ UNCHANGED files
  /\ Exit("pulled")
  /\ UNCHANGED <<remote, plan, temp, generated, signals, group, runs, changes>>

-----------------------------------------------------------------------------
(* The environment                                                         *)

\* The version is removed, or removed and published again, or filled further.
Republish ==
  /\ pc # "idle"
  /\ changes < MaxChanges
  /\ changes' = changes + 1
  /\ remote' \in Versions \ {remote}
  /\ UNCHANGED <<files, pc, result, plan, temp, generated, signals, group, runs,
                 faults>>

\* A signal or the deadline; or a Ctrl-C of the live view, up since the
\* listing.
Cancel ==
  /\ pc # "idle"
  /\ ~ctx
  /\ Fault
  /\ ctx' = TRUE
  /\ \/ interrupted' = FALSE
     \/ interrupted' = TRUE /\ pc # "list"
  /\ UNCHANGED <<remote, files, pc, result, plan, temp, generated, group, runs,
                 changes>>

\* The process dies: what was renamed is in place, temp files stay.
Crash ==
  /\ pc # "idle"
  /\ Fault
  /\ Exit("killed")
  /\ UNCHANGED <<remote, files, plan, temp, generated, signals, group, runs,
                 changes>>

\* The steps the process takes by itself.
Advance ==
  \/ ListAssets
  \/ BeginBatch
  \/ SpawnTask
  \/ \E i \in Index : SkipAsset(i)
  \/ \E i \in Index : Download(i)
  \/ \E i \in Index : DownloadFails(i)
  \/ \E i \in Index : RenameIntoPlace(i)
  \/ \E i \in Index : Discard(i)
  \/ BatchReturned
  \/ TruncateManifest
  \/ NoManifest
  \/ WriteManifest

Next ==
  \/ Start
  \/ Advance
  \/ Republish
  \/ Cancel
  \/ Crash

Spec == Init /\ [][Next]_vars

\* Go schedules the process and its goroutines, and every call returns.
FairSpec == Spec /\ WF_vars(Advance)

-----------------------------------------------------------------------------
(* Properties                                                              *)

\* "cob pull && deploy" (pull.go:336): exit 0 means that every asset chosen is
\* at its path with the bytes the listing promised, although the version may
\* have been replaced meanwhile and a manifest was written beside them.
ExitZeroIsComplete ==
  result = "pulled" =>
    /\ selected # {}
    /\ \A i \in selected : listed[i] \in {files[Dest(i)], Unhashed}

\* No pull that ends by itself leaves a temp file behind, whatever failed.
NoTempLeft ==
  pc = "idle" /\ result # "killed" => \A i \in Index : temp[i] = None

\* A pull after an interrupted one does not fetch, or replace, what is there
\* already with the listed hash (README.md:120 and the hint at pull.go:327).
PresentIsKept ==
  [][\A i \in selected : Present(i) /\ pc # "idle" =>
       files'[Dest(i)] = files[Dest(i)] /\ temp'[i] = temp[i]]_vars

\* What the user of the destination sees.
Requests == {[path |-> Dest(i), sha |-> listed[i]] : i \in selected}
Verdict ==
  CASE pc \in {"batch", "open", "manifest", "write"} -> "open"
    [] pc = "idle" /\ result = "pulled" -> "ok"
    [] OTHER -> "closed"
Contract == INSTANCE PullContract WITH wanted <- Requests, verdict <- Verdict
ImplementsContract == Contract!Spec

\* Every pull ends.
PullTerminates == pc = "list" ~> pc = "idle"

\* Once nothing goes wrong any more and the version is left alone, one pull of
\* a version that is there succeeds, whatever earlier ones left behind, except
\* that a file at the destination is never replaced by a directory: then no
\* later pull of several assets to it can succeed (pull.go:232-241).
PullConverges ==
  (/\ pc = "list" /\ opts.names = {} /\ ~ctx /\ faults = MaxFaults
   /\ changes = MaxChanges /\ (\E i \in Index : remote.assets[i] # None)
   /\ ~FileInTheWay)
  ~> result = "pulled"

\* pull.go:38 and README.md:111: a manifest SOURCE pulls every asset the
\* manifest declares.
PullsWhatIsDeclared ==
  result = "pulled" => opts.declared \subseteq selected
=============================================================================
