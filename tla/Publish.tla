------------------------------ MODULE Publish ------------------------------
(***************************************************************************)
(* "cob publish <manifest> [--resume | --force]" against one version, run  *)
(* after run: the gate on the version's status, the prompt, the delete of  *)
(* --force, the first upload made alone, the rest through RunConcurrent,   *)
(* and the provenance document that is sent last and flips the version to  *)
(* Published.  Calls fail, answers get lost, the context is cancelled and  *)
(* the process dies, each at any step.                                     *)
(*                                                                         *)
(* Asset i is source i of a manifest: the name is the file name of the     *)
(* source, and two sources may not share one.  A source's content belongs  *)
(* to somebody else and may change at any time, so a read of it yields any *)
(* member of Bytes.  A call's effect, if it has one, comes before its      *)
(* answer or its error; a death leaves any subset of the calls in flight   *)
(* carried out.  No other cob process works on this version.               *)
(***************************************************************************)
EXTENDS CodeArtifact, FanOut

CONSTANTS
  Pinned,       \* sources whose Open remembers which object it read (s3://)
  Manifests,    \* the sets of sources a manifest on disk may list
  Concurrency,  \* --concurrency
  MaxRuns,      \* bound: how often publish is run
  MaxFaults     \* bound: how many failures, cancellations and deaths

\* The recorded hash and the recorded origin of every asset: the origin is
\* named by the content it identifies.
Documents == [sha : Contents, origin : Contents]

ASSUME PublishAssumption ==
  /\ Asset = Index
  /\ None \notin Documents
  /\ Pinned \subseteq Index
  /\ Manifests \subseteq (SUBSET Index) \ {{}}
  /\ Concurrency \in Int
  /\ MaxRuns \in Nat
  /\ MaxFaults \in Nat

VARIABLES
  version,      \* what CodeArtifact holds for the version
  pc,           \* where Run is; "idle" between two runs
  result,       \* how the latest run ended
  opts,         \* its flags
  manifest,     \* the sources of its manifest
  seen,         \* the status VersionStatus returned to it
  present,      \* the assets gatePublish listed, with their hashes
  spill,        \* what each upload streamed to its temp file (and hashed)
  built,        \* the provenance document being sent
  ctx,          \* TRUE once the run's context is cancelled
  interrupted,  \* out.Interrupted(): the live view took the Ctrl-C
  runs,         \* runs started so far
  faults        \* faults so far

group == <<pending, running, outcome, gctx>>
flags == <<opts, manifest>>
signals == <<ctx, interrupted>>
vars == <<version, pc, result, flags, seen, present, spill, built, signals,
          group, runs, faults>>

Options == [resume : BOOLEAN, force : BOOLEAN, dry : BOOLEAN, yes : BOOLEAN]

Step == {"idle", "status", "gate", "prompt", "delete", "first", "rest",
         "finalize", "commit"}

\* "refused", "conflict", "undeleted", "failed", "unfinalized", "unverified":
\* exit 1, but for "conflict" (3).  "interrupted": exit 130.  "published",
\* "aborted", "verified": exit 0.  "killed": the process died.
Result == {"none", "published", "aborted", "verified", "refused", "conflict",
           "undeleted", "failed", "interrupted", "unfinalized", "unverified",
           "killed"}

NoContents == [a \in Asset |-> None]

TypeOK ==
  /\ version \in VersionsWith(Documents)
  /\ pc \in Step
  /\ result \in Result
  /\ opts \in Options
  /\ manifest \in SUBSET Index
  /\ seen \in Status
  /\ present \in Contents
  /\ spill \in Contents
  /\ built \in Documents \cup {None}
  /\ ctx \in BOOLEAN
  /\ interrupted \in BOOLEAN
  /\ pending \in SUBSET Index
  /\ running \in SUBSET Index
  /\ outcome \in [Index -> {"nil", "ok", "err", "skip"}]
  /\ gctx \in BOOLEAN
  /\ runs \in 0 .. MaxRuns
  /\ faults \in 0 .. MaxFaults

Init ==
  /\ version = AbsentVersion
  /\ pc = "idle"
  /\ result = "none"
  /\ opts = [resume |-> FALSE, force |-> FALSE, dry |-> FALSE, yes |-> FALSE]
  /\ manifest = {}
  /\ seen = "Absent"
  /\ present = NoContents
  /\ spill = NoContents
  /\ built = None
  /\ ctx = FALSE
  /\ interrupted = FALSE
  /\ pending = {}
  /\ running = {}
  /\ outcome = [i \in Index |-> "nil"]
  /\ gctx = FALSE
  /\ runs = 0
  /\ faults = 0

-----------------------------------------------------------------------------
(* Helpers                                                                 *)

\* Something goes wrong that a later attempt need not meet again.
Fault ==
  /\ faults < MaxFaults
  /\ faults' = faults + 1

\* An error a cancelled context explains is not a fault of its own.
Excused(cancelled) == IF cancelled THEN UNCHANGED faults ELSE Fault

Exit(r) ==
  /\ pc' = "idle"
  /\ result' = r

\* What a task sees of its context: errgroup derives its own from the run's.
TaskCancelled == ctx \/ (pc = "rest" /\ gctx)

-----------------------------------------------------------------------------
(* Before the first write                                                  *)

\* A new process: everything it remembers is fresh.
Start ==
  /\ pc = "idle"
  /\ runs < MaxRuns
  /\ runs' = runs + 1
  /\ opts' \in Options
  /\ manifest' \in Manifests
  /\ IF opts'.resume /\ opts'.force
     THEN Exit("refused")
     ELSE pc' = "status" /\ result' = "none"
  /\ seen' = "Absent"
  /\ present' = NoContents
  /\ spill' = NoContents
  /\ built' = None
  /\ ctx' = FALSE
  /\ interrupted' = FALSE
  /\ pending' = {}
  /\ running' = {}
  /\ outcome' = [i \in Index |-> "nil"]
  /\ gctx' = FALSE
  /\ UNCHANGED <<version, faults>>

\* registry.VersionStatus
VersionStatus ==
  /\ pc = "status"
  /\ \/ /\ ~ctx
        /\ seen' = version.status
        /\ pc' = "gate"
        /\ UNCHANGED <<result, faults>>
     \/ /\ Excused(ctx)
        /\ Exit("refused")
        /\ UNCHANGED seen
  /\ UNCHANGED <<version, flags, present, spill, built, signals, group, runs>>

\* runDryRun: every source is resolved, nothing is written.
DryRun ==
  /\ pc = "gate"
  /\ opts.dry
  /\ \/ Exit("verified") /\ ~ctx /\ UNCHANGED faults
     \/ Exit("unverified") /\ Excused(ctx)
  /\ UNCHANGED <<version, flags, seen, present, spill, built, signals, group,
                 runs>>

\* Mutant of GateRefuses: --resume takes the version whatever its status.
GateRefusesAbsentOnly ==
  \/ opts.resume /\ seen = "Absent"
  \/ ~opts.resume /\ ~opts.force /\ seen # "Absent"

\* Mutant of GateRefuses: --resume does not widen what is let through.
GateRefusesResume ==
  \/ opts.resume /\ seen # "Absent"
  \/ ~opts.force /\ seen # "Absent"

\* The version's status is not one these flags may go on from.
GateRefuses ==
  \/ opts.resume /\ seen # "Unfinished"
  \/ ~opts.resume /\ ~opts.force /\ seen # "Absent"

\* Mutant of Listing: --resume forgets what is already there.
ListingOfNothing == NoContents

\* Mutant of Listing: the names are listed, the hashes left empty.
ListingUnhashed ==
  [a \in Asset |-> IF version.assets[a] = None THEN None ELSE "unhashed"]

\* The assets a resume may skip.
Listing == IF opts.resume THEN version.assets ELSE NoContents

\* gatePublish: refuse, or list what a resume may skip.
GatePublish ==
  /\ pc = "gate"
  /\ ~opts.dry
  /\ \/ /\ GateRefuses
        /\ Exit(IF opts.resume THEN "refused" ELSE "conflict")
        /\ UNCHANGED <<present, faults>>
     \/ /\ ~GateRefuses
        /\ opts.resume => ~ctx
        /\ present' = Listing
        /\ pc' = "prompt"
        /\ UNCHANGED <<result, faults>>
     \/ /\ ~GateRefuses
        /\ opts.resume
        /\ Excused(ctx)
        /\ Exit("refused")
        /\ UNCHANGED present
  /\ UNCHANGED <<version, flags, seen, spill, built, signals, group, runs>>

\* ConfirmAction: --yes does not look at the context; a prompt ends with an
\* answer or with the context, and without a terminal it is refused.
ConfirmAction ==
  /\ pc = "prompt"
  /\ \/ pc' = "delete" /\ UNCHANGED result
     \/ ~opts.yes /\ Exit("aborted")
     \/ ~opts.yes /\ Exit("refused")
  /\ UNCHANGED <<version, flags, seen, present, spill, built, signals, group,
                 runs, faults>>

-----------------------------------------------------------------------------
(* The uploads                                                             *)

\* What a call that writes may come to: carried out and answered; carried out
\* but the answer is an error or never arrives; without effect.
CallOutcome == {"done", "lost", "failed"}

Skipped == {i \in manifest : present[i] # None}
Todos == manifest \ Skipped

\* The slots of the skipped assets are filled in, and of the others the first
\* is uploaded alone: the call that creates the version must not be raced.
BeginUploads ==
  /\ outcome' = [i \in Index |-> IF i \in Skipped THEN "skip" ELSE "nil"]
  /\ running' = {i \in Todos : NextUp(i, Todos)}
  /\ pending' = {i \in Todos : ~NextUp(i, Todos)}
  /\ gctx' = FALSE
  /\ pc' = IF Todos = {} THEN "finalize" ELSE "first"

\* DeletePackageVersions answers 200 even when it did not delete: mutant of
\* DeleteAccepted, the per-version outcome is not looked at.
DeleteAcceptedUnread(o) == o \in {"done", "failed"}

\* DeleteVersion returned nil.
DeleteAccepted(o) == o = "done"

\* --force: the version goes before the first upload.
DeleteVersion ==
  /\ pc = "delete"
  /\ opts.force
  /\ seen # "Absent"
  /\ \E o \in CallOutcome :
       /\ version' = IF o = "failed" THEN version ELSE AbsentVersion
       /\ IF o = "done" THEN ~ctx /\ UNCHANGED faults ELSE Excused(ctx)
       /\ IF DeleteAccepted(o)
          THEN BeginUploads /\ UNCHANGED result
          ELSE Exit("undeleted") /\ UNCHANGED group
  /\ UNCHANGED <<flags, seen, present, spill, built, signals, runs>>

NothingToDelete ==
  /\ pc = "delete"
  /\ ~(opts.force /\ seen # "Absent")
  /\ BeginUploads
  /\ UNCHANGED <<version, result, flags, seen, present, spill, built, signals,
                 runs, faults>>

Uploading == pc \in {"first", "rest"}

\* PublishAsset, up to the temp file: Resolve, Open, spillToTemp.
ReadSource(i) ==
  /\ Uploading
  /\ i \in running
  /\ spill[i] = None
  /\ ~TaskCancelled
  /\ \E b \in Bytes : spill' = [spill EXCEPT ![i] = b]
  /\ UNCHANGED <<version, pc, result, flags, seen, present, built, signals,
                 group, runs, faults>>

\* The source cannot be read, or its bytes are not the ones it advertised.
ReadSourceFails(i) ==
  /\ Uploading
  /\ i \in running
  /\ spill[i] = None
  /\ Excused(TaskCancelled)
  /\ Return(i, "err")
  /\ UNCHANGED <<version, pc, result, flags, seen, present, spill, built,
                 signals, runs>>

\* Mutant of PublishAsset: the source is read again for the upload, and the
\* hash recorded is that of the first reading.
PublishAssetReread(i) ==
  /\ Uploading
  /\ i \in running
  /\ spill[i] # None
  /\ \E b \in Bytes : version' = PutAsset(version, i, b)
  /\ Return(i, "ok")
  /\ UNCHANGED <<pc, result, flags, seen, present, spill, built, signals, runs,
                 faults>>

\* PublishAsset, the call: PublishPackageVersion with unfinished=true.
PublishAsset(i) ==
  /\ Uploading
  /\ i \in running
  /\ spill[i] # None
  /\ \E o \in CallOutcome :
       /\ version' = IF o = "failed" THEN version
                     ELSE PutAsset(version, i, spill[i])
       /\ IF o = "done"
          THEN Return(i, "ok") /\ UNCHANGED faults
          ELSE Return(i, "err") /\ Excused(TaskCancelled)
  /\ UNCHANGED <<pc, result, flags, seen, present, spill, built, signals, runs>>

\* The batch is over and not ok: exit 130 if the live view took the Ctrl-C,
\* else 1, in both cases with the advice to re-run with --resume.
ExitFailed == Exit(IF interrupted THEN "interrupted" ELSE "failed")

AnyFailed == \E i \in manifest : outcome[i] = "err"

\* The first upload is back.  RunConcurrent looks at the context once, before
\* it spawns anything.
FirstReturned ==
  /\ pc = "first"
  /\ running = {}
  /\ \/ AnyFailed /\ ExitFailed
     \/ ~AnyFailed /\ pending = {} /\ pc' = "finalize" /\ UNCHANGED result
     \/ ~AnyFailed /\ pending # {} /\ ctx /\ ExitFailed
     \/ ~AnyFailed /\ pending # {} /\ ~ctx /\ pc' = "rest" /\ UNCHANGED result
  /\ UNCHANGED <<version, flags, seen, present, spill, built, signals, group,
                 runs, faults>>

SpawnRest ==
  /\ pc = "rest"
  /\ \E i \in pending : Spawn(i, Concurrency)
  /\ UNCHANGED <<version, pc, result, flags, seen, present, spill, built,
                 signals, runs, faults>>

\* Mutant of RestReturned: the ok of RunConcurrent is not looked at.
RestReturnedUnread ==
  /\ pc = "rest"
  /\ Drained
  /\ pc' = "finalize"
  /\ UNCHANGED <<version, result, flags, seen, present, spill, built, signals,
                 group, runs, faults>>

RestReturned ==
  /\ pc = "rest"
  /\ Drained
  /\ \/ AnyFailed /\ ExitFailed
     \/ ~AnyFailed /\ pc' = "finalize" /\ UNCHANGED result
  /\ UNCHANGED <<version, flags, seen, present, spill, built, signals, group,
                 runs, faults>>

-----------------------------------------------------------------------------
(* The provenance document                                                 *)

\* Mutant of ShaOf: the hash of the upload, also for an asset not uploaded.
ShaOfUpload(i) == spill[i]

\* results[i].SHA256: listed for a skipped asset, streamed for an uploaded one.
ShaOf(i) == IF outcome[i] = "skip" THEN present[i] ELSE spill[i]

\* Mutant of OriginOf: the object is looked up again.
OriginOfReread(i) ==
  IF i \in Pinned /\ outcome[i] # "skip" THEN Bytes ELSE {None}

\* The origin of a skipped asset is unknown; an s3 source reuses the one Open
\* captured with the bytes.  Other origins name no content.
OriginOf(i) ==
  IF i \in Pinned /\ outcome[i] # "skip" THEN {spill[i]} ELSE {None}

\* buildPublishProvenance
BuildPublishProvenance ==
  /\ pc = "finalize"
  /\ ~ctx
  /\ \E o \in Contents :
       /\ \A i \in Index :
            o[i] \in (IF i \in manifest THEN OriginOf(i) ELSE {None})
       /\ built' = [sha    |-> [i \in Asset |-> IF i \in manifest THEN ShaOf(i)
                                                ELSE None],
                    origin |-> o]
  /\ pc' = "commit"
  /\ UNCHANGED <<version, result, flags, seen, present, spill, signals, group,
                 runs, faults>>

\* The document is too large even without the upstream chains, or the context
\* was cancelled before it is sent: exit 1, also after a Ctrl-C.
FinalizeFails ==
  /\ pc = "finalize"
  /\ Excused(ctx)
  /\ Exit("unfinalized")
  /\ UNCHANGED <<version, flags, seen, present, spill, built, signals, group,
                 runs>>

\* FinalizeProvenance: PublishPackageVersion with unfinished=false.
FinalizeProvenance ==
  /\ pc = "commit"
  /\ \E o \in CallOutcome :
       /\ version' = IF o = "failed" THEN version ELSE PutFinalizer(version, built)
       /\ IF o = "done"
          THEN Exit("published") /\ UNCHANGED faults
          ELSE Exit("unfinalized") /\ Excused(ctx)
  /\ UNCHANGED <<flags, seen, present, spill, built, signals, group, runs>>

-----------------------------------------------------------------------------
(* The environment                                                         *)

\* A signal or the deadline cancels the context; so does a Ctrl-C the live
\* view takes, which is up once the status is known.
Cancel ==
  /\ pc # "idle"
  /\ ~ctx
  /\ Fault
  /\ ctx' = TRUE
  /\ \/ interrupted' = FALSE
     \/ interrupted' = TRUE /\ pc # "status"
  /\ UNCHANGED <<version, pc, result, flags, seen, present, spill, built, group,
                 runs>>

\* What the calls in flight may leave behind when the process dies.
Landed ==
  CASE pc = "delete" /\ opts.force /\ seen # "Absent" -> {version, AbsentVersion}
    [] Uploading ->
         {PutAssets(version, D, spill) :
            D \in SUBSET {i \in running : spill[i] # None}}
    [] pc = "commit" -> {version, PutFinalizer(version, built)}
    [] OTHER -> {version}

\* A second signal, a kill or the end of the machine.
Crash ==
  /\ pc # "idle"
  /\ Fault
  /\ version' \in Landed
  /\ Exit("killed")
  /\ UNCHANGED <<flags, seen, present, spill, built, signals, group, runs>>

-----------------------------------------------------------------------------
\* The steps the process takes by itself.
Advance ==
  \/ VersionStatus
  \/ DryRun
  \/ GatePublish
  \/ opts.yes /\ ConfirmAction
  \/ DeleteVersion
  \/ NothingToDelete
  \/ \E i \in Index : ReadSource(i)
  \/ \E i \in Index : ReadSourceFails(i)
  \/ \E i \in Index : PublishAsset(i)
  \/ FirstReturned
  \/ SpawnRest
  \/ RestReturned
  \/ BuildPublishProvenance
  \/ FinalizeFails
  \/ FinalizeProvenance

Next ==
  \/ Start
  \/ Advance
  \/ ConfirmAction
  \/ Cancel
  \/ Crash

Spec == Init /\ [][Next]_vars

\* Go schedules the process and every call it makes returns; nobody has to
\* answer a prompt, and nobody has to run publish again.
FairSpec == Spec /\ WF_vars(Advance)

-----------------------------------------------------------------------------
(* Properties                                                              *)

\* What provenance is for: every hash the document of a Published version
\* records is the hash of the bytes that version holds, whichever runs,
\* resumes with changed sources, lost answers and deaths led there.
DocumentMatchesStore ==
  version.status = "Published" =>
    /\ version.doc # None
    /\ \A a \in Asset :
         version.doc.sha[a] # None => version.assets[a] = version.doc.sha[a]

\* A version is only ever Published with all of one manifest's assets
\* recorded, never with part of them.
PublishedIsWhole ==
  version.status = "Published" =>
    {a \in Asset : version.doc.sha[a] # None} \in Manifests

\* publish without --resume that exits 0 leaves exactly its manifest in the
\* version: --force leaves nothing of the version it replaced.
FreshPublishIsExact ==
  result = "published" /\ ~opts.resume =>
    version.status = "Published" /\ Stored(version) = manifest

\* The advice of publish.go:275 and 282 can be followed once one asset is in
\* place: the version is Unfinished then, neither gone nor Published.
FailureIsResumable ==
  result \in {"failed", "interrupted"} /\ (\E i \in manifest : outcome[i] \in {"ok", "skip"}) =>
    version.status = "Unfinished"

\* The origin recorded for an s3 asset identifies the very bytes recorded for
\* it, however the object changed while publish ran (source_s3.go:192-198).
OriginDescribesBytes ==
  version.status = "Published" =>
    \A a \in Pinned : version.doc.origin[a] \in {None, version.doc.sha[a]}

\* Once Published, a version changes in one way only: a --force run removes it.
PublishedIsImmutable ==
  [][version.status = "Published" /\ version' # version
       => opts.force /\ version' = AbsentVersion]_vars

\* What readers of the version see of all this: an asset is never replaced,
\* nothing is added to a Published version, and its one document records the
\* bytes that are in it at that moment.
Lifecycle == INSTANCE VersionLifecycle WITH
  version <- [version EXCEPT !.doc = IF @ = None THEN None ELSE @.sha]
ImplementsLifecycle == Lifecycle!Spec

\* Every run that needs no answer from a human ends.
RunTerminates == pc = "status" /\ opts.yes ~> pc = "idle"

\* Once nothing goes wrong any more, one --resume run publishes a version
\* that was left Unfinished, however it came to be so.
ResumeCompletes ==
  (/\ pc = "status" /\ opts.resume /\ opts.yes /\ ~opts.dry /\ ~ctx
   /\ version.status = "Unfinished" /\ faults = MaxFaults)
  ~> result = "published"

\* publish.go:275 and 282 and README.md:814-816, read as they stand: after a
\* failed or interrupted publish the version is Unfinished.
FailureLeavesUnfinished ==
  result \in {"failed", "interrupted"} => version.status = "Unfinished"
=============================================================================
