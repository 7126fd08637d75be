--------------------------- MODULE PublishProofs ---------------------------
(***************************************************************************)
(* publish, for every set of sources, every content they may have, every   *)
(* --concurrency and any number of runs and faults.                        *)
(***************************************************************************)
EXTENDS Publish, TLAPS

\* The steps at which the version is this run's to write.
Writing == {"first", "rest", "finalize", "commit"}

\* A version that is not there holds nothing.
AbsentIsEmpty == version.status = "Absent" => version = AbsentVersion

\* Between the gate and the first write the snapshot is the truth, and the
\* flags go with it.
GateHolds ==
  /\ pc # "idle" => ~(opts.resume /\ opts.force)
  /\ pc \in {"gate", "prompt", "delete"} => seen = version.status
  /\ pc \in {"prompt", "delete"} =>
       IF opts.resume
       THEN seen = "Unfinished" /\ present = version.assets
       ELSE present = NoContents /\ (opts.force \/ seen = "Absent")

\* While the version is written it is not Published.
OpenForWriting == pc \in Writing => version.status # "Published"

\* The slots of results and the version agree, asset by asset.
SlotsBacked ==
  pc \in Writing =>
    \A i \in Index :
      /\ outcome[i] = "skip" => present[i] # None /\ version.assets[i] = present[i]
      /\ outcome[i] = "ok" => spill[i] # None /\ version.assets[i] = spill[i]
      /\ i \in pending \cup running =>
           outcome[i] = "nil" /\ version.assets[i] = None
      /\ i \in manifest /\ i \notin pending \cup running => outcome[i] # "nil"

\* The loop and the tasks share no index; after the batch nothing is left.
Handover ==
  /\ pending \cap running = {}
  /\ pc \in {"finalize", "commit"} =>
       pending = {} /\ running = {} /\ (\A i \in manifest : outcome[i] # "err")

\* A run works on one of the manifests.
OnManifest == pc # "idle" => manifest \in Manifests

\* The document being sent records this manifest and what the version holds.
DocumentBuilt ==
  pc = "commit" =>
    /\ built # None
    /\ built.sha = [a \in Asset |-> IF a \in manifest THEN version.assets[a]
                                    ELSE None]
    /\ \A a \in manifest : version.assets[a] # None
    /\ \A a \in Pinned : built.origin[a] \in {None, built.sha[a]}

IInv ==
  /\ TypeOK
  /\ AbsentIsEmpty
  /\ GateHolds
  /\ OpenForWriting
  /\ SlotsBacked
  /\ Handover
  /\ OnManifest
  /\ DocumentBuilt
  /\ DocumentMatchesStore
  /\ PublishedIsWhole
  /\ OriginDescribesBytes

-----------------------------------------------------------------------------
(* The effects of the three calls, as facts about records                  *)

LEMMA AbsentVersionType == AbsentVersion \in VersionsWith(Documents)
BY DEF AbsentVersion, VersionsWith, Status, Contents

LEMMA PutAssetEffect ==
  ASSUME NEW v \in VersionsWith(Documents), NEW a \in Asset, NEW b \in Bytes
  PROVE  /\ PutAsset(v, a, b) \in VersionsWith(Documents)
         /\ v.status = "Absent" => PutAsset(v, a, b).status = "Unfinished"
         /\ v.status # "Absent" => PutAsset(v, a, b).status = v.status
         /\ PutAsset(v, a, b).assets = [v.assets EXCEPT ![a] = b]
         /\ PutAsset(v, a, b).doc = v.doc
BY DEF PutAsset, VersionsWith, Status, Contents

LEMMA PutFinalizerEffect ==
  ASSUME NEW v \in VersionsWith(Documents), NEW d \in Documents
  PROVE  /\ PutFinalizer(v, d) \in VersionsWith(Documents)
         /\ PutFinalizer(v, d).status = "Published"
         /\ PutFinalizer(v, d).assets = v.assets
         /\ PutFinalizer(v, d).doc = d
BY DEF PutFinalizer, VersionsWith, Status

LEMMA PutAssetsEffect ==
  ASSUME NEW v \in VersionsWith(Documents), NEW D \in SUBSET Asset,
         NEW new \in Contents
  PROVE  /\ PutAssets(v, D, new) \in VersionsWith(Documents)
         /\ v.status = "Absent" /\ D # {}
              => PutAssets(v, D, new).status = "Unfinished"
         /\ v.status # "Absent" \/ D = {}
              => PutAssets(v, D, new).status = v.status
         /\ PutAssets(v, D, new).assets
              = [a \in Asset |-> IF a \in D THEN new[a] ELSE v.assets[a]]
         /\ PutAssets(v, D, new).doc = v.doc
BY DEF PutAssets, VersionsWith, Status, Contents

-----------------------------------------------------------------------------
(* Type correctness                                                        *)

LEMMA FaultType ==
  ASSUME TypeOK, Fault
  PROVE  faults' \in 0 .. MaxFaults
BY PublishAssumption DEF Fault, TypeOK

LEMMA ExcusedType ==
  ASSUME TypeOK, NEW c, Excused(c)
  PROVE  faults' \in 0 .. MaxFaults
BY FaultType DEF Excused, TypeOK

LEMMA LandedType ==
  ASSUME TypeOK, built \in Documents \/ pc # "commit", NEW v \in Landed
  PROVE  v \in VersionsWith(Documents)
<1>1. CASE pc = "delete"
  BY <1>1, AbsentVersionType DEF Landed, TypeOK, Uploading
<1>2. CASE Uploading
  <2>1. PICK D \in SUBSET {i \in running : spill[i] # None} :
          v = PutAssets(version, D, spill)
    BY <1>2 DEF Landed, Uploading
  <2>2. D \in SUBSET Asset /\ spill \in Contents /\ version \in VersionsWith(Documents)
    BY PublishAssumption DEF TypeOK
  <2> QED
    BY <2>1, <2>2, PutAssetsEffect
<1>3. CASE pc = "commit"
  BY <1>3, PutFinalizerEffect DEF Landed, TypeOK, Uploading
<1>4. CASE pc \notin {"delete", "first", "rest", "commit"}
  BY <1>4 DEF Landed, TypeOK, Uploading
<1> QED
  BY <1>1, <1>2, <1>3, <1>4 DEF Uploading

LEMMA BeginUploadsType ==
  ASSUME TypeOK, BeginUploads
  PROVE  /\ outcome' \in [Index -> {"nil", "ok", "err", "skip"}]
         /\ running' \in SUBSET Index
         /\ pending' \in SUBSET Index
         /\ gctx' \in BOOLEAN
         /\ pc' \in Step
BY DEF TypeOK, BeginUploads, Todos, Step

\* TypeOK is kept by every step, given that a document is sent at "commit".
LEMMA TypeStep ==
  ASSUME TypeOK, pc = "commit" => built # None, [Next]_vars
  PROVE  TypeOK'
<1> USE DEF TypeOK, flags, signals, group
<1>1. CASE Start
  <2>1. runs' \in 0 .. MaxRuns
    BY <1>1, PublishAssumption DEF Start
  <2>2. manifest' \in SUBSET Index
    BY <1>1, PublishAssumption DEF Start
  <2> QED
    BY <1>1, <2>1, <2>2 DEF Start, Exit, NoContents, Contents, Step, Status, Result
<1>2. CASE VersionStatus
  BY <1>2, ExcusedType DEF VersionStatus, Exit, Step, Result, VersionsWith
<1>3. CASE DryRun
  BY <1>3, ExcusedType DEF DryRun, Exit, Step, Result
<1>4. CASE GatePublish
  <2>1. Listing \in Contents
    BY DEF Listing, VersionsWith, NoContents, Contents
  <2> QED
    BY <1>4, <2>1, ExcusedType DEF GatePublish, Exit, Step, Result
<1>5. CASE ConfirmAction
  BY <1>5 DEF ConfirmAction, Exit, Step, Result
<1>6. CASE DeleteVersion
  <2>1. PICK o \in CallOutcome :
          /\ version' = IF o = "failed" THEN version ELSE AbsentVersion
          /\ IF o = "done" THEN ~ctx /\ UNCHANGED faults ELSE Excused(ctx)
          /\ IF DeleteAccepted(o)
             THEN BeginUploads /\ UNCHANGED result
             ELSE Exit("undeleted") /\ UNCHANGED group
    BY <1>6 DEF DeleteVersion
  <2>2. version' \in VersionsWith(Documents)
    BY <2>1, AbsentVersionType
  <2>3. faults' \in 0 .. MaxFaults
    BY <2>1, ExcusedType
  <2>4. /\ pc' \in Step /\ result' \in Result
        /\ outcome' \in [Index -> {"nil", "ok", "err", "skip"}]
        /\ running' \in SUBSET Index /\ pending' \in SUBSET Index
        /\ gctx' \in BOOLEAN
    BY <2>1, BeginUploadsType DEF Exit, Step, Result
  <2> QED
    BY <1>6, <2>2, <2>3, <2>4 DEF DeleteVersion
<1>7. CASE NothingToDelete
  BY <1>7, BeginUploadsType DEF NothingToDelete
<1>8. ASSUME NEW i \in Index, ReadSource(i) PROVE TypeOK'
  BY <1>8, PublishAssumption DEF ReadSource, Contents
<1>9. ASSUME NEW i \in Index, ReadSourceFails(i) PROVE TypeOK'
  BY <1>9, ExcusedType DEF ReadSourceFails, Return
<1>10. ASSUME NEW i \in Index, PublishAsset(i) PROVE TypeOK'
  <2>1. PICK o \in CallOutcome :
          /\ version' = IF o = "failed" THEN version
                        ELSE PutAsset(version, i, spill[i])
          /\ IF o = "done"
             THEN Return(i, "ok") /\ UNCHANGED faults
             ELSE Return(i, "err") /\ Excused(TaskCancelled)
    BY <1>10 DEF PublishAsset
  <2>2. spill[i] \in Bytes /\ i \in Asset
    BY <1>10, PublishAssumption DEF PublishAsset, Contents
  <2>3. version' \in VersionsWith(Documents)
    BY <2>1, <2>2, PutAssetEffect
  <2>4. faults' \in 0 .. MaxFaults
    BY <2>1, ExcusedType
  <2> QED
    BY <1>10, <2>1, <2>3, <2>4 DEF PublishAsset, Return
<1>11. CASE FirstReturned
  BY <1>11 DEF FirstReturned, ExitFailed, Exit, Step, Result
<1>12. CASE SpawnRest
  BY <1>12 DEF SpawnRest, Spawn
<1>13. CASE RestReturned
  BY <1>13 DEF RestReturned, ExitFailed, Exit, Step, Result
<1>14. CASE BuildPublishProvenance
  <2>1. PICK o \in Contents :
          built' = [sha    |-> [i \in Asset |-> IF i \in manifest THEN ShaOf(i)
                                                ELSE None],
                    origin |-> o]
    BY <1>14 DEF BuildPublishProvenance
  <2>2. [i \in Asset |-> IF i \in manifest THEN ShaOf(i) ELSE None] \in Contents
    BY DEF ShaOf, Contents
  <2>3. built' \in Documents
    BY <2>1, <2>2 DEF Documents
  <2> QED
    BY <1>14, <2>3 DEF BuildPublishProvenance, Step
<1>15. CASE FinalizeFails
  BY <1>15, ExcusedType DEF FinalizeFails, Exit, Step, Result
<1>16. CASE FinalizeProvenance
  <2>1. PICK o \in CallOutcome :
          /\ version' = IF o = "failed" THEN version ELSE PutFinalizer(version, built)
          /\ IF o = "done"
             THEN Exit("published") /\ UNCHANGED faults
             ELSE Exit("unfinalized") /\ Excused(ctx)
    BY <1>16 DEF FinalizeProvenance
  <2>2. built \in Documents
    BY <1>16 DEF FinalizeProvenance
  <2>3. version' \in VersionsWith(Documents)
    BY <2>1, <2>2, PutFinalizerEffect
  <2>4. faults' \in 0 .. MaxFaults
    BY <2>1, ExcusedType
  <2> QED
    BY <1>16, <2>1, <2>3, <2>4 DEF FinalizeProvenance, Exit, Step, Result
<1>17. CASE Cancel
  BY <1>17, FaultType DEF Cancel
<1>18. CASE Crash
  BY <1>18, FaultType, LandedType DEF Crash, Exit, Step, Result
<1>19. CASE UNCHANGED vars
  BY <1>19 DEF vars
<1> QED
  BY <1>1, <1>2, <1>3, <1>4, <1>5, <1>6, <1>7, <1>8, <1>9, <1>10, <1>11, <1>12,
     <1>13, <1>14, <1>15, <1>16, <1>17, <1>18, <1>19 DEF Next, Advance

-----------------------------------------------------------------------------
(* The inductive invariant                                                 *)

LEMMA InitIInv == Init => IInv
<1> SUFFICES ASSUME Init PROVE IInv
  OBVIOUS
<1>1. version \in VersionsWith(Documents)
  BY AbsentVersionType DEF Init
<1>2. NoContents \in Contents
  BY DEF NoContents, Contents
<1>3. TypeOK
  <2>1. opts \in Options
    BY DEF Init, Options
  <2>2. outcome \in [Index -> {"nil", "ok", "err", "skip"}]
    BY DEF Init
  <2>3. runs \in 0 .. MaxRuns /\ faults \in 0 .. MaxFaults
    BY PublishAssumption DEF Init
  <2> QED
    BY <1>1, <1>2, <2>1, <2>2, <2>3 DEF Init, TypeOK, Step, Result, Status
<1>4. version.status = "Absent"
  BY DEF Init, AbsentVersion
<1> QED
  BY <1>3, <1>4
     DEF Init, IInv, AbsentIsEmpty, GateHolds, OpenForWriting, SlotsBacked,
         Handover, OnManifest, DocumentBuilt, DocumentMatchesStore,
         PublishedIsWhole, OriginDescribesBytes, Writing

\* When the uploads begin, what is listed is what the version holds, so the
\* slots of the skipped assets are right and the others' assets are missing.
LEMMA BeginUploadsSound ==
  ASSUME TypeOK, BeginUploads, UNCHANGED <<manifest, present, spill>>,
         \A i \in Index : version'.assets[i] = present[i]
  PROVE  /\ SlotsBacked'
         /\ Handover'
         /\ pc' \in {"first", "finalize"}
<1>1. /\ running' \cup pending' = Todos
      /\ running' \cap pending' = {}
      /\ pc' = IF Todos = {} THEN "finalize" ELSE "first"
      /\ outcome' = [i \in Index |-> IF i \in Skipped THEN "skip" ELSE "nil"]
  BY DEF BeginUploads
<1>2. \A i \in Index :
        /\ i \in Skipped => present[i] # None
        /\ i \in Todos => i \notin Skipped /\ present[i] = None
        /\ i \in manifest => i \in Skipped \/ i \in Todos
  BY DEF Skipped, Todos
<1>3. SlotsBacked'
  BY <1>1, <1>2 DEF SlotsBacked, TypeOK
<1>4. Handover'
  BY <1>1, <1>2 DEF Handover, TypeOK
<1> QED
  BY <1>1, <1>3, <1>4

\* A version that is not Published, or is the same as before, keeps the three
\* invariants about Published versions.
LEMMA UnpublishedKeeps ==
  ASSUME version'.status # "Published"
  PROVE  DocumentMatchesStore' /\ PublishedIsWhole' /\ OriginDescribesBytes'
BY DEF DocumentMatchesStore, PublishedIsWhole, OriginDescribesBytes

\* The finalizer publishes what DocumentBuilt says of the document.
LEMMA FinalizerKeeps ==
  ASSUME IInv, pc = "commit", version' = PutFinalizer(version, built)
  PROVE  DocumentMatchesStore' /\ PublishedIsWhole' /\ OriginDescribesBytes'
<1>1. built \in Documents /\ version \in VersionsWith(Documents)
  BY DEF IInv, TypeOK, DocumentBuilt
<1>2. version'.assets = version.assets /\ version'.doc = built
  BY <1>1, PutFinalizerEffect
<1>3. built # None
  BY DEF IInv, DocumentBuilt
<1>4. \A a \in Asset : built.sha[a] = IF a \in manifest THEN version.assets[a] ELSE None
  BY DEF IInv, DocumentBuilt
<1>5. {a \in Asset : built.sha[a] # None} = manifest
  BY <1>4, PublishAssumption DEF IInv, DocumentBuilt, TypeOK
<1>6. manifest \in Manifests
  BY DEF IInv, OnManifest
<1>7. \A a \in Pinned : built.origin[a] \in {None, built.sha[a]}
  BY DEF IInv, DocumentBuilt
<1>8. DocumentMatchesStore'
  BY <1>2, <1>3, <1>4 DEF DocumentMatchesStore
<1>9. PublishedIsWhole'
  BY <1>2, <1>5, <1>6 DEF PublishedIsWhole
<1>10. OriginDescribesBytes'
  BY <1>2, <1>7 DEF OriginDescribesBytes
<1> QED
  BY <1>8, <1>9, <1>10

LEMMA IInvStep ==
  ASSUME IInv, [Next]_vars
  PROVE  IInv'
<1>0. TypeOK'
  BY TypeStep DEF IInv, DocumentBuilt
<1> USE DEF AbsentIsEmpty, GateHolds, OpenForWriting, SlotsBacked, Handover, OnManifest,
            DocumentBuilt, DocumentMatchesStore, PublishedIsWhole,
            OriginDescribesBytes, Writing, flags, signals, group
<1>1. CASE Start
  BY <1>0, <1>1 DEF IInv, Start, Exit
<1>2. CASE VersionStatus
  BY <1>0, <1>2 DEF IInv, VersionStatus, Exit
<1>3. CASE DryRun
  BY <1>0, <1>3 DEF IInv, DryRun, Exit
<1>4. CASE GatePublish
  BY <1>0, <1>4 DEF IInv, GatePublish, GateRefuses, Listing, Exit
<1>5. CASE ConfirmAction
  BY <1>0, <1>5 DEF IInv, ConfirmAction, Exit
<1>6. CASE DeleteVersion
  <2>1. PICK o \in CallOutcome :
          /\ version' = IF o = "failed" THEN version ELSE AbsentVersion
          /\ IF DeleteAccepted(o)
             THEN BeginUploads /\ UNCHANGED result
             ELSE Exit("undeleted") /\ UNCHANGED group
    BY <1>6 DEF DeleteVersion
  <2>2. /\ pc = "delete" /\ opts.force /\ ~opts.resume /\ present = NoContents
        /\ UNCHANGED <<opts, manifest, present, spill, built>>
    BY <1>6 DEF DeleteVersion, IInv
  <2>3. CASE DeleteAccepted(o)
    <3>1. version' = AbsentVersion /\ BeginUploads
      BY <2>1, <2>3 DEF DeleteAccepted
    <3>2. \A i \in Index : version'.assets[i] = present[i]
      BY <2>2, <3>1, PublishAssumption DEF AbsentVersion, NoContents
    <3>3. SlotsBacked' /\ Handover' /\ pc' \in {"first", "finalize"}
      BY <2>2, <3>1, <3>2, BeginUploadsSound DEF IInv
    <3>4. version'.status # "Published"
      BY <3>1 DEF AbsentVersion
    <3> QED
      BY <1>0, <2>2, <3>1, <3>3, <3>4, UnpublishedKeeps DEF IInv
  <2>4. CASE ~DeleteAccepted(o)
    <3>1. pc' = "idle" /\ UNCHANGED group
      BY <2>1, <2>4 DEF Exit
    <3>2. CASE version' = version
      BY <1>0, <2>2, <3>1, <3>2 DEF IInv
    <3>3. CASE version' = AbsentVersion
      <4>1. version'.status # "Published"
        BY <3>3 DEF AbsentVersion
      <4> QED
        BY <1>0, <2>2, <3>1, <3>3, <4>1, UnpublishedKeeps DEF IInv
    <3> QED
      BY <2>1, <3>2, <3>3
  <2> QED
    BY <2>3, <2>4
<1>7. CASE NothingToDelete
  <2>1. /\ pc = "delete" /\ BeginUploads
        /\ UNCHANGED <<version, opts, manifest, present, spill, built>>
    BY <1>7 DEF NothingToDelete
  <2>2. version.status # "Published" /\ (\A i \in Index : version.assets[i] = present[i])
    <3>1. CASE opts.resume
      BY <2>1, <3>1 DEF IInv
    <3>2. CASE ~opts.resume
      <4>1. seen = "Absent" /\ seen = version.status /\ present = NoContents
        BY <1>7, <2>1, <3>2 DEF IInv, NothingToDelete
      <4>2. version = AbsentVersion
        BY <4>1 DEF IInv
      <4> QED
        BY <4>1, <4>2, PublishAssumption DEF AbsentVersion, NoContents
    <3> QED
      BY <3>1, <3>2
  <2>3. SlotsBacked' /\ Handover' /\ pc' \in {"first", "finalize"}
    BY <2>1, <2>2, BeginUploadsSound DEF IInv
  <2> QED
    BY <1>0, <2>1, <2>2, <2>3 DEF IInv
<1>8. ASSUME NEW i \in Index, ReadSource(i) PROVE IInv'
  BY <1>0, <1>8 DEF IInv, TypeOK, Contents, ReadSource, Uploading
<1>9. ASSUME NEW i \in Index, ReadSourceFails(i) PROVE IInv'
  BY <1>0, <1>9 DEF IInv, TypeOK, ReadSourceFails, Return, Uploading
<1>10. ASSUME NEW i \in Index, PublishAsset(i) PROVE IInv'
  <2>1. PICK o \in CallOutcome :
          /\ version' = IF o = "failed" THEN version
                        ELSE PutAsset(version, i, spill[i])
          /\ IF o = "done" THEN Return(i, "ok") ELSE Return(i, "err")
    BY <1>10 DEF PublishAsset
  <2>2. /\ pc \in {"first", "rest"} /\ i \in running /\ spill[i] # None
        /\ UNCHANGED <<pc, opts, manifest, seen, present, spill, built>>
    BY <1>10 DEF PublishAsset, Uploading
  <2>3. /\ pending' = pending /\ running' = running \ {i}
        /\ outcome' = [outcome EXCEPT ![i] = IF o = "done" THEN "ok" ELSE "err"]
    BY <2>1 DEF Return
  <2>4. /\ version.status # "Published"
        /\ version.assets[i] = None
        /\ i \notin pending
        /\ version \in VersionsWith(Documents)
        /\ spill[i] \in Bytes
    BY <2>2, PublishAssumption DEF IInv, TypeOK, Contents
  <2>5. /\ version'.status # "Published"
        /\ version'.status = "Absent" => version' = version
        /\ \A j \in Index : j # i => version'.assets[j] = version.assets[j]
        /\ o = "done" => version'.assets[i] = spill[i]
    <3>1. CASE o = "failed"
      BY <2>1, <2>4, <3>1
    <3>2. CASE o # "failed"
      <4>1. version' = PutAsset(version, i, spill[i])
        BY <2>1, <3>2
      <4>2. version'.assets = [version.assets EXCEPT ![i] = spill[i]]
        BY <2>4, <4>1, PutAssetEffect, PublishAssumption
      <4>3. /\ version.status = "Absent" => version'.status = "Unfinished"
            /\ version.status # "Absent" => version'.status = version.status
        <5>1. i \in Asset
          BY PublishAssumption
        <5>2. /\ version.status = "Absent"
                   => PutAsset(version, i, spill[i]).status = "Unfinished"
              /\ version.status # "Absent"
                   => PutAsset(version, i, spill[i]).status = version.status
          BY <2>4, <5>1, PutAssetEffect
        <5> QED
          BY <4>1, <5>2
      <4>4. version.assets \in [Index -> Bytes \cup {None}]
        BY <2>4, PublishAssumption DEF VersionsWith, Contents
      <4> QED
        BY <2>4, <4>2, <4>3, <4>4
    <3> QED
      BY <3>1, <3>2
  <2>6. AbsentIsEmpty' /\ OpenForWriting'
    BY <2>5 DEF IInv
  <2>7. SlotsBacked'
    BY <2>2, <2>3, <2>4, <2>5 DEF IInv, TypeOK
  <2>8. Handover'
    BY <2>2, <2>3 DEF IInv
  <2> QED
    BY <1>0, <2>2, <2>5, <2>6, <2>7, <2>8, UnpublishedKeeps DEF IInv
<1>11. CASE FirstReturned
  BY <1>0, <1>11 DEF IInv, TypeOK, FirstReturned, ExitFailed, AnyFailed, Exit
<1>12. CASE SpawnRest
  BY <1>0, <1>12 DEF IInv, TypeOK, SpawnRest, Spawn
<1>13. CASE RestReturned
  BY <1>0, <1>13 DEF IInv, TypeOK, RestReturned, Drained, ExitFailed, AnyFailed, Exit
<1>14. CASE BuildPublishProvenance
  <2>1. /\ pc = "finalize" /\ pc' = "commit"
        /\ UNCHANGED <<version, opts, manifest, seen, present, spill, group>>
    BY <1>14 DEF BuildPublishProvenance
  <2>2. PICK o \in Contents :
          /\ \A i \in Index :
               o[i] \in (IF i \in manifest THEN OriginOf(i) ELSE {None})
          /\ built' = [sha    |-> [i \in Asset |-> IF i \in manifest THEN ShaOf(i)
                                                   ELSE None],
                       origin |-> o]
    BY <1>14 DEF BuildPublishProvenance
  <2>3. \A i \in manifest : ShaOf(i) = version.assets[i] /\ version.assets[i] # None
    BY <2>1 DEF IInv, TypeOK, ShaOf
  <2>4. built' # None
    <3>1. [i \in Asset |-> IF i \in manifest THEN ShaOf(i) ELSE None] \in Contents
      BY DEF ShaOf, IInv, TypeOK, Contents
    <3>2. built' \in Documents
      BY <2>2, <3>1 DEF Documents
    <3> QED
      BY <3>2, PublishAssumption
  <2>5. built'.sha = [a \in Asset |-> IF a \in manifest THEN version.assets[a] ELSE None]
    BY <2>2, <2>3
  <2>6. \A a \in Pinned : built'.origin[a] \in {None, built'.sha[a]}
    BY <2>2, PublishAssumption DEF OriginOf, ShaOf
  <2> QED
    BY <1>0, <2>1, <2>3, <2>4, <2>5, <2>6 DEF IInv
<1>15. CASE FinalizeFails
  BY <1>0, <1>15 DEF IInv, FinalizeFails, Exit
<1>16. CASE FinalizeProvenance
  <2>1. /\ pc = "commit" /\ pc' = "idle"
        /\ version' = version \/ version' = PutFinalizer(version, built)
        /\ UNCHANGED <<opts, manifest, seen, present, spill, group>>
    BY <1>16 DEF FinalizeProvenance, Exit
  <2>2. CASE version' = version
    BY <1>0, <2>1, <2>2 DEF IInv
  <2>3. CASE version' = PutFinalizer(version, built)
    <3>1. version'.status = "Published"
      BY <2>1, <2>3, PutFinalizerEffect DEF IInv, TypeOK
    <3> QED
      BY <1>0, <2>1, <2>3, <3>1, FinalizerKeeps DEF IInv
  <2> QED
    BY <2>1, <2>2, <2>3
<1>17. CASE Cancel
  BY <1>0, <1>17 DEF IInv, Cancel
<1>18. CASE Crash
  <2>1. /\ pc # "idle" /\ pc' = "idle" /\ version' \in Landed
        /\ UNCHANGED <<opts, manifest, group>>
    BY <1>18 DEF Crash, Exit
  <2>2. CASE version' = version
    BY <1>0, <2>1, <2>2 DEF IInv
  <2>3. CASE version' = AbsentVersion
    <3>1. version'.status # "Published"
      BY <2>3 DEF AbsentVersion
    <3> QED
      BY <1>0, <2>1, <2>3, <3>1, UnpublishedKeeps DEF IInv
  <2>4. CASE pc = "commit" /\ version' = PutFinalizer(version, built)
    <3>1. version'.status = "Published"
      BY <2>4, PutFinalizerEffect DEF IInv, TypeOK
    <3> QED
      BY <1>0, <2>1, <2>4, <3>1, FinalizerKeeps DEF IInv
  <2>5. CASE Uploading
    <3>1. PICK D \in SUBSET {i \in running : spill[i] # None} :
            version' = PutAssets(version, D, spill)
      BY <2>1, <2>5 DEF Landed, Uploading
    <3>2. D \in SUBSET Asset /\ spill \in Contents /\ version \in VersionsWith(Documents)
      BY PublishAssumption DEF IInv, TypeOK
    <3>3. /\ version.status = "Absent" /\ D # {} => version'.status = "Unfinished"
          /\ version.status # "Absent" \/ D = {} => version'.status = version.status
      BY <3>1, <3>2, PutAssetsEffect
    <3>4. version'.status # "Published"
      BY <2>5, <3>3 DEF IInv, Uploading
    <3>5. AbsentIsEmpty'
      <4>1. ASSUME version'.status = "Absent" PROVE version' = AbsentVersion
        <5>1. D = {} /\ version = AbsentVersion
          BY <3>3, <4>1 DEF IInv
        <5> QED
          BY <3>1, <5>1 DEF PutAssets, AbsentVersion
      <4> QED
        BY <4>1
    <3> QED
      BY <1>0, <2>1, <3>4, <3>5, UnpublishedKeeps DEF IInv
  <2> QED
    BY <2>1, <2>2, <2>3, <2>4, <2>5 DEF Landed, Uploading
<1>19. CASE UNCHANGED vars
  BY <1>0, <1>19 DEF IInv, vars
<1> QED
  BY <1>1, <1>2, <1>3, <1>4, <1>5, <1>6, <1>7, <1>8, <1>9, <1>10, <1>11, <1>12,
     <1>13, <1>14, <1>15, <1>16, <1>17, <1>18, <1>19 DEF Next, Advance

\* The inductive invariant, which ties the slots of the results, the hashes in
\* hand and the version together at every place in Run.
THEOREM InvariantHolds == Spec => []IInv
BY InitIInv, IInvStep, PTL DEF Spec

\* TypeOK.
THEOREM TypeCorrect == Spec => []TypeOK
BY InvariantHolds, PTL DEF IInv

\* DocumentMatchesStore: the hashes in a Published version's provenance are
\* those of the bytes it holds.
THEOREM ProvenanceIsTrue == Spec => []DocumentMatchesStore
BY InvariantHolds, PTL DEF IInv

\* PublishedIsWhole: no version is Published with part of a manifest.
THEOREM PublishIsAtomic == Spec => []PublishedIsWhole
BY InvariantHolds, PTL DEF IInv

\* OriginDescribesBytes: an s3 origin names the object that was uploaded.
THEOREM OriginIsTrue == Spec => []OriginDescribesBytes
BY InvariantHolds, PTL DEF IInv

-----------------------------------------------------------------------------
(* Published versions do not change                                        *)

\* A step that changes the version and is none of the three writes.
LEMMA WritersOnly ==
  ASSUME [Next]_vars, version' # version
  PROVE  \/ DeleteVersion
         \/ \E i \in Index : PublishAsset(i)
         \/ FinalizeProvenance
         \/ Crash
BY DEF Next, Advance, vars, Start, VersionStatus, DryRun, GatePublish,
       ConfirmAction, NothingToDelete, ReadSource, ReadSourceFails,
       FirstReturned, SpawnRest, RestReturned, BuildPublishProvenance,
       FinalizeFails, Cancel

\* PublishedIsImmutable: only a --force run changes a Published version, and
\* it removes all of it.
THEOREM PublishedStays == Spec => PublishedIsImmutable
<1>1. ASSUME IInv, [Next]_vars, version.status = "Published", version' # version
      PROVE  opts.force /\ version' = AbsentVersion
  <2>1. pc \notin Writing
    BY <1>1 DEF IInv, OpenForWriting
  <2>2. CASE DeleteVersion
    BY <1>1, <2>2 DEF DeleteVersion
  <2>3. CASE Crash
    BY <1>1, <2>1, <2>3 DEF Crash, Landed, Writing, Uploading
  <2> QED
    BY <1>1, <2>1, <2>2, <2>3, WritersOnly
       DEF PublishAsset, FinalizeProvenance, Uploading, Writing
<1>2. IInv /\ [Next]_vars =>
        [version.status = "Published" /\ version' # version
           => opts.force /\ version' = AbsentVersion]_vars
  BY <1>1
<1> QED
  BY <1>2, InvariantHolds, PTL DEF Spec, PublishedIsImmutable

-----------------------------------------------------------------------------
(* publish implements the life of a version as its readers know it         *)

\* The version with its document reduced to the recorded hashes.
Abstract(v) == [v EXCEPT !.doc = IF @ = None THEN None ELSE @.sha]

LEMMA AbstractFields ==
  ASSUME NEW v \in VersionsWith(Documents)
  PROVE  Abstract(v) = [status |-> v.status, assets |-> v.assets,
                        doc |-> IF v.doc = None THEN None ELSE v.doc.sha]
BY DEF Abstract, VersionsWith

LEMMA AbstractAbsent == Abstract(AbsentVersion) = Lifecycle!AbsentVersion
BY AbsentVersionType, AbstractFields DEF AbsentVersion, Lifecycle!AbsentVersion

\* Uploads only ever add missing assets to a version that is not Published.
LEMMA FillStep ==
  ASSUME version \in VersionsWith(Documents), version' \in VersionsWith(Documents),
         version.status # "Published", version'.status = "Unfinished",
         version'.doc = version.doc,
         \A a \in Asset : version.assets[a] # None
                            => version'.assets[a] = version.assets[a]
  PROVE  Lifecycle!Fill
<1> DEFINE new == version'.assets
<1>1. /\ Abstract(version) = [status |-> version.status, assets |-> version.assets,
                doc |-> IF version.doc = None THEN None ELSE version.doc.sha]
      /\ Abstract(version') = [status |-> "Unfinished", assets |-> new,
                doc |-> IF version.doc = None THEN None ELSE version.doc.sha]
  BY AbstractFields
<1>2. new \in Lifecycle!Contents
  BY DEF VersionsWith, Contents, Lifecycle!Contents
<1>3. Abstract(version') = [status |-> "Unfinished", assets |-> new,
                              doc |-> Abstract(version).doc]
  BY <1>1
<1>4. /\ Abstract(version).status # "Published"
      /\ \A a \in Asset : Abstract(version).assets[a] # None
                             => new[a] = Abstract(version).assets[a]
  BY <1>1
<1> QED
  BY <1>2, <1>3, <1>4 DEF Lifecycle!Fill, Abstract

\* The finalizer's one call is the abstract Publish.
LEMMA PublishStep ==
  ASSUME IInv, pc = "commit", version' = PutFinalizer(version, built)
  PROVE  Lifecycle!Publish
<1>1. /\ built \in Documents /\ built # None /\ version \in VersionsWith(Documents)
      /\ manifest \in (SUBSET Asset) \ {{}}
      /\ \A a \in manifest : version.assets[a] # None
      /\ built.sha = [a \in Asset |-> IF a \in manifest THEN version.assets[a]
                                      ELSE None]
  BY PublishAssumption DEF IInv, TypeOK, DocumentBuilt, OnManifest
<1>2. version.status = "Unfinished"
  <2>1. version.status # "Published"
    BY DEF IInv, OpenForWriting, Writing
  <2>2. version.status # "Absent"
    BY <1>1 DEF IInv, AbsentIsEmpty, AbsentVersion
  <2> QED
    BY <1>1, <2>1, <2>2 DEF VersionsWith, Status
<1>3. /\ version' \in VersionsWith(Documents) /\ version'.status = "Published"
      /\ version'.assets = version.assets /\ version'.doc = built
  BY <1>1, PutFinalizerEffect
<1>4. /\ Abstract(version) = [status |-> "Unfinished", assets |-> version.assets,
                doc |-> IF version.doc = None THEN None ELSE version.doc.sha]
      /\ Abstract(version') = [status |-> "Published", assets |-> version.assets,
                doc |-> built.sha]
  BY <1>1, <1>2, <1>3, AbstractFields
<1>5. Abstract(version') =
        [status |-> "Published",
         assets |-> Abstract(version).assets,
         doc    |-> [a \in Asset |-> IF a \in manifest THEN Abstract(version).assets[a]
                                    ELSE None]]
  BY <1>1, <1>4
<1>6. manifest \in (SUBSET Lifecycle!Stored(Abstract(version))) \ {{}}
  BY <1>1, <1>4 DEF Lifecycle!Stored
<1> QED
  BY <1>4, <1>5, <1>6 DEF Lifecycle!Publish, Abstract

LEMMA RemoveStep ==
  ASSUME version' = AbsentVersion
  PROVE  Lifecycle!Remove
BY AbstractAbsent DEF Lifecycle!Remove, Abstract

\* ImplementsLifecycle: whatever fails and whenever, readers of the version see
\* only the steps of VersionLifecycle.
THEOREM Refinement == Spec => ImplementsLifecycle
<1>1. Init => Lifecycle!Init
  BY AbstractAbsent DEF Init, Lifecycle!Init, Abstract
<1>2. IInv /\ IInv' /\ [Next]_vars => [Lifecycle!Next]_(Abstract(version))
  <2> SUFFICES ASSUME IInv, IInv', [Next]_vars, version' # version
               PROVE  Lifecycle!Next
    BY DEF Abstract
  <2>1. version \in VersionsWith(Documents) /\ version' \in VersionsWith(Documents)
    BY DEF IInv, TypeOK
  <2>2. CASE DeleteVersion
    BY <2>2, RemoveStep DEF DeleteVersion, Lifecycle!Next
  <2>3. ASSUME NEW i \in Index, PublishAsset(i) PROVE Lifecycle!Next
    <3>1. /\ version' = PutAsset(version, i, spill[i]) /\ i \in Asset
          /\ spill[i] \in Bytes
          /\ version.assets[i] = None
          /\ version.status # "Published"
      BY <2>3, PublishAssumption
         DEF PublishAsset, IInv, TypeOK, Contents, SlotsBacked, OpenForWriting,
             Uploading, Writing
    <3>2. /\ version.status = "Absent"
               => PutAsset(version, i, spill[i]).status = "Unfinished"
          /\ version.status # "Absent"
               => PutAsset(version, i, spill[i]).status = version.status
          /\ PutAsset(version, i, spill[i]).assets
               = [version.assets EXCEPT ![i] = spill[i]]
          /\ PutAsset(version, i, spill[i]).doc = version.doc
      BY <2>1, <3>1, PutAssetEffect
    <3>3. version'.status = "Unfinished" /\ version'.doc = version.doc
      BY <2>1, <3>1, <3>2 DEF VersionsWith, Status
    <3>4. \A a \in Asset : version.assets[a] # None
                              => version'.assets[a] = version.assets[a]
      BY <2>1, <3>1, <3>2 DEF VersionsWith, Contents
    <3> QED
      BY <2>1, <3>1, <3>3, <3>4, FillStep DEF Lifecycle!Next
  <2>4. CASE FinalizeProvenance
    BY <2>4, PublishStep DEF FinalizeProvenance, Lifecycle!Next
  <2>5. CASE Crash
    <3>1. CASE version' = AbsentVersion
      BY <3>1, RemoveStep DEF Lifecycle!Next
    <3>2. CASE pc = "commit" /\ version' = PutFinalizer(version, built)
      BY <3>2, PublishStep DEF Lifecycle!Next
    <3>3. CASE Uploading
      <4>1. PICK D \in SUBSET {i \in running : spill[i] # None} :
              version' = PutAssets(version, D, spill)
        BY <2>5, <3>3 DEF Crash, Landed, Uploading
      <4>2. /\ D \in SUBSET Asset /\ spill \in Contents
            /\ \A i \in D : version.assets[i] = None
            /\ version.status # "Published"
        BY <3>3, PublishAssumption
           DEF IInv, TypeOK, SlotsBacked, OpenForWriting, Uploading, Writing
      <4>3. /\ version.status = "Absent" /\ D # {} => version'.status = "Unfinished"
            /\ version.status # "Absent" \/ D = {} => version'.status = version.status
            /\ version'.assets
                 = [a \in Asset |-> IF a \in D THEN spill[a] ELSE version.assets[a]]
            /\ version'.doc = version.doc
        BY <2>1, <4>1, <4>2, PutAssetsEffect
      <4>4. D # {}
        <5>1. ASSUME D = {} PROVE version' = version
          BY <2>1, <4>1, <5>1 DEF PutAssets, VersionsWith, Contents
        <5> QED
          BY <5>1
      <4>5. version'.status = "Unfinished"
        BY <2>1, <4>2, <4>3, <4>4 DEF VersionsWith, Status
      <4> QED
        BY <2>1, <4>2, <4>3, <4>5, FillStep DEF Lifecycle!Next
    <3> QED
      BY <2>5, <3>1, <3>2, <3>3 DEF Crash, Landed, Uploading
  <2> QED
    BY <2>2, <2>3, <2>4, <2>5, WritersOnly
<1> QED
  BY <1>1, <1>2, InvariantHolds, PTL
     DEF Spec, ImplementsLifecycle, Lifecycle!Spec, Abstract

-----------------------------------------------------------------------------
(* What the result of a run says of the version                            *)

\* A run works on its manifest only, and what is in the version while a run
\* without --resume writes it comes from there.
OnlyManifest ==
  /\ pending \cup running \subseteq manifest
  /\ pc \in Writing /\ ~ opts.resume => Stored(version) \subseteq manifest

\* While a run is under way it has no result.
NoResultYet == pc # "idle" => result = "none"

ResultInv == OnlyManifest /\ NoResultYet /\ FreshPublishIsExact /\ FailureIsResumable

LEMMA InitResult == Init => ResultInv
BY DEF Init, ResultInv, OnlyManifest, NoResultYet, FreshPublishIsExact, FailureIsResumable,
       Writing

\* Steps that stay before the first write, or go back there.
LEMMA EarlyResult ==
  ASSUME ResultInv, pc # "idle", pc' \notin Writing, UNCHANGED <<manifest, pending, running>>,
         \/ pc' # "idle" /\ result' = result
         \/ pc' = "idle" /\ result' \notin {"published", "failed", "interrupted"}
  PROVE  ResultInv'
BY DEF ResultInv, OnlyManifest, NoResultYet, FreshPublishIsExact, FailureIsResumable

\* Steps within a run that write no new asset.
LEMMA WritingResult ==
  ASSUME ResultInv, pc \in Writing, pc' \in Writing, UNCHANGED <<version, result, flags>>,
         pending' \cup running' \subseteq pending \cup running
  PROVE  ResultInv'
BY DEF ResultInv, OnlyManifest, NoResultYet, FreshPublishIsExact, FailureIsResumable, Writing,
       flags

LEMMA BeginResult ==
  ASSUME IInv, ResultInv, pc = "delete", BeginUploads, UNCHANGED <<result, flags>>,
         ~ opts.resume => version' = AbsentVersion
  PROVE  ResultInv'
<1>1. pending' \cup running' \subseteq manifest /\ pc' \in {"first", "finalize"}
  BY DEF BeginUploads, Todos
<1>2. ~ opts.resume => Stored(version') = {}
  BY DEF Stored, AbsentVersion
<1> QED
  BY <1>1, <1>2 DEF ResultInv, OnlyManifest, NoResultYet, FreshPublishIsExact,
     FailureIsResumable, flags

\* The end of a batch that did not go well: what is "ok" or "skip" is in the
\* version, so it is there, and it is not Published yet.
LEMMA ExitFailedResult ==
  ASSUME IInv, ResultInv, pc \in {"first", "rest"}, ExitFailed,
         UNCHANGED <<version, flags, group>>
  PROVE  ResultInv'
<1>1. pc' = "idle" /\ result' \in {"failed", "interrupted"}
  BY DEF ExitFailed, Exit
<1>2. version \in VersionsWith(Documents) /\ version.status # "Published"
      /\ version.status \in Status
  BY DEF IInv, TypeOK, OpenForWriting, Writing, VersionsWith
<1>3. ASSUME NEW i \in manifest, outcome[i] \in {"ok", "skip"}
      PROVE  version.status = "Unfinished"
  <2>1. i \in Index /\ i \in Asset
    BY PublishAssumption DEF IInv, TypeOK
  <2>2. version.assets[i] # None
    BY <1>3, <2>1 DEF IInv, SlotsBacked, Writing
  <2>3. version.status # "Absent"
    BY <2>1, <2>2 DEF IInv, AbsentIsEmpty, AbsentVersion
  <2> QED
    BY <1>2, <2>3 DEF Status
<1> QED
  BY <1>1, <1>3 DEF ResultInv, OnlyManifest, NoResultYet, FreshPublishIsExact,
     FailureIsResumable, flags, group, Writing

LEMMA ResultStep == IInv /\ ResultInv /\ [Next]_vars => ResultInv'
<1> SUFFICES ASSUME IInv, ResultInv, [Next]_vars PROVE ResultInv'
  OBVIOUS
<1> USE DEF flags, group, signals
<1>1. CASE Start
  BY <1>1 DEF Start, Exit, ResultInv, OnlyManifest, NoResultYet, FreshPublishIsExact,
     FailureIsResumable, Writing
<1>2. CASE VersionStatus \/ DryRun \/ GatePublish \/ ConfirmAction
  BY <1>2, EarlyResult DEF VersionStatus, DryRun, GatePublish, ConfirmAction, Exit, Writing
<1>3. CASE DeleteVersion
  <2>1. PICK o \in CallOutcome :
          /\ version' = IF o = "failed" THEN version ELSE AbsentVersion
          /\ IF o = "done" THEN BeginUploads /\ UNCHANGED result
             ELSE Exit("undeleted") /\ UNCHANGED group
    BY <1>3 DEF DeleteVersion, DeleteAccepted
  <2>2. CASE o = "done"
    BY <1>3, <2>1, <2>2, BeginResult DEF DeleteVersion
  <2>3. CASE o # "done"
    BY <1>3, <2>1, <2>3, EarlyResult DEF DeleteVersion, Exit, Writing
  <2> QED
    BY <2>2, <2>3
<1>4. CASE NothingToDelete
  <2>1. ~ opts.resume => version = AbsentVersion
    BY <1>4 DEF NothingToDelete, IInv, GateHolds, AbsentIsEmpty
  <2> QED
    BY <1>4, <2>1, BeginResult DEF NothingToDelete
<1>5. ASSUME NEW i \in Index, ReadSource(i) PROVE ResultInv'
  BY <1>5, WritingResult DEF ReadSource, Uploading, Writing
<1>6. ASSUME NEW i \in Index, ReadSourceFails(i) PROVE ResultInv'
  BY <1>6, WritingResult DEF ReadSourceFails, Uploading, Writing, Return
<1>7. ASSUME NEW i \in Index, PublishAsset(i) PROVE ResultInv'
  <2>1. /\ pc \in {"first", "rest"} /\ i \in running /\ i \in manifest /\ i \in Asset
        /\ spill[i] \in Bytes /\ version \in VersionsWith(Documents)
    BY <1>7, PublishAssumption
       DEF PublishAsset, Uploading, ResultInv, OnlyManifest, IInv, TypeOK, Contents
  <2>2. /\ UNCHANGED <<pc, result, flags>>
        /\ running' = running \ {i} /\ pending' = pending
    BY <1>7 DEF PublishAsset, Return
  <2>3. version' = version \/ version' = PutAsset(version, i, spill[i])
    BY <1>7 DEF PublishAsset
  <2>4. Stored(version') \subseteq Stored(version) \cup {i}
    <3>1. PutAsset(version, i, spill[i]).assets = [version.assets EXCEPT ![i] = spill[i]]
      BY <2>1, PutAssetEffect
    <3>2. version.assets \in Contents
      BY <2>1 DEF VersionsWith
    <3> HIDE DEF Stored
    <3>3. ASSUME NEW v, v.assets = [version.assets EXCEPT ![i] = spill[i]]
          PROVE  Stored(v) \subseteq Stored(version) \cup {i}
      BY <3>2, <3>3 DEF Stored, Contents
    <3> QED
      BY <2>3, <3>1, <3>3
  <2> QED
    BY <2>1, <2>2, <2>4 DEF ResultInv, OnlyManifest, NoResultYet, FreshPublishIsExact,
       FailureIsResumable, Writing
<1>8. CASE FirstReturned
  BY <1>8, ExitFailedResult, WritingResult DEF FirstReturned, Writing
<1>9. CASE SpawnRest
  BY <1>9, WritingResult DEF SpawnRest, Spawn, Writing
<1>10. CASE RestReturned
  BY <1>10, ExitFailedResult, WritingResult DEF RestReturned, Writing
<1>11. CASE BuildPublishProvenance
  BY <1>11, WritingResult DEF BuildPublishProvenance, Writing
<1>12. CASE FinalizeFails
  BY <1>12, EarlyResult DEF FinalizeFails, Exit, Writing
<1>13. CASE FinalizeProvenance
  <2>1. PICK o \in CallOutcome :
          /\ version' = IF o = "failed" THEN version ELSE PutFinalizer(version, built)
          /\ IF o = "done" THEN Exit("published") ELSE Exit("unfinalized")
    BY <1>13 DEF FinalizeProvenance
  <2>2. CASE o = "done"
    <3>1. /\ version \in VersionsWith(Documents) /\ built \in Documents
          /\ manifest \subseteq Asset /\ \A a \in manifest : version.assets[a] # None
      BY <1>13, PublishAssumption DEF FinalizeProvenance, IInv, TypeOK, DocumentBuilt
    <3>2. version'.status = "Published" /\ version'.assets = version.assets
      BY <2>1, <2>2, <3>1, PutFinalizerEffect
    <3>3. Stored(version') = Stored(version)
      BY <3>2 DEF Stored
    <3>4. ~ opts.resume => Stored(version) = manifest
      BY <1>13, <3>1 DEF FinalizeProvenance, ResultInv, OnlyManifest, Writing, Stored
    <3> QED
      BY <1>13, <2>1, <2>2, <3>2, <3>3, <3>4
         DEF FinalizeProvenance, Exit, ResultInv, OnlyManifest, NoResultYet,
             FreshPublishIsExact, FailureIsResumable, Writing
  <2>3. CASE o # "done"
    BY <1>13, <2>1, <2>3, EarlyResult DEF FinalizeProvenance, Exit, Writing
  <2> QED
    BY <2>2, <2>3
<1>14. CASE Cancel
  BY <1>14 DEF Cancel, ResultInv, OnlyManifest, NoResultYet, FreshPublishIsExact,
     FailureIsResumable
<1>15. CASE Crash
  BY <1>15, EarlyResult DEF Crash, Exit, Writing
<1>16. CASE UNCHANGED vars
  BY <1>16 DEF vars, ResultInv, OnlyManifest, NoResultYet, FreshPublishIsExact,
     FailureIsResumable
<1> QED
  BY <1>1, <1>2, <1>3, <1>4, <1>5, <1>6, <1>7, <1>8, <1>9, <1>10, <1>11, <1>12,
     <1>13, <1>14, <1>15, <1>16 DEF Next, Advance

LEMMA ResultsHold == Spec => []ResultInv
BY InitResult, ResultStep, InvariantHolds, PTL DEF Spec

\* FreshPublishIsExact: without --resume, exit 0 means that the version is
\* Published with the assets of this manifest and no others.
THEOREM SuccessIsExact == Spec => []FreshPublishIsExact
BY ResultsHold, PTL DEF ResultInv

\* FailureIsResumable: a failed run with an asset in place left the version
\* Unfinished, so that the advice to re-run with --resume can be followed.
THEOREM FailureResumes == Spec => []FailureIsResumable
BY ResultsHold, PTL DEF ResultInv
=============================================================================
