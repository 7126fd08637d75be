---------------------------- MODULE StagesProofs ----------------------------
(***************************************************************************)
(* promote and rm, for any repositories, any number of commands side by    *)
(* side, any contents and any length of chain.                             *)
(*                                                                         *)
(* What a command remembers and what its repository holds agree because    *)
(* nobody else writes that repository meanwhile; the source of a promote,  *)
(* which anybody may change, is only trusted for what was downloaded.      *)
(***************************************************************************)
EXTENDS Stages, TLAPS

\* No two commands under way write one repository.
OneWriter ==
  \A v, w \in Worker :
    job[v].step # "idle" /\ job[w].step # "idle" /\ job[v].at = job[w].at => v = w

\* A command knows its repositories and its flags.
Started(j) ==
  /\ j.from \in Repo /\ j.at \in Repo
  /\ Allowed(j.verb, j.from, j.at, j.force, j.more)

\* The status read of the repository is still its status.
SeenIsTrue(j, v) ==
  j.step \in {"gate", "check", "confirm", "delete"} => j.seen = v.status

\* A promote past its gate: what a resume may skip is what is there.
PastGate(j, v) ==
  j.step \in {"confirm", "delete"} =>
    /\ IF j.more THEN j.seen = "Unfinished" ELSE j.seen = "Absent" \/ j.force
    /\ j.present = IF j.more THEN v.assets ELSE NoContents

\* Nothing is downloaded before the assets are listed.
NotYetCopied(j) ==
  j.step \in {"status", "gate", "confirm", "delete", "list"} =>
    j.got = NoContents /\ j.placed = {}

\* A promote that fills its destination: it holds what was skipped and what
\* was uploaded, and nothing else.
Filled(j, v) ==
  j.step \in {"list", "copy", "fetch", "commit"} =>
    /\ v.status # "Published"
    /\ v.assets = [a \in Asset |-> IF a \in j.placed THEN j.got[a] ELSE j.present[a]]
    /\ \A a \in Asset : j.got[a] # None => a \in j.names /\ j.present[a] = None
    /\ \A a \in j.placed : j.got[a] # None

\* Everything listed gets there before the document is written.
CopyIsWhole(j) ==
  /\ j.step \in {"copy", "fetch", "commit"} => j.names # {}
  /\ j.step \in {"fetch", "commit"} =>
       \A a \in j.names : j.present[a] = None => a \in j.placed

PromoteInv(j, v) ==
  /\ PastGate(j, v)
  /\ NotYetCopied(j)
  /\ Filled(j, v)
  /\ CopyIsWhole(j)

\* What the gates of rm have let through.
RmInv(j) ==
  /\ j.step \in {"status", "gate", "check", "confirm", "delete"}
  /\ j.step \in {"check", "confirm", "delete"} /\ j.seen = "Published" => j.force
  /\ j.step \in {"confirm", "delete"} /\ j.seen = "Published" =>
       j.more \/ j.cut \/ \A r \in Repo \ {j.at} : j.probes[r] = "absent"

\* A command and the repository it writes.
JobInv(j, v) ==
  /\ Started(j)
  /\ SeenIsTrue(j, v)
  /\ IF j.verb = "promote" THEN PromoteInv(j, v) ELSE RmInv(j)

\* What a repository holds: nothing, some assets, or assets and a true document.
StoreInv(r, v) ==
  /\ v.status = "Absent" => v = AbsentVersion
  /\ v.status = "Unfinished" => v.doc = None /\ Stored(v) # {}
  /\ v.status = "Published" =>
       v.doc # None /\ \A a \in Asset : v.doc.sha[a] \in {None, v.assets[a]}
  /\ v.doc # None =>
       /\ v.doc.chain[Len(v.doc.chain)] = r
       /\ Len(v.doc.chain) = 1 => r \in Roots

IInv ==
  /\ TypeOK
  /\ OneWriter
  /\ \A w \in Worker : job[w].step # "idle" => JobInv(job[w], held[job[w].at])
  /\ \A r \in Repo : StoreInv(r, held[r])

-----------------------------------------------------------------------------
(* Versions and jobs, as facts about records                               *)

LEMMA AbsentVersionType == AbsentVersion \in VersionsWith(Documents)
BY DEF AbsentVersion, VersionsWith, Status, Contents

LEMMA PutAssetEffect ==
  ASSUME NEW v \in VersionsWith(Documents), NEW a \in Asset, NEW b \in Bytes
  PROVE  /\ PutAsset(v, a, b) \in VersionsWith(Documents)
         /\ v.status = "Absent" => PutAsset(v, a, b).status = "Unfinished"
         /\ v.status # "Absent" => PutAsset(v, a, b).status = v.status
         /\ PutAsset(v, a, b).assets = [v.assets EXCEPT ![a] = b]
         /\ PutAsset(v, a, b).doc = v.doc
BY DEF PutAsset, VersionsWith, Status, Contents

LEMMA PutFinalizerEffect ==
  ASSUME NEW v \in VersionsWith(Documents), NEW d \in Documents
  PROVE  /\ PutFinalizer(v, d) \in VersionsWith(Documents)
         /\ PutFinalizer(v, d).status = "Published"
         /\ PutFinalizer(v, d).assets = v.assets
         /\ PutFinalizer(v, d).doc = d
BY DEF PutFinalizer, VersionsWith, Status

LEMMA NoJobType == NoJob \in Jobs /\ NoJob.step = "idle"
BY DEF NoJob, Jobs, Step, Status, Probe, NoContents, Contents

LEMMA VersionParts ==
  ASSUME NEW v \in VersionsWith(Documents)
  PROVE  v.status \in Status /\ v.assets \in Contents /\ v.doc \in Documents \cup {None}
BY DEF VersionsWith

\* A command under way writes a repository, and no other command does.
LEMMA UnderWay ==
  ASSUME IInv, NEW w \in Worker, job[w].step # "idle"
  PROVE  /\ job[w] \in Jobs
         /\ JobInv(job[w], held[job[w].at])
         /\ job[w].at \in Repo /\ job[w].from \in Repo
         /\ held[job[w].at] \in VersionsWith(Documents)
         /\ held[job[w].from] \in VersionsWith(Documents)
         /\ StoreInv(job[w].at, held[job[w].at])
BY DEF IInv, TypeOK, JobInv, Started

\* A version that is not Published stays a good one with an asset more.
LEMMA PutAssetKeepsStore ==
  ASSUME NEW r, NEW v \in VersionsWith(Documents), NEW a \in Asset, NEW b \in Bytes,
         StoreInv(r, v), v.status # "Published"
  PROVE  StoreInv(r, PutAsset(v, a, b))
<1> DEFINE p == PutAsset(v, a, b)
<1>1. p.status = "Unfinished"
  BY PutAssetEffect, VersionParts DEF Status
<1>2. v.doc = None
  BY VersionParts DEF StoreInv, AbsentVersion, Status
<1>3. p.doc = None
  BY <1>2, PutAssetEffect
<1>4. p.assets[a] = b
  <2>1. p.assets = [v.assets EXCEPT ![a] = b] /\ v.assets \in Contents
    BY PutAssetEffect, VersionParts
  <2> QED
    BY <2>1 DEF Contents
<1>5. Stored(p) # {}
  BY <1>4, NoneIsNoContent DEF Stored
<1> HIDE DEF p
<1> QED
  BY <1>1, <1>3, <1>5 DEF StoreInv, p

\* Publishing with a document that is true of the bytes makes it a good one.
LEMMA PutFinalizerKeepsStore ==
  ASSUME NEW r, NEW v \in VersionsWith(Documents), NEW d \in Documents,
         \A a \in Asset : d.sha[a] \in {None, v.assets[a]},
         d.chain[Len(d.chain)] = r, Len(d.chain) = 1 => r \in Roots
  PROVE  StoreInv(r, PutFinalizer(v, d))
<1> DEFINE p == PutFinalizer(v, d)
<1>1. p.status = "Published" /\ p.assets = v.assets /\ p.doc = d
  BY PutFinalizerEffect
<1>2. d # None
  BY StagesAssumption
<1> HIDE DEF p
<1> QED
  BY <1>1, <1>2 DEF StoreInv, p

-----------------------------------------------------------------------------
(* What a step has to show                                                 *)

\* A command that writes v to its own repository and goes on with j, or ends.
LEMMA CommandKeeps ==
  ASSUME IInv, NEW w \in Worker, job[w].step # "idle",
         NEW j \in Jobs, job' = [job EXCEPT ![w] = j],
         j.step # "idle" => j.at = job[w].at,
         NEW v \in VersionsWith(Documents), held' = [held EXCEPT ![job[w].at] = v],
         StoreInv(job[w].at, v),
         j.step # "idle" => JobInv(j, v),
         commands' = commands
  PROVE  IInv'
<1>1. job[w].at \in Repo
  BY UnderWay
<1>2. TypeOK'
  BY <1>1 DEF IInv, TypeOK
<1>3. OneWriter'
  BY DEF IInv, TypeOK, OneWriter
<1>4. ASSUME NEW x \in Worker, job'[x].step # "idle"
      PROVE  JobInv(job'[x], held'[job'[x].at])
  <2>1. CASE x = w
    <3>1. job'[x] = j /\ held'[j.at] = v
      BY <1>1, <1>4, <2>1 DEF IInv, TypeOK
    <3> QED
      BY <1>4, <3>1
  <2>2. CASE x # w
    <3>1. job'[x] = job[x] /\ job[x].at # job[w].at
      BY <1>4, <2>2 DEF IInv, TypeOK, OneWriter
    <3>2. held'[job[x].at] = held[job[x].at]
      BY <1>4, <3>1, UnderWay DEF IInv, TypeOK
    <3> QED
      BY <1>4, <3>1, <3>2, UnderWay
  <2> QED
    BY <2>1, <2>2
<1>5. ASSUME NEW r \in Repo PROVE StoreInv(r, held'[r])
  BY <1>1 DEF IInv, TypeOK
<1> QED
  BY <1>2, <1>3, <1>4, <1>5 DEF IInv, JobInv, StoreInv, SeenIsTrue, PastGate, PromoteInv, Filled

\* A command that only reads.
LEMMA ReadKeeps ==
  ASSUME IInv, NEW w \in Worker, job[w].step # "idle",
         NEW j \in Jobs, job' = [job EXCEPT ![w] = j],
         j.step # "idle" => j.at = job[w].at /\ JobInv(j, held[job[w].at]),
         UNCHANGED <<held, commands>>
  PROVE  IInv'
<1>1. held' = [held EXCEPT ![job[w].at] = held[job[w].at]]
  BY UnderWay DEF IInv, TypeOK
<1> QED
  BY <1>1, UnderWay, CommandKeeps

\* A publisher, which writes where no command does.
LEMMA PublisherKeeps ==
  ASSUME IInv, NEW r \in Repo, ~ Busy(r), NEW v \in VersionsWith(Documents),
         held' = [held EXCEPT ![r] = v], StoreInv(r, v), UNCHANGED <<job, commands>>
  PROVE  IInv'
<1>1. TypeOK' /\ OneWriter'
  BY DEF IInv, TypeOK, OneWriter
<1>2. ASSUME NEW x \in Worker, job[x].step # "idle"
      PROVE  JobInv(job[x], held'[job[x].at])
  <2>1. held'[job[x].at] = held[job[x].at]
    BY <1>2, UnderWay DEF IInv, TypeOK, Busy
  <2> QED
    BY <1>2, <2>1, UnderWay
<1>3. ASSUME NEW s \in Repo PROVE StoreInv(s, held'[s])
  BY DEF IInv, TypeOK
<1> QED
  BY <1>1, <1>2, <1>3 DEF IInv

-----------------------------------------------------------------------------
LEMMA InitHolds == Init => IInv
<1> SUFFICES ASSUME Init PROVE IInv
  OBVIOUS
<1>1. TypeOK
  BY AbsentVersionType, NoJobType, StagesAssumption DEF Init, TypeOK
<1>2. \A w \in Worker : job[w].step = "idle"
  BY NoJobType DEF Init
<1>3. \A r \in Repo : StoreInv(r, held[r])
  BY DEF Init, StoreInv, AbsentVersion
<1> QED
  BY <1>1, <1>2, <1>3 DEF IInv, OneWriter

LEMMA PublisherPreserves ==
  ASSUME IInv, NEW r \in Roots, PublisherFills(r) \/ PublisherFinalizes(r)
  PROVE  IInv'
<1>1. r \in Repo /\ held[r] \in VersionsWith(Documents) /\ StoreInv(r, held[r])
  BY StagesAssumption DEF IInv, TypeOK
<1>2. CASE PublisherFills(r)
  <2>1. PICK a \in Asset, b \in Bytes : held' = [held EXCEPT ![r] = PutAsset(held[r], a, b)]
    BY <1>2 DEF PublisherFills
  <2>2. StoreInv(r, PutAsset(held[r], a, b))
    BY <1>1, <1>2, PutAssetKeepsStore DEF PublisherFills
  <2> QED
    BY <1>1, <1>2, <2>1, <2>2, PutAssetEffect, PublisherKeeps DEF PublisherFills
<1>3. CASE PublisherFinalizes(r)
  <2> DEFINE c == held[r].assets
             d == [sha |-> c, origin |-> c, chain |-> <<r>>]
  <2>1. c \in Contents
    BY <1>1, VersionParts
  <2>2. <<r>> \in Chains
    BY <1>1, StagesAssumption DEF Chains
  <2>3. d \in Documents
    BY <2>1, <2>2 DEF Documents
  <2>4. Len(d.chain) = 1 /\ d.chain[Len(d.chain)] = r /\ d.sha = held[r].assets
    OBVIOUS
  <2> HIDE DEF d
  <2>5. StoreInv(r, PutFinalizer(held[r], d))
    BY <1>1, <2>3, <2>4, PutFinalizerKeepsStore
  <2> QED
    BY <1>1, <1>3, <2>3, <2>5, PutFinalizerEffect, PublisherKeeps DEF PublisherFinalizes, d
<1> QED
  BY <1>2, <1>3

\* A command starts with nothing remembered, where no other one writes.
LEMMA StartPreserves ==
  ASSUME IInv, NEW w \in Worker, Start(w)
  PROVE  IInv'
<1>1. PICK verb \in {"promote", "rm"}, from \in Repo, at \in Repo, force \in BOOLEAN,
           more \in BOOLEAN :
        /\ Allowed(verb, from, at, force, more)
        /\ ~ Busy(at)
        /\ job' = [job EXCEPT ![w] =
             [NoJob EXCEPT !.step = "status", !.verb = verb, !.from = from,
                           !.at = at, !.force = force, !.more = more]]
  BY DEF Start
<1> DEFINE j == [NoJob EXCEPT !.step = "status", !.verb = verb, !.from = from,
                              !.at = at, !.force = force, !.more = more]
<1>2. j \in Jobs
  BY NoJobType DEF Jobs, Step
<1>3. /\ j.step = "status" /\ j.verb = verb /\ j.from = from /\ j.at = at
      /\ j.force = force /\ j.more = more
  BY NoJobType DEF Jobs
<1>4. j.got = NoContents /\ j.placed = {}
  BY DEF NoJob
<1> HIDE DEF j
<1>5. \A v : JobInv(j, v)
  BY <1>1, <1>3, <1>4 DEF JobInv, Started, SeenIsTrue, PromoteInv, PastGate, NotYetCopied, Filled,
     CopyIsWhole, RmInv
<1>6. commands' \in 0 .. MaxCommands /\ held' = held
  BY StagesAssumption DEF Start, IInv, TypeOK
<1>7. TypeOK'
  BY <1>1, <1>2, <1>6 DEF IInv, TypeOK, j
<1>8. ASSUME NEW x \in Worker PROVE job'[x] = IF x = w THEN j ELSE job[x]
  BY <1>1 DEF IInv, TypeOK, j
<1>9. OneWriter'
  BY <1>1, <1>3, <1>8 DEF IInv, OneWriter, Busy
<1>10. \A x \in Worker : job'[x].step # "idle" => JobInv(job'[x], held'[job'[x].at])
  BY <1>5, <1>6, <1>8 DEF IInv
<1> QED
  BY <1>6, <1>7, <1>9, <1>10 DEF IInv

-----------------------------------------------------------------------------
(* The steps promote and rm share                                          *)

\* What a job looks like once a command has taken a step.
LEMMA StepType ==
  ASSUME NEW j \in Jobs, NEW s \in Step
  PROVE  /\ [j EXCEPT !.step = s] \in Jobs
         /\ [j EXCEPT !.step = s].step = s
BY DEF Jobs

LEMMA VersionStatusPreserves ==
  ASSUME IInv, NEW w \in Worker, VersionStatus(w)
  PROVE  IInv'
<1> DEFINE j == [job[w] EXCEPT !.seen = held[job[w].at].status, !.step = "gate"]
<1>1. job[w].step = "status"
  BY DEF VersionStatus
<1>2. job[w] \in Jobs /\ held[job[w].at].status \in Status /\ JobInv(job[w], held[job[w].at])
  BY <1>1, UnderWay, VersionParts
<1>3. j \in Jobs
  BY <1>2 DEF Jobs, Step
<1>4. /\ j.step = "gate" /\ j.seen = held[job[w].at].status
      /\ j.verb = job[w].verb /\ j.from = job[w].from /\ j.at = job[w].at
      /\ j.force = job[w].force /\ j.more = job[w].more
      /\ j.got = job[w].got /\ j.placed = job[w].placed
  BY <1>2 DEF Jobs
<1>5. job' = [job EXCEPT ![w] = j] /\ UNCHANGED <<held, commands>>
  BY DEF VersionStatus
<1> HIDE DEF j
<1>6. JobInv(j, held[job[w].at])
  BY <1>1, <1>2, <1>4 DEF JobInv, Started, SeenIsTrue, PromoteInv, PastGate, NotYetCopied,
     Filled, CopyIsWhole, RmInv
<1> QED
  BY <1>1, <1>3, <1>4, <1>5, <1>6, ReadKeeps

LEMMA ConfirmActionPreserves ==
  ASSUME IInv, NEW w \in Worker, ConfirmAction(w)
  PROVE  IInv'
<1> DEFINE j == [job[w] EXCEPT !.step = "delete"]
<1>1. job[w].step = "confirm"
  BY DEF ConfirmAction
<1>2. job[w] \in Jobs /\ JobInv(job[w], held[job[w].at])
  BY <1>1, UnderWay
<1>3. j \in Jobs
  BY <1>2, StepType DEF Step
<1>4. /\ j.step = "delete" /\ j.seen = job[w].seen
      /\ j.verb = job[w].verb /\ j.from = job[w].from /\ j.at = job[w].at
      /\ j.force = job[w].force /\ j.more = job[w].more /\ j.cut = job[w].cut
      /\ j.present = job[w].present /\ j.probes = job[w].probes
      /\ j.got = job[w].got /\ j.placed = job[w].placed
  BY <1>2 DEF Jobs
<1>5. job' = [job EXCEPT ![w] = j] /\ UNCHANGED <<held, commands>>
  BY <1>2 DEF ConfirmAction
<1> HIDE DEF j
<1>6. JobInv(j, held[job[w].at])
  BY <1>1, <1>2, <1>4 DEF JobInv, Started, SeenIsTrue, PromoteInv, PastGate, NotYetCopied,
     Filled, CopyIsWhole, RmInv
<1> QED
  BY <1>1, <1>3, <1>4, <1>5, <1>6, ReadKeeps

LEMMA GiveUpPreserves ==
  ASSUME IInv, NEW w \in Worker, GiveUp(w)
  PROVE  IInv'
BY NoJobType, ReadKeeps DEF GiveUp

LEMMA CancelPreserves ==
  ASSUME IInv, NEW w \in Worker, Cancel(w)
  PROVE  IInv'
<1> DEFINE j == [job[w] EXCEPT !.cut = TRUE]
<1>1. job[w].step # "idle" /\ job[w].verb = "rm"
  BY DEF Cancel
<1>2. job[w] \in Jobs /\ JobInv(job[w], held[job[w].at])
  BY <1>1, UnderWay
<1>3. j \in Jobs
  BY <1>2 DEF Jobs
<1>4. /\ j.step = job[w].step /\ j.seen = job[w].seen /\ j.cut
      /\ j.verb = job[w].verb /\ j.from = job[w].from /\ j.at = job[w].at
      /\ j.force = job[w].force /\ j.more = job[w].more
  BY <1>2 DEF Jobs
<1>5. job' = [job EXCEPT ![w] = j] /\ UNCHANGED <<held, commands>>
  BY <1>2 DEF Cancel
<1> HIDE DEF j
<1>6. JobInv(j, held[job[w].at])
  BY <1>1, <1>2, <1>4 DEF JobInv, Started, SeenIsTrue, RmInv
<1> QED
  BY <1>1, <1>3, <1>4, <1>5, <1>6, ReadKeeps

-----------------------------------------------------------------------------
(* promote                                                                 *)

LEMMA GatePromotePreserves ==
  ASSUME IInv, NEW w \in Worker, GatePromote(w)
  PROVE  IInv'
<1> DEFINE j == [job[w] EXCEPT !.step = "confirm", !.present = Listing(w)]
<1>1. job[w].step = "gate" /\ job[w].verb = "promote" /\ MayPromote(w)
  BY DEF GatePromote, At
<1>2. /\ job[w] \in Jobs /\ JobInv(job[w], held[job[w].at])
      /\ held[job[w].at].assets \in Contents
  BY <1>1, UnderWay, VersionParts
<1>3. Listing(w) = IF job[w].more THEN held[job[w].at].assets ELSE NoContents
  BY DEF Listing
<1>4. Listing(w) \in Contents
  BY <1>2, <1>3 DEF NoContents, Contents
<1>5. j \in Jobs
  BY <1>2, <1>4 DEF Jobs, Step
<1>6. /\ j.step = "confirm" /\ j.present = Listing(w) /\ j.seen = job[w].seen
      /\ j.verb = "promote" /\ j.from = job[w].from /\ j.at = job[w].at
      /\ j.force = job[w].force /\ j.more = job[w].more
      /\ j.got = job[w].got /\ j.placed = job[w].placed
  BY <1>1, <1>2 DEF Jobs
<1>7. job' = [job EXCEPT ![w] = j] /\ UNCHANGED <<held, commands>>
  BY DEF GatePromote
<1> HIDE DEF j
<1>8. JobInv(j, held[job[w].at])
  BY <1>1, <1>2, <1>3, <1>6 DEF JobInv, Started, SeenIsTrue, PromoteInv, PastGate,
     NotYetCopied, Filled, CopyIsWhole, MayPromote
<1> QED
  BY <1>1, <1>5, <1>6, <1>7, <1>8, ReadKeeps

\* The destination is empty, or what a resume lists is what it holds.
LEMMA DeletePreserves ==
  ASSUME IInv, NEW w \in Worker, PromoteDeletes(w) \/ NothingToDelete(w)
  PROVE  IInv'
<1> DEFINE j == [job[w] EXCEPT !.step = "list"]
           at == job[w].at
<1>1. job[w].step = "delete" /\ job[w].verb = "promote"
  BY DEF PromoteDeletes, NothingToDelete, At
<1>2. /\ job[w] \in Jobs /\ JobInv(job[w], held[at]) /\ at \in Repo
      /\ held[at].assets \in Contents /\ StoreInv(at, held[at])
  BY <1>1, UnderWay, VersionParts
<1>3. j \in Jobs
  BY <1>2, StepType DEF Step
<1>4. /\ j.step = "list" /\ j.present = job[w].present
      /\ j.verb = "promote" /\ j.from = job[w].from /\ j.at = at
      /\ j.force = job[w].force /\ j.more = job[w].more
      /\ j.got = job[w].got /\ j.placed = job[w].placed
  BY <1>1, <1>2 DEF Jobs
<1>5. job' = [job EXCEPT ![w] = j] /\ UNCHANGED commands
  BY <1>2 DEF PromoteDeletes, NothingToDelete
<1>6. j.got = NoContents /\ j.placed = {}
  BY <1>1, <1>2, <1>4 DEF JobInv, PromoteInv, NotYetCopied
<1>7. /\ held[at].status = job[w].seen
      /\ IF j.more THEN job[w].seen = "Unfinished" ELSE job[w].seen = "Absent" \/ j.force
      /\ j.present = IF j.more THEN held[at].assets ELSE NoContents
      /\ ~ (j.force /\ j.more)
  BY <1>1, <1>2, <1>4 DEF JobInv, Started, Allowed, SeenIsTrue, PromoteInv, PastGate
<1> HIDE DEF j
<1>8. ASSUME NEW v, v.status # "Published", v.assets = j.present, v.assets \in Contents
      PROVE  JobInv(j, v)
  <2>1. Filled(j, v)
    BY <1>6, <1>8 DEF Filled, NoContents, Contents
  <2>2. NotYetCopied(j) /\ CopyIsWhole(j) /\ PastGate(j, v) /\ SeenIsTrue(j, v) /\ Started(j)
    BY <1>1, <1>2, <1>4, <1>6
       DEF NotYetCopied, CopyIsWhole, PastGate, SeenIsTrue, Started, JobInv
  <2> QED
    BY <1>4, <2>1, <2>2 DEF JobInv, PromoteInv
<1>9. CASE PromoteDeletes(w)
  <2>1. held' = [held EXCEPT ![at] = AbsentVersion] /\ job[w].force
    BY <1>9 DEF PromoteDeletes
  <2>2. JobInv(j, AbsentVersion)
    <3>1. AbsentVersion.status = "Absent" /\ AbsentVersion.assets = NoContents
          /\ NoContents \in Contents
      BY DEF AbsentVersion, NoContents, Contents
    <3>2. j.present = NoContents
      BY <1>4, <1>7, <2>1
    <3> QED
      BY <1>8, <3>1, <3>2
  <2>3. StoreInv(at, AbsentVersion)
    BY DEF StoreInv, AbsentVersion
  <2> QED
    BY <1>1, <1>3, <1>4, <1>5, <2>1, <2>2, <2>3, AbsentVersionType, CommandKeeps
<1>10. CASE NothingToDelete(w)
  <2>1. held' = held /\ ~ (j.force /\ job[w].seen # "Absent")
    BY <1>4, <1>10 DEF NothingToDelete
  <2>2. held[at].status = "Absent" => held[at].assets = NoContents
    BY <1>2 DEF StoreInv, AbsentVersion, NoContents
  <2>3. JobInv(j, held[at])
    BY <1>2, <1>7, <1>8, <2>1, <2>2
  <2> QED
    BY <1>1, <1>3, <1>4, <1>5, <2>1, <2>3, ReadKeeps
<1> QED
  BY <1>9, <1>10

LEMMA ListAssetsToPromotePreserves ==
  ASSUME IInv, NEW w \in Worker, ListAssetsToPromote(w)
  PROVE  IInv'
<1> DEFINE j == [job[w] EXCEPT !.names = Stored(held[job[w].from]), !.step = "copy"]
           at == job[w].at
<1>1. job[w].step = "list" /\ job[w].verb = "promote" /\ Stored(held[job[w].from]) # {}
  BY DEF ListAssetsToPromote, At
<1>2. job[w] \in Jobs /\ JobInv(job[w], held[at])
  BY <1>1, UnderWay
<1>3. j \in Jobs
  BY <1>2 DEF Jobs, Step, Stored
<1>4. /\ j.step = "copy" /\ j.present = job[w].present /\ j.names # {}
      /\ j.verb = "promote" /\ j.from = job[w].from /\ j.at = at
      /\ j.force = job[w].force /\ j.more = job[w].more
      /\ j.got = job[w].got /\ j.placed = job[w].placed
  BY <1>1, <1>2 DEF Jobs
<1>5. job' = [job EXCEPT ![w] = j] /\ UNCHANGED <<held, commands>>
  BY DEF ListAssetsToPromote
<1> HIDE DEF j
<1>6. JobInv(j, held[at])
  BY <1>1, <1>2, <1>4 DEF JobInv, Started, SeenIsTrue, PromoteInv, PastGate,
     NotYetCopied, Filled, CopyIsWhole, NoContents
<1> QED
  BY <1>1, <1>3, <1>4, <1>5, <1>6, ReadKeeps

LEMMA DownloadPreserves ==
  ASSUME IInv, NEW w \in Worker, NEW a \in Asset, Download(w, a)
  PROVE  IInv'
<1> DEFINE b == held[job[w].from].assets[a]
           j == [job[w] EXCEPT !.got[a] = b]
           at == job[w].at
<1>1. /\ job[w].step = "copy" /\ job[w].verb = "promote" /\ b # None
      /\ a \in job[w].names /\ job[w].present[a] = None /\ job[w].got[a] = None
  BY DEF Download, At, Todos
<1>2. /\ job[w] \in Jobs /\ JobInv(job[w], held[at])
      /\ held[job[w].from].assets \in Contents
  BY <1>1, UnderWay, VersionParts
<1>3. b \in Bytes /\ job[w].got \in Contents
  BY <1>1, <1>2 DEF Contents, Jobs
<1>4. j \in Jobs
  BY <1>2, <1>3 DEF Jobs, Contents
<1>5. /\ j.step = "copy" /\ j.present = job[w].present /\ j.names = job[w].names
      /\ j.verb = "promote" /\ j.from = job[w].from /\ j.at = at
      /\ j.force = job[w].force /\ j.more = job[w].more
      /\ j.got = [job[w].got EXCEPT ![a] = b] /\ j.placed = job[w].placed
  BY <1>1, <1>2 DEF Jobs
<1>6. job' = [job EXCEPT ![w] = j] /\ UNCHANGED <<held, commands>>
  BY <1>2 DEF Download
<1> HIDE DEF j, b
<1>7. Filled(job[w], held[at]) /\ CopyIsWhole(job[w])
  BY <1>1, <1>2 DEF JobInv, PromoteInv
<1>8. a \notin job[w].placed
  BY <1>1, <1>7 DEF Filled
<1>9. \A c \in Asset : j.got[c] = IF c = a THEN b ELSE job[w].got[c]
  BY <1>3, <1>5 DEF Contents
<1>10. Filled(j, held[at])
  <2>1. job[w].placed \subseteq Asset
    BY <1>2 DEF Jobs
  <2> QED
    BY <1>1, <1>5, <1>7, <1>8, <1>9, <2>1 DEF Filled
<1>11. JobInv(j, held[at])
  BY <1>1, <1>2, <1>5, <1>7, <1>10 DEF JobInv, Started, SeenIsTrue, PromoteInv, PastGate,
     NotYetCopied, CopyIsWhole
<1> QED
  BY <1>1, <1>4, <1>5, <1>6, <1>11, ReadKeeps

\* The content that was downloaded, where there was nothing.
LEMMA UploadPreserves ==
  ASSUME IInv, NEW w \in Worker, NEW a \in Asset, Upload(w, a)
  PROVE  IInv'
<1> DEFINE j == [job[w] EXCEPT !.placed = @ \cup {a}]
           at == job[w].at
           v == PutAsset(held[at], a, job[w].got[a])
<1>1. /\ job[w].step = "copy" /\ job[w].verb = "promote"
      /\ job[w].got[a] # None /\ a \notin job[w].placed
  BY DEF Upload, At
<1>2. /\ job[w] \in Jobs /\ JobInv(job[w], held[at]) /\ StoreInv(at, held[at])
      /\ held[at] \in VersionsWith(Documents) /\ held[at].assets \in Contents
  BY <1>1, UnderWay, VersionParts
<1>3. job[w].got[a] \in Bytes /\ job[w].got \in Contents /\ job[w].placed \subseteq Asset
  BY <1>1, <1>2 DEF Contents, Jobs
<1>4. j \in Jobs
  BY <1>2, <1>3 DEF Jobs
<1>5. /\ j.step = "copy" /\ j.present = job[w].present /\ j.names = job[w].names
      /\ j.verb = "promote" /\ j.from = job[w].from /\ j.at = at
      /\ j.force = job[w].force /\ j.more = job[w].more
      /\ j.got = job[w].got /\ j.placed = job[w].placed \cup {a}
  BY <1>1, <1>2 DEF Jobs
<1>6. job' = [job EXCEPT ![w] = j] /\ held' = [held EXCEPT ![at] = v] /\ UNCHANGED commands
  BY <1>2 DEF Upload
<1>7. Filled(job[w], held[at]) /\ CopyIsWhole(job[w])
  BY <1>1, <1>2 DEF JobInv, PromoteInv
<1>8. /\ v \in VersionsWith(Documents)
      /\ v.status # "Published"
      /\ v.assets = [held[at].assets EXCEPT ![a] = job[w].got[a]]
  BY <1>1, <1>2, <1>3, <1>7, PutAssetEffect, VersionParts DEF Filled, Status
<1>9. StoreInv(at, v)
  BY <1>1, <1>2, <1>3, <1>7, PutAssetKeepsStore DEF Filled
<1> HIDE DEF j, v
<1>10. Filled(j, v)
  BY <1>1, <1>2, <1>3, <1>5, <1>7, <1>8 DEF Filled, Contents
<1>11. JobInv(j, v)
  BY <1>1, <1>2, <1>5, <1>7, <1>10 DEF JobInv, Started, SeenIsTrue, PromoteInv, PastGate,
     NotYetCopied, CopyIsWhole
<1> QED
  BY <1>1, <1>4, <1>5, <1>6, <1>8, <1>9, <1>11, CommandKeeps

LEMMA CopyReturnedPreserves ==
  ASSUME IInv, NEW w \in Worker, CopyReturned(w)
  PROVE  IInv'
<1> DEFINE j == [job[w] EXCEPT !.step = "fetch"]
           at == job[w].at
<1>1. job[w].step = "copy" /\ job[w].verb = "promote" /\ Todos(w) \subseteq job[w].placed
  BY DEF CopyReturned, At, Copied
<1>2. job[w] \in Jobs /\ JobInv(job[w], held[at])
  BY <1>1, UnderWay
<1>3. j \in Jobs
  BY <1>2, StepType DEF Step
<1>4. /\ j.step = "fetch" /\ j.present = job[w].present /\ j.names = job[w].names
      /\ j.verb = "promote" /\ j.from = job[w].from /\ j.at = at
      /\ j.force = job[w].force /\ j.more = job[w].more
      /\ j.got = job[w].got /\ j.placed = job[w].placed
  BY <1>1, <1>2 DEF Jobs
<1>5. job' = [job EXCEPT ![w] = j] /\ UNCHANGED <<held, commands>>
  BY <1>2 DEF CopyReturned
<1> HIDE DEF j
<1>6. CopyIsWhole(j)
  BY <1>1, <1>2, <1>4 DEF JobInv, PromoteInv, CopyIsWhole, Todos
<1>7. JobInv(j, held[at])
  BY <1>1, <1>2, <1>4, <1>6 DEF JobInv, Started, SeenIsTrue, PromoteInv, PastGate,
     NotYetCopied, Filled
<1> QED
  BY <1>1, <1>3, <1>4, <1>5, <1>7, ReadKeeps

LEMMA FetchProvenancePreserves ==
  ASSUME IInv, NEW w \in Worker, FetchProvenance(w)
  PROVE  IInv'
<1> DEFINE j == [job[w] EXCEPT !.record = held[job[w].from].doc, !.step = "commit"]
           at == job[w].at
<1>1. job[w].step = "fetch" /\ job[w].verb = "promote"
  BY DEF FetchProvenance, At
<1>2. /\ job[w] \in Jobs /\ JobInv(job[w], held[at])
      /\ held[job[w].from].doc \in Documents \cup {None}
  BY <1>1, UnderWay, VersionParts
<1>3. j \in Jobs
  BY <1>2 DEF Jobs, Step
<1>4. /\ j.step = "commit" /\ j.present = job[w].present /\ j.names = job[w].names
      /\ j.verb = "promote" /\ j.from = job[w].from /\ j.at = at
      /\ j.force = job[w].force /\ j.more = job[w].more
      /\ j.got = job[w].got /\ j.placed = job[w].placed
  BY <1>1, <1>2 DEF Jobs
<1>5. job' = [job EXCEPT ![w] = j] /\ UNCHANGED <<held, commands>>
  BY DEF FetchProvenance
<1> HIDE DEF j
<1>6. JobInv(j, held[at])
  BY <1>1, <1>2, <1>4 DEF JobInv, Started, SeenIsTrue, PromoteInv, PastGate,
     NotYetCopied, Filled, CopyIsWhole
<1> QED
  BY <1>1, <1>3, <1>4, <1>5, <1>6, ReadKeeps

\* The document of a promote.
Promoted(w) ==
  [sha |-> Reconciled(w).sha, origin |-> Reconciled(w).origin, chain |-> Carried(w)]

\* It is one link longer than the chain it carries on.
LEMMA CarriedChain ==
  ASSUME IInv, NEW w \in Worker, At(w, "promote", "commit"), Len(Carried(w)) =< MaxLinks
  PROVE  /\ Carried(w) \in Chains
         /\ Len(Carried(w)) > 1
         /\ Carried(w)[Len(Carried(w))] = job[w].at
<1>1. /\ job[w] \in Jobs /\ job[w].at \in Repo /\ job[w].from \in Repo
  BY UnderWay DEF At
<1> DEFINE c == IF job[w].record = None THEN <<job[w].from>> ELSE job[w].record.chain
<1>2. PICK n \in 1 .. MaxLinks : c \in [1 .. n -> Repo]
  <2>1. CASE job[w].record = None
    <3>1. c \in [1 .. 1 -> Repo]
      BY <1>1, <2>1
    <3>2. 1 \in 1 .. MaxLinks
      BY StagesAssumption
    <3> HIDE DEF c
    <3> QED
      BY <3>1, <3>2
  <2>2. CASE job[w].record # None
    <3>1. job[w].record \in Documents
      BY <1>1, <2>2 DEF Jobs
    <3> QED
      BY <2>2, <3>1 DEF Documents, Chains
  <2> QED
    BY <2>1, <2>2
<1>3. c \in Seq(Repo) /\ Len(c) = n
  BY <1>2, StagesAssumption
<1>4. Carried(w) = Append(c, job[w].at)
  BY DEF Carried
<1> HIDE DEF c
<1>5. /\ Carried(w) \in Seq(Repo) /\ Len(Carried(w)) = n + 1
      /\ Carried(w)[n + 1] = job[w].at
  BY <1>1, <1>3, <1>4
<1>6. Carried(w) \in [1 .. n + 1 -> Repo] /\ n + 1 \in 1 .. MaxLinks
  BY <1>2, <1>5, StagesAssumption
<1> QED
  BY <1>2, <1>5, <1>6, StagesAssumption DEF Chains

\* It records the assets that were listed, each with the bytes it has by now.
LEMMA PromotedDocument ==
  ASSUME IInv, NEW w \in Worker, At(w, "promote", "commit"), Len(Carried(w)) =< MaxLinks
  PROVE  LET v == held[job[w].at] IN
         /\ Promoted(w) \in Documents
         /\ Promoted(w).sha =
              [a \in Asset |-> IF a \in job[w].names THEN v.assets[a] ELSE None]
         /\ job[w].names \subseteq Stored(v) /\ job[w].names # {}
         /\ Promoted(w).chain = Carried(w)
         /\ v.status = "Unfinished"
<1> DEFINE v == held[job[w].at]
           names == job[w].names
<1>1. /\ job[w].step = "commit" /\ job[w].verb = "promote" /\ job[w] \in Jobs
      /\ JobInv(job[w], v) /\ StoreInv(job[w].at, v) /\ v \in VersionsWith(Documents)
  BY UnderWay DEF At
<1>2. /\ job[w].present \in Contents /\ job[w].got \in Contents /\ names \subseteq Asset
      /\ job[w].record \in Documents \cup {None}
  BY <1>1 DEF Jobs
<1>3. Filled(job[w], v) /\ CopyIsWhole(job[w])
  BY <1>1 DEF JobInv, PromoteInv
<1> HIDE DEF v
<1>4. ASSUME NEW a \in names PROVE ShaOf(w, a) = v.assets[a] /\ v.assets[a] # None
  BY <1>1, <1>2, <1>3, <1>4 DEF ShaOf, Filled, CopyIsWhole
<1>5. Reconciled(w).sha = [a \in Asset |-> IF a \in names THEN v.assets[a] ELSE None]
  BY <1>4 DEF Reconciled
<1>6. v.assets \in Contents
  BY <1>1, VersionParts
<1>7. Reconciled(w).sha \in Contents
  BY <1>5, <1>6 DEF Contents
<1>8. Reconciled(w).origin \in Contents
  BY <1>2 DEF Reconciled, Documents, Contents
<1>9. Carried(w) \in Chains
  BY CarriedChain
<1>10. Promoted(w) \in Documents
  BY <1>7, <1>8, <1>9 DEF Promoted, Documents
<1>11. names \subseteq Stored(v) /\ names # {}
  BY <1>1, <1>2, <1>3, <1>4 DEF Stored, CopyIsWhole
<1>12. v.status = "Unfinished"
  BY <1>1, <1>3, <1>11, VersionParts DEF Filled, Status, StoreInv, AbsentVersion, Stored
<1> QED
  BY <1>5, <1>10, <1>11, <1>12 DEF Promoted, v

LEMMA FinalizePromotePreserves ==
  ASSUME IInv, NEW w \in Worker, FinalizePromote(w)
  PROVE  IInv'
<1> DEFINE at == job[w].at
           v == PutFinalizer(held[at], Promoted(w))
<1>1. At(w, "promote", "commit") /\ Len(Carried(w)) =< MaxLinks
  BY DEF FinalizePromote
<1>2. job[w].step # "idle" /\ held[at] \in VersionsWith(Documents) /\ at \in Repo
      /\ held[at].assets \in Contents
  BY <1>1, UnderWay, VersionParts DEF At
<1>3. held' = [held EXCEPT ![at] = v] /\ job' = [job EXCEPT ![w] = NoJob]
      /\ UNCHANGED commands
  BY DEF FinalizePromote, Promoted
<1>4. /\ Promoted(w) \in Documents
      /\ Promoted(w).sha =
           [a \in Asset |-> IF a \in job[w].names THEN held[at].assets[a] ELSE None]
      /\ Promoted(w).chain = Carried(w)
  BY <1>1, PromotedDocument
<1>5. \A a \in Asset : Promoted(w).sha[a] \in {None, held[at].assets[a]}
  BY <1>4
<1>6. /\ Promoted(w).chain[Len(Promoted(w).chain)] = at
      /\ Len(Promoted(w).chain) # 1
  BY <1>1, <1>4, CarriedChain
<1>7. StoreInv(at, v)
  BY <1>2, <1>4, <1>5, <1>6, PutFinalizerKeepsStore
<1>8. v \in VersionsWith(Documents)
  BY <1>2, <1>4, PutFinalizerEffect
<1> QED
  BY <1>2, <1>3, <1>7, <1>8, NoJobType, CommandKeeps

-----------------------------------------------------------------------------
(* rm                                                                      *)

LEMMA RmGatePreserves ==
  ASSUME IInv, NEW w \in Worker, GateUnfinished(w) \/ GatePublished(w)
  PROVE  IInv'
<1> DEFINE at == job[w].at
<1>1. job[w].step = "gate" /\ job[w].verb = "rm"
  BY DEF GateUnfinished, GatePublished, At
<1>2. job[w] \in Jobs /\ JobInv(job[w], held[at])
  BY <1>1, UnderWay
<1>3. ASSUME NEW s \in {"check", "confirm"}, job' = [job EXCEPT ![w].step = s],
             UNCHANGED <<held, commands>>,
             IF s = "check" THEN job[w].force ELSE job[w].seen # "Published"
      PROVE  IInv'
  <2> DEFINE j == [job[w] EXCEPT !.step = s]
  <2>1. j \in Jobs
    BY <1>2, StepType DEF Step
  <2>2. /\ j.step = s /\ j.seen = job[w].seen
        /\ j.verb = "rm" /\ j.from = job[w].from /\ j.at = at
        /\ j.force = job[w].force /\ j.more = job[w].more
    BY <1>1, <1>2 DEF Jobs
  <2>3. job' = [job EXCEPT ![w] = j]
    BY <1>2, <1>3
  <2> HIDE DEF j
  <2>4. JobInv(j, held[at])
    BY <1>1, <1>2, <1>3, <2>2 DEF JobInv, Started, SeenIsTrue, RmInv
  <2> QED
    BY <1>1, <1>3, <2>1, <2>2, <2>3, <2>4, ReadKeeps
<1>4. CASE GateUnfinished(w)
  BY <1>3, <1>4 DEF GateUnfinished
<1>5. CASE GatePublished(w)
  BY <1>3, <1>5 DEF GatePublished
<1> QED
  BY <1>4, <1>5

LEMMA ProbeRepositoryPreserves ==
  ASSUME IInv, NEW w \in Worker, NEW r \in Repo, ProbeRepository(w, r)
  PROVE  IInv'
<1>1. job[w].step = "check" /\ job[w].verb = "rm" /\ UNCHANGED <<held, commands>>
  BY DEF ProbeRepository, At
<1>2. job[w] \in Jobs /\ JobInv(job[w], held[job[w].at])
  BY <1>1, UnderWay
<1>3. PICK p \in Probe : job' = [job EXCEPT ![w].probes[r] = p]
  BY DEF ProbeRepository, Probe
<1> DEFINE j == [job[w] EXCEPT !.probes[r] = p]
<1>4. j \in Jobs
  BY <1>2 DEF Jobs
<1>5. /\ j.step = "check" /\ j.seen = job[w].seen
      /\ j.verb = "rm" /\ j.from = job[w].from /\ j.at = job[w].at
      /\ j.force = job[w].force /\ j.more = job[w].more
  BY <1>1, <1>2 DEF Jobs
<1>6. job' = [job EXCEPT ![w] = j]
  BY <1>2, <1>3
<1> HIDE DEF j
<1>7. JobInv(j, held[job[w].at])
  BY <1>1, <1>2, <1>5 DEF JobInv, Started, SeenIsTrue, RmInv
<1> QED
  BY <1>1, <1>4, <1>5, <1>6, <1>7, ReadKeeps

\* Without --everywhere and without a hole, every answer was "no copy".
LEMMA CheckReturnedPreserves ==
  ASSUME IInv, NEW w \in Worker, CheckReturned(w)
  PROVE  IInv'
<1> DEFINE j == [job[w] EXCEPT !.step = "confirm"]
           at == job[w].at
<1>1. job[w].step = "check" /\ job[w].verb = "rm" /\ UNCHANGED <<held, commands>>
  BY DEF CheckReturned, At
<1>2. job[w] \in Jobs /\ JobInv(job[w], held[at])
  BY <1>1, UnderWay
<1>3. j \in Jobs
  BY <1>2, StepType DEF Step
<1>4. /\ j.step = "confirm" /\ j.seen = job[w].seen /\ j.cut = job[w].cut
      /\ j.verb = "rm" /\ j.from = job[w].from /\ j.at = at
      /\ j.force = job[w].force /\ j.more = job[w].more /\ j.probes = job[w].probes
  BY <1>1, <1>2 DEF Jobs
<1>5. job' = [job EXCEPT ![w] = j]
  BY <1>2 DEF CheckReturned
<1>6. j.more \/ j.cut \/ \A r \in Repo \ {at} : j.probes[r] = "absent"
  <2> SUFFICES ASSUME ~ j.more, ~ j.cut, NEW r \in Repo \ {at}
               PROVE  job[w].probes[r] = "absent"
    BY <1>4
  <2>1. job[w].probes[r] # "hole" /\ r \notin Unverified(w) /\ r \notin Downstream(w)
    BY <1>4 DEF CheckReturned, Others
  <2>2. job[w].probes[r] \in Probe
    BY <1>2 DEF Jobs
  <2> QED
    BY <2>1, <2>2 DEF Unverified, Downstream, Probe
<1> HIDE DEF j
<1>7. JobInv(j, held[at])
  BY <1>1, <1>2, <1>4, <1>6 DEF JobInv, Started, SeenIsTrue, RmInv
<1> QED
  BY <1>1, <1>3, <1>4, <1>5, <1>7, ReadKeeps

LEMMA DeleteVersionPreserves ==
  ASSUME IInv, NEW w \in Worker, DeleteVersion(w)
  PROVE  IInv'
<1>1. StoreInv(job[w].at, AbsentVersion)
  BY DEF StoreInv, AbsentVersion
<1> QED
  BY <1>1, NoJobType, AbsentVersionType, CommandKeeps DEF DeleteVersion, At

-----------------------------------------------------------------------------
LEMMA NextHolds == IInv /\ [Next]_vars => IInv'
<1> SUFFICES ASSUME IInv, [Next]_vars PROVE IInv'
  OBVIOUS
<1>1. CASE Publisher
  BY <1>1, PublisherPreserves DEF Publisher
<1>2. ASSUME NEW w \in Worker, Command(w) PROVE IInv'
  BY <1>2, StartPreserves, VersionStatusPreserves, ConfirmActionPreserves, GiveUpPreserves,
     CancelPreserves, GatePromotePreserves, DeletePreserves, ListAssetsToPromotePreserves,
     DownloadPreserves, UploadPreserves, CopyReturnedPreserves, FetchProvenancePreserves,
     FinalizePromotePreserves, RmGatePreserves, ProbeRepositoryPreserves,
     CheckReturnedPreserves, DeleteVersionPreserves
     DEF Command
<1>3. CASE UNCHANGED vars
  BY <1>3 DEF vars, IInv, TypeOK, OneWriter, JobInv, SeenIsTrue, PromoteInv, PastGate, Filled
<1> QED
  BY <1>1, <1>2, <1>3 DEF Next

\* The inductive invariant: while a command is under way the repository it
\* writes is its own, so what it read and wrote there is still so.
THEOREM InvariantHolds == Spec => []IInv
BY InitHolds, NextHolds, PTL DEF Spec

\* TypeOK, for any repositories and any number of commands.
THEOREM TypeCorrect == Spec => []TypeOK
<1>1. IInv => TypeOK
  BY DEF IInv
<1> QED
  BY <1>1, InvariantHolds, PTL

\* A published document records no hash but that of the bytes beside it, in
\* every repository, whatever was republished, removed or promoted meanwhile.
THEOREM RecordsTrue == Spec => []RecordsMatchStore
<1>1. IInv => RecordsMatchStore
  BY DEF IInv, StoreInv, RecordsMatchStore
<1> QED
  BY <1>1, InvariantHolds, PTL

\* A chain ends where it is read, and only that of a publish has one link.
THEOREM ChainsEndHere == Spec => []ChainEndsHere
<1>1. IInv => ChainEndsHere
  BY DEF IInv, StoreInv, ChainEndsHere
<1> QED
  BY <1>1, InvariantHolds, PTL

-----------------------------------------------------------------------------
(* What a step may do to a repository                                      *)

\* The five ways a repository changes.
Filling(r) ==
  /\ held[r].status # "Published"
  /\ \E a \in Asset, b \in Bytes :
       held[r].assets[a] = None /\ held'[r] = PutAsset(held[r], a, b)

Finalizing(r) ==
  /\ held[r].status = "Unfinished"
  /\ \E d \in Documents, names \in SUBSET Stored(held[r]) :
       /\ names # {}
       /\ d.sha = [a \in Asset |-> IF a \in names THEN held[r].assets[a] ELSE None]
       /\ held'[r] = PutFinalizer(held[r], d)

\* By a forced promote, or by an rm that its gates let through.
Emptying(r) ==
  /\ held'[r] = AbsentVersion
  /\ \E w \in Worker :
       /\ job[w].at = r
       /\ job[w].step = "delete"
       /\ held[r].status = "Published" => job[w].force
       /\ job[w].verb = "rm" /\ held[r].status = "Published" =>
            job[w].more \/ \A s \in Others(w) : job[w].probes[s] = "absent"

LEMMA WhatChanges ==
  ASSUME IInv, [Next]_vars, NEW r \in Repo, held'[r] # held[r]
  PROVE  Filling(r) \/ Finalizing(r) \/ Emptying(r)
<1>1. held \in [Repo -> VersionsWith(Documents)]
  BY DEF IInv, TypeOK
<1>2. ASSUME NEW s \in Roots, PublisherFills(s) PROVE Filling(r)
  <2>1. PICK a \in Asset \ Stored(held[s]), b \in Bytes :
          held' = [held EXCEPT ![s] = PutAsset(held[s], a, b)]
    BY <1>2 DEF PublisherFills
  <2>2. r = s /\ held'[r] = PutAsset(held[r], a, b) /\ held[r].status # "Published"
    BY <1>1, <1>2, <2>1 DEF PublisherFills
  <2>3. held[r].assets[a] = None
    BY <2>1, <2>2 DEF Stored
  <2> QED
    BY <2>2, <2>3 DEF Filling
<1>3. ASSUME NEW s \in Roots, PublisherFinalizes(s) PROVE Finalizing(r)
  <2> DEFINE c == held[s].assets
             d == [sha |-> c, origin |-> c, chain |-> <<s>>]
  <2>1. /\ r = s /\ held'[r] = PutFinalizer(held[r], d) /\ held[r].status = "Unfinished"
        /\ s \in Repo
    BY <1>1, <1>3, StagesAssumption DEF PublisherFinalizes
  <2>2. c \in Contents
    BY <1>1, <2>1, VersionParts
  <2>3. d \in Documents
    <3>1. <<s>> \in Chains
      BY <2>1, StagesAssumption DEF Chains
    <3> QED
      BY <2>2, <3>1 DEF Documents
  <2>4. Stored(held[r]) # {}
    BY <2>1 DEF IInv, StoreInv
  <2>5. d.sha = [a \in Asset |-> IF a \in Stored(held[r]) THEN held[r].assets[a] ELSE None]
    BY <2>1, <2>2 DEF Stored, Contents
  <2> HIDE DEF d
  <2> QED
    BY <2>1, <2>3, <2>4, <2>5 DEF Finalizing
<1>4. ASSUME NEW w \in Worker, Command(w), job[w].step # "idle",
             NEW v, held' = [held EXCEPT ![job[w].at] = v]
      PROVE  r = job[w].at /\ held'[r] = v
  BY <1>1, <1>4, UnderWay
<1>5. ASSUME NEW w \in Worker, NEW a \in Asset, Upload(w, a) PROVE Filling(r)
  <2> DEFINE v == PutAsset(held[job[w].at], a, job[w].got[a])
  <2>1. /\ job[w].step = "copy" /\ job[w].verb = "promote"
        /\ job[w].got[a] # None /\ a \notin job[w].placed
    BY <1>5 DEF Upload, At
  <2>2. job[w] \in Jobs /\ Filled(job[w], held[job[w].at])
    BY <2>1, UnderWay DEF JobInv, PromoteInv
  <2>3. Command(w)
    BY <1>5 DEF Command
  <2>4. r = job[w].at /\ held'[r] = v
    BY <1>4, <1>5, <2>1, <2>3 DEF Upload
  <2>5. held[r].status # "Published" /\ held[r].assets[a] = None
    BY <2>1, <2>2, <2>4 DEF Filled
  <2>6. job[w].got[a] \in Bytes
    BY <2>1, <2>2 DEF Jobs, Contents
  <2> QED
    BY <2>4, <2>5, <2>6 DEF Filling
<1>6. ASSUME NEW w \in Worker, FinalizePromote(w) PROVE Finalizing(r)
  <2>1. At(w, "promote", "commit") /\ Len(Carried(w)) =< MaxLinks
    BY <1>6 DEF FinalizePromote
  <2>2. Command(w) /\ job[w].step # "idle"
    BY <1>6, <2>1 DEF Command, At
  <2>3. r = job[w].at /\ held'[r] = PutFinalizer(held[r], Promoted(w))
    BY <1>4, <1>6, <2>2 DEF FinalizePromote, Promoted
  <2> DEFINE d == Promoted(w)
             names == job[w].names
  <2>4. /\ d \in Documents
        /\ d.sha = [a \in Asset |-> IF a \in names THEN held[r].assets[a] ELSE None]
        /\ names \subseteq Stored(held[r]) /\ names # {}
        /\ held[r].status = "Unfinished"
    BY <2>1, <2>3, PromotedDocument
  <2> HIDE DEF d, names
  <2> QED
    BY <2>3, <2>4 DEF Finalizing, d
<1>7. ASSUME NEW w \in Worker, PromoteDeletes(w) PROVE Emptying(r)
  <2>1. /\ job[w].step = "delete" /\ job[w].verb = "promote" /\ job[w].force
        /\ held' = [held EXCEPT ![job[w].at] = AbsentVersion]
    BY <1>7 DEF PromoteDeletes, At
  <2>2. Command(w)
    BY <1>7 DEF Command
  <2>3. r = job[w].at /\ held'[r] = AbsentVersion
    BY <1>4, <2>1, <2>2
  <2> QED
    BY <2>1, <2>3 DEF Emptying
<1>8. ASSUME NEW w \in Worker, DeleteVersion(w) PROVE Emptying(r)
  <2>1. /\ job[w].step = "delete" /\ job[w].verb = "rm" /\ ~ job[w].cut
        /\ held' = [held EXCEPT ![job[w].at] = AbsentVersion]
    BY <1>8 DEF DeleteVersion, At, Answered
  <2>2. Command(w)
    BY <1>8 DEF Command
  <2>3. r = job[w].at /\ held'[r] = AbsentVersion
    BY <1>4, <2>1, <2>2
  <2>4. job[w].seen = held[r].status /\ RmInv(job[w])
    BY <2>1, <2>3, UnderWay DEF JobInv, SeenIsTrue
  <2> QED
    BY <2>1, <2>3, <2>4 DEF Emptying, RmInv, Others
<1>9. CASE held' = held
  BY <1>9
<1>10. ASSUME NEW w \in Worker, Command(w) PROVE Filling(r) \/ Emptying(r) \/ Finalizing(r)
  BY <1>5, <1>6, <1>7, <1>8, <1>9, <1>10 DEF Command, Start, VersionStatus, ConfirmAction,
     GiveUp, Cancel, GatePromote, NothingToDelete, ListAssetsToPromote, Download,
     CopyReturned, FetchProvenance, GateUnfinished, GatePublished, ProbeRepository,
     CheckReturned
<1> QED
  BY <1>2, <1>3, <1>9, <1>10 DEF Next, Publisher, vars

\* A Published version changes in one way only: a forced command empties its
\* own repository.
THEOREM PublishedStays == Spec => PublishedIsImmutable
<1>1. ASSUME IInv, [Next]_vars
      PROVE  \A r \in Repo : held[r].status = "Published" /\ held'[r] # held[r] =>
               /\ held'[r] = AbsentVersion
               /\ \E w \in Worker : job[w].at = r /\ job[w].force
  BY <1>1, WhatChanges DEF Filling, Finalizing, Emptying
<1> QED
  BY <1>1, InvariantHolds, PTL DEF PublishedIsImmutable, Spec

\* An rm that removes a Published version without --everywhere has an answer
\* "no copy" from each of the others.
THEOREM RemovalIsChecked == Spec => RmAsksEveryRepository
<1>1. ASSUME IInv, [Next]_vars,
             NEW w \in Worker,
             job[w].verb = "rm" /\ job[w].step = "delete" /\ job[w].seen = "Published",
             held[job[w].at].status = "Published", held'[job[w].at] = AbsentVersion
      PROVE  job[w].more \/ \A r \in Others(w) : job[w].probes[r] = "absent"
  <2>1. job[w].at \in Repo
    BY <1>1, UnderWay
  <2>2. held'[job[w].at] # held[job[w].at]
    BY <1>1 DEF AbsentVersion
  <2>3. Emptying(job[w].at)
    BY <1>1, <2>1, <2>2, WhatChanges DEF Filling, Finalizing
  <2>4. PICK x \in Worker :
          /\ job[x].at = job[w].at /\ job[x].step = "delete"
          /\ job[x].verb = "rm" /\ held[job[w].at].status = "Published" =>
               job[x].more \/ \A s \in Others(x) : job[x].probes[s] = "absent"
    BY <2>3 DEF Emptying
  <2>5. x = w
    BY <1>1, <2>4 DEF IInv, OneWriter
  <2> QED
    BY <1>1, <2>4, <2>5
<1>2. IInv /\ [Next]_vars =>
        \A w \in Worker :
          /\ job[w].verb = "rm" /\ job[w].step = "delete" /\ job[w].seen = "Published"
          /\ held[job[w].at].status = "Published" /\ held'[job[w].at] = AbsentVersion
          => job[w].more \/ \A r \in Others(w) : job[w].probes[r] = "absent"
  BY <1>1
<1> QED
  BY <1>2, InvariantHolds, PTL DEF RmAsksEveryRepository, Spec

-----------------------------------------------------------------------------
(* VersionLifecycle in every repository                                    *)

\* The version as its readers see it: of the document, the hashes.
View(v) == [v EXCEPT !.doc = IF @ = None THEN None ELSE @.sha]

LEMMA ViewEffect ==
  ASSUME NEW v \in VersionsWith(Documents)
  PROVE  View(v) = [status |-> v.status, assets |-> v.assets,
                    doc |-> IF v.doc = None THEN None ELSE v.doc.sha]
BY DEF View, VersionsWith

LEMMA ViewOfAbsent == View(AbsentVersion) = AbsentVersion
BY DEF View, AbsentVersion

LEMMA FillingIsFill ==
  ASSUME IInv, NEW r \in Repo, Filling(r)
  PROVE  Lifecycle(r)!Fill
<1> DEFINE v == held[r]
<1>1. v \in VersionsWith(Documents) /\ v.status \in Status /\ v.status # "Published"
  BY VersionParts DEF IInv, TypeOK, Filling
<1>2. PICK a \in Asset, b \in Bytes : v.assets[a] = None /\ held'[r] = PutAsset(v, a, b)
  BY DEF Filling
<1> DEFINE p == PutAsset(v, a, b)
<1>3. /\ p \in VersionsWith(Documents) /\ p.status = "Unfinished" /\ p.doc = v.doc
      /\ p.assets = [v.assets EXCEPT ![a] = b]
  BY <1>1, PutAssetEffect DEF Status
<1>4. v.assets \in Contents /\ p.assets \in Contents
  BY <1>1, <1>3, VersionParts
<1>5. View(v) = [status |-> v.status, assets |-> v.assets,
                 doc |-> IF v.doc = None THEN None ELSE v.doc.sha]
  BY <1>1, ViewEffect
<1>6. View(p) = [status |-> p.status, assets |-> p.assets,
                 doc |-> IF p.doc = None THEN None ELSE p.doc.sha]
  BY <1>3, ViewEffect
<1> HIDE DEF v, p
<1>7. View(p) = [status |-> "Unfinished", assets |-> p.assets, doc |-> View(v).doc]
  BY <1>3, <1>5, <1>6
<1>8. /\ View(v).status # "Published"
      /\ \A c \in Asset : View(v).assets[c] # None => p.assets[c] = View(v).assets[c]
  BY <1>1, <1>2, <1>3, <1>4, <1>5 DEF Contents
<1>9. p.assets \in Lifecycle(r)!Contents
  BY <1>4 DEF Contents, Lifecycle!Contents
<1> QED
  BY <1>2, <1>7, <1>8, <1>9 DEF Lifecycle!Fill, View, v, p

LEMMA FinalizingIsPublish ==
  ASSUME IInv, NEW r \in Repo, Finalizing(r)
  PROVE  Lifecycle(r)!Publish
<1> DEFINE v == held[r]
<1>1. v \in VersionsWith(Documents) /\ v.status = "Unfinished"
  BY DEF IInv, TypeOK, Finalizing
<1>2. PICK d \in Documents, names \in SUBSET Stored(v) :
        /\ names # {}
        /\ d.sha = [a \in Asset |-> IF a \in names THEN v.assets[a] ELSE None]
        /\ held'[r] = PutFinalizer(v, d)
  BY DEF Finalizing
<1> DEFINE p == PutFinalizer(v, d)
<1>3. /\ p \in VersionsWith(Documents) /\ p.status = "Published"
      /\ p.assets = v.assets /\ p.doc = d
  BY <1>1, PutFinalizerEffect
<1>4. d # None
  BY StagesAssumption
<1>5. View(v) = [status |-> v.status, assets |-> v.assets,
                 doc |-> IF v.doc = None THEN None ELSE v.doc.sha]
  BY <1>1, ViewEffect
<1>6. View(p) = [status |-> p.status, assets |-> p.assets,
                 doc |-> IF p.doc = None THEN None ELSE p.doc.sha]
  BY <1>3, ViewEffect
<1> HIDE DEF v, p
<1>7. View(p) = [status |-> "Published", assets |-> View(v).assets,
                 doc |-> [a \in Asset |-> IF a \in names THEN View(v).assets[a] ELSE None]]
  BY <1>2, <1>3, <1>4, <1>5, <1>6
<1>8. names \in (SUBSET Lifecycle(r)!Stored(View(v))) \ {{}} /\ View(v).status = "Unfinished"
  BY <1>1, <1>2, <1>5 DEF Stored, Lifecycle!Stored
<1>9. View(held'[r]) =
        [status |-> "Published", assets |-> View(held[r]).assets,
         doc |-> [a \in Asset |-> IF a \in names THEN View(held[r]).assets[a] ELSE None]]
  BY <1>2, <1>7 DEF v, p
<1>10. /\ names \in (SUBSET Lifecycle(r)!Stored(View(held[r]))) \ {{}}
       /\ View(held[r]).status = "Unfinished"
  BY <1>8 DEF v
<1> QED
  BY <1>9, <1>10 DEF Lifecycle!Publish, View

LEMMA EmptyingIsRemove ==
  ASSUME NEW r \in Repo, Emptying(r)
  PROVE  Lifecycle(r)!Remove
<1>1. View(held'[r]) = AbsentVersion
  BY ViewOfAbsent DEF Emptying
<1> QED
  BY <1>1 DEF Lifecycle!Remove, Lifecycle!AbsentVersion, View, AbsentVersion

LEMMA LifecycleStep ==
  ASSUME IInv, [Next]_vars, NEW r \in Repo, held'[r] # held[r]
  PROVE  Lifecycle(r)!Next
BY WhatChanges, FillingIsFill, FinalizingIsPublish, EmptyingIsRemove DEF Lifecycle!Next

\* Whatever is published, promoted and removed side by side, each step that
\* changes a repository is one its readers know from a publish.
THEOREM LifecycleKept == Spec => EveryRepositoryKeepsLifecycle
<1>1. IInv /\ [Next]_vars =>
        [\A r \in Repo : held'[r] # held[r] => Lifecycle(r)!Next]_held
  BY LifecycleStep
<1> QED
  BY <1>1, InvariantHolds, PTL DEF EveryRepositoryKeepsLifecycle, Spec

\* Each repository implements VersionLifecycle, from its first state on.
THEOREM Refinement == \A r \in Repo : Spec => Lifecycle(r)!Spec
<1> SUFFICES ASSUME NEW r \in Repo PROVE Spec => Lifecycle(r)!Spec
  OBVIOUS
<1>1. Init => Lifecycle(r)!Init
  <2>1. Init => View(held[r]) = AbsentVersion
    BY ViewOfAbsent DEF Init
  <2> QED
    BY <2>1 DEF Lifecycle!Init, Lifecycle!AbsentVersion, View, AbsentVersion
<1>2. IInv /\ [Next]_vars => [Lifecycle(r)!Next]_(View(held[r]))
  BY LifecycleStep
<1> QED
  BY <1>1, <1>2, InvariantHolds, PTL DEF Lifecycle!Spec, Spec, View
=============================================================================
