------------------------------- MODULE Stages -------------------------------
(***************************************************************************)
(* One package version in the repositories of a domain: "cob promote"      *)
(* copies it from repository to repository, "cob rm" takes it out of one,  *)
(* and a publisher fills the repositories it starts from.  The commands    *)
(* run side by side and every call one of them makes to CodeArtifact is a  *)
(* step, so each may act on what another has changed since it looked.      *)
(*                                                                         *)
(* The publisher takes steps of VersionLifecycle, the specification that   *)
(* Publish implements; a publish --force is an rm and a publish here.  Two *)
(* commands never write one repository at the same time (a pipeline runs   *)
(* one job per stage); reading it meanwhile is allowed.  A command may end *)
(* before any of its steps (GiveUp): a refusal at a gate, an answer of     *)
(* "no", an error, a dry run or the death of the process.  An answer lost  *)
(* after the call took effect is the call's step followed by GiveUp.       *)
(*                                                                         *)
(* A promote copies its assets in any order and any number at a time: how  *)
(* the upload made alone and RunConcurrent order them is Publish's matter. *)
(***************************************************************************)
EXTENDS CodeArtifact, Sequences, Integers

CONSTANTS
  Repo,           \* the repositories of the domain
  Roots,          \* those a publish may target
  Worker,         \* the commands that may run at the same time
  MaxCommands,    \* bound: how many commands are run
  MaxLinks        \* bound: how many repositories a chain names

Chains == UNION {[1 .. n -> Repo] : n \in 1 .. MaxLinks}

\* The document: the recorded hash and origin of every asset (an origin is
\* named by the content it describes) and the chain, reduced to the
\* repositories it went through.
Documents == [sha : Contents, origin : Contents, chain : Chains]

ASSUME StagesAssumption ==
  /\ None \notin Documents
  /\ Roots \subseteq Repo
  /\ MaxCommands \in Nat
  /\ MaxLinks \in Nat \ {0}

VARIABLES
  held,       \* what each repository holds of the version
  job,        \* the command each worker runs, with all it remembers
  commands    \* commands started so far

vars == <<held, job, commands>>

Step == {"idle", "status", "gate", "check", "confirm", "delete", "list", "copy",
         "fetch", "commit"}

\* What findDownstreamCopies knows of a repository; "hole": never asked.
Probe == {"hole", "absent", "present", "failed"}

Jobs ==
  [step : Step, verb : {"promote", "rm"},
   from : Repo \cup {None},             \* promote: the source repository
   at : Repo \cup {None},               \* the repository it writes
   force : BOOLEAN,
   more : BOOLEAN,                      \* promote: --resume; rm: --everywhere
   cut : BOOLEAN,                       \* its context is cancelled
   seen : Status,                       \* the status it read of "at"
   present : Contents,                  \* promote --resume: what "at" had
   names : SUBSET Asset,                \* promote: the assets it listed
   got : Contents,                      \* promote: what it downloaded
   placed : SUBSET Asset,               \* promote: what it uploaded
   record : Documents \cup {None},      \* promote: the document of the source
   probes : [Repo -> Probe]]            \* rm: the results of the fan-out

NoContents == [a \in Asset |-> None]

\* No process.
NoJob ==
  [step |-> "idle", verb |-> "rm", from |-> None, at |-> None, force |-> FALSE,
   more |-> FALSE, cut |-> FALSE, seen |-> "Absent", present |-> NoContents,
   names |-> {}, got |-> NoContents, placed |-> {}, record |-> None,
   probes |-> [r \in Repo |-> "hole"]]

TypeOK ==
  /\ held \in [Repo -> VersionsWith(Documents)]
  /\ job \in [Worker -> Jobs]
  /\ commands \in 0 .. MaxCommands

Init ==
  /\ held = [r \in Repo |-> AbsentVersion]
  /\ job = [w \in Worker |-> NoJob]
  /\ commands = 0

-----------------------------------------------------------------------------
(* The publisher                                                           *)

\* A command that writes to r is under way.
Busy(r) == \E w \in Worker : job[w].step # "idle" /\ job[w].at = r

PublisherFills(r) ==
  /\ ~Busy(r)
  /\ held[r].status # "Published"
  /\ \E a \in Asset \ Stored(held[r]), b \in Bytes :
       held' = [held EXCEPT ![r] = PutAsset(@, a, b)]
  /\ UNCHANGED <<job, commands>>

\* Everything in the version gets recorded, with its origin.
PublisherFinalizes(r) ==
  /\ ~Busy(r)
  /\ held[r].status = "Unfinished"
  /\ held' = [held EXCEPT ![r] =
       PutFinalizer(@, [sha |-> @.assets, origin |-> @.assets, chain |-> <<r>>])]
  /\ UNCHANGED <<job, commands>>

-----------------------------------------------------------------------------
(* What promote and rm share                                               *)

\* The flags the two commands let through.
Allowed(verb, from, at, force, more) ==
  IF verb = "promote" THEN ~(force /\ more) ELSE from = at /\ (more => force)

Start(w) ==
  /\ job[w].step = "idle"
  /\ commands < MaxCommands
  /\ commands' = commands + 1
  /\ \E verb \in {"promote", "rm"}, from \in Repo, at \in Repo,
        force \in BOOLEAN, more \in BOOLEAN :
       /\ Allowed(verb, from, at, force, more)
       /\ ~Busy(at)
       /\ job' = [job EXCEPT ![w] =
            [NoJob EXCEPT !.step = "status", !.verb = verb, !.from = from,
                          !.at = at, !.force = force, !.more = more]]
  /\ UNCHANGED held

\* Command w stands at this step of this verb.
At(w, verb, step) == job[w].verb = verb /\ job[w].step = step

\* A call that is answered: cancelled contexts fail every call.
Answered(w) == ~job[w].cut

\* VersionStatus of the repository to be written.
VersionStatus(w) ==
  /\ job[w].step = "status"
  /\ Answered(w)
  /\ job' = [job EXCEPT ![w] = [@ EXCEPT !.seen = held[job[w].at].status, !.step = "gate"]]
  /\ UNCHANGED <<held, commands>>

\* ConfirmAction: --yes, or a "y" after any time.
ConfirmAction(w) ==
  /\ job[w].step = "confirm"
  /\ job' = [job EXCEPT ![w].step = "delete"]
  /\ UNCHANGED <<held, commands>>

\* The process ends without taking its next step.
GiveUp(w) ==
  /\ job[w].step # "idle"
  /\ job' = [job EXCEPT ![w] = NoJob]
  /\ UNCHANGED <<held, commands>>

\* A signal; the process goes on until it notices.  A promote makes nothing but
\* calls from then on, which fail and end it: that is GiveUp.  An rm may go on
\* as far as its delete.
Cancel(w) ==
  /\ job[w].step # "idle"
  /\ job[w].verb = "rm"
  /\ ~job[w].cut
  /\ job' = [job EXCEPT ![w].cut = TRUE]
  /\ UNCHANGED <<held, commands>>

-----------------------------------------------------------------------------
(* promote                                                                 *)

\* Mutant of MayPromote: an existing destination does not stop a promote.
MayPromoteOver(w) == job[w].more => job[w].seen # "Absent"

\* gatePromote lets w go on.
MayPromote(w) ==
  IF job[w].more THEN job[w].seen = "Unfinished"
  ELSE job[w].seen = "Absent" \/ job[w].force

\* Mutant of Listing: --resume forgets what is already there.
ListingOfNothing(w) == NoContents

\* The assets a resume may skip, with the hashes listed for them.
Listing(w) == IF job[w].more THEN held[job[w].at].assets ELSE NoContents

\* gatePromote; a resume lists what the destination has.
GatePromote(w) ==
  /\ At(w, "promote", "gate")
  /\ MayPromote(w)
  /\ job' = [job EXCEPT ![w] = [@ EXCEPT !.step = "confirm", !.present = Listing(w)]]
  /\ UNCHANGED <<held, commands>>

\* --force empties the destination before the source has been looked at.
PromoteDeletes(w) ==
  /\ At(w, "promote", "delete")
  /\ job[w].force
  /\ job[w].seen # "Absent"
  /\ held' = [held EXCEPT ![job[w].at] = AbsentVersion]
  /\ job' = [job EXCEPT ![w].step = "list"]
  /\ UNCHANGED commands

NothingToDelete(w) ==
  /\ At(w, "promote", "delete")
  /\ ~(job[w].force /\ job[w].seen # "Absent")
  /\ job' = [job EXCEPT ![w].step = "list"]
  /\ UNCHANGED <<held, commands>>

\* The status of the source is not asked for: an Unfinished one will do.
ListAssetsToPromote(w) ==
  /\ At(w, "promote", "list")
  /\ Stored(held[job[w].from]) # {}
  /\ job' = [job EXCEPT ![w] = [@ EXCEPT !.names = Stored(held[job[w].from]),
                                         !.step = "copy"]]
  /\ UNCHANGED <<held, commands>>

\* The assets that are not skipped.
Todos(w) == {a \in job[w].names : job[w].present[a] = None}

\* PromoteAsset, the download into the temp file.
Download(w, a) ==
  /\ At(w, "promote", "copy")
  /\ a \in Todos(w)
  /\ job[w].got[a] = None
  /\ held[job[w].from].assets[a] # None
  /\ job' = [job EXCEPT ![w].got[a] = held[job[w].from].assets[a]]
  /\ UNCHANGED <<held, commands>>

\* PromoteAsset, the upload.
Upload(w, a) ==
  /\ At(w, "promote", "copy")
  /\ job[w].got[a] # None
  /\ a \notin job[w].placed
  /\ held' = [held EXCEPT ![job[w].at] = PutAsset(@, a, job[w].got[a])]
  /\ job' = [job EXCEPT ![w].placed = @ \cup {a}]
  /\ UNCHANGED commands

\* Every result is there and none is an error.
Copied(w) == Todos(w) \subseteq job[w].placed

CopyReturned(w) ==
  /\ At(w, "promote", "copy")
  /\ Copied(w)
  /\ job' = [job EXCEPT ![w].step = "fetch"]
  /\ UNCHANGED <<held, commands>>

\* Whatever the source is by now; no document and no version both read as
\* "not published by cob".
FetchProvenance(w) ==
  /\ At(w, "promote", "fetch")
  /\ job' = [job EXCEPT ![w] = [@ EXCEPT !.record = held[job[w].from].doc,
                                         !.step = "commit"]]
  /\ UNCHANGED <<held, commands>>

\* Mutant of ShaOf: the recorded hash is carried over with the entry.
ShaOfRecord(w, a) ==
  IF job[w].record = None THEN None ELSE job[w].record.sha[a]

\* Mutant of ShaOf: a skipped asset has no hash in its result.
ShaOfSkipped(w, a) ==
  IF job[w].present[a] # None THEN "unhashed" ELSE job[w].got[a]

\* The hash a result has: listed for a skipped asset, streamed for a copied one.
ShaOf(w, a) == IF job[w].present[a] # None THEN job[w].present[a] ELSE job[w].got[a]

\* reconcilePromotedAssets: the assets and hashes of what was promoted, the
\* origin of the entry recorded under the same name.
Reconciled(w) ==
  [sha    |-> [a \in Asset |-> IF a \in job[w].names THEN ShaOf(w, a) ELSE None],
   origin |-> [a \in Asset |->
                 IF a \in job[w].names /\ job[w].record # None
                 THEN job[w].record.origin[a] ELSE None]]

\* Mutant of Carried: the chain is taken over as it is.
CarriedVerbatim(w) ==
  IF job[w].record = None THEN <<job[w].from>> ELSE job[w].record.chain

\* The chain of the source, or the one made up for it, and this promote.
Carried(w) ==
  Append(IF job[w].record = None THEN <<job[w].from>> ELSE job[w].record.chain,
         job[w].at)

\* FinalizeProvenance of the document carryForwardProvenance built.
FinalizePromote(w) ==
  /\ At(w, "promote", "commit")
  /\ Len(Carried(w)) =< MaxLinks
  /\ held' = [held EXCEPT ![job[w].at] =
       PutFinalizer(@, [sha |-> Reconciled(w).sha, origin |-> Reconciled(w).origin,
                        chain |-> Carried(w)])]
  /\ job' = [job EXCEPT ![w] = NoJob]
  /\ UNCHANGED commands

-----------------------------------------------------------------------------
(* rm                                                                      *)

\* Tier 1: an Unfinished version goes without further checks.
GateUnfinished(w) ==
  /\ At(w, "rm", "gate")
  /\ job[w].seen = "Unfinished"
  /\ job' = [job EXCEPT ![w].step = "confirm"]
  /\ UNCHANGED <<held, commands>>

\* Tiers 2 and 3: ListRepositories, then the fan-out over the others.
GatePublished(w) ==
  /\ At(w, "rm", "gate")
  /\ job[w].seen = "Published"
  /\ job[w].force
  /\ Answered(w)
  /\ job' = [job EXCEPT ![w].step = "check"]
  /\ UNCHANGED <<held, commands>>

Others(w) == Repo \ {job[w].at}

ProbeRepository(w, r) ==
  /\ At(w, "rm", "check")
  /\ r \in Others(w)
  /\ job[w].probes[r] = "hole"
  /\ \/ /\ Answered(w)
        /\ job' = [job EXCEPT ![w].probes[r] =
             IF held[r].status = "Absent" THEN "absent" ELSE "present"]
     \/ job' = [job EXCEPT ![w].probes[r] = "failed"]
  /\ UNCHANGED <<held, commands>>

\* Mutant of Unverified: an error is read as "no copy", the bug CHANGELOG.md:20-26
\* tells of.
UnverifiedIgnored(w) == {}

Unverified(w) == {r \in Repo : job[w].probes[r] = "failed"}
Downstream(w) == {r \in Repo : job[w].probes[r] = "present"}

\* A cancelled context leaves holes in the results, and a hole is neither
\* unverified nor downstream.
CheckReturned(w) ==
  /\ At(w, "rm", "check")
  /\ job[w].cut \/ \A r \in Others(w) : job[w].probes[r] # "hole"
  /\ job[w].more \/ Unverified(w) \cup Downstream(w) = {}
  /\ job' = [job EXCEPT ![w].step = "confirm"]
  /\ UNCHANGED <<held, commands>>

DeleteVersion(w) ==
  /\ At(w, "rm", "delete")
  /\ Answered(w)
  /\ held' = [held EXCEPT ![job[w].at] = AbsentVersion]
  /\ job' = [job EXCEPT ![w] = NoJob]
  /\ UNCHANGED commands

-----------------------------------------------------------------------------
Publisher ==
  \/ \E r \in Roots : PublisherFills(r)
  \/ \E r \in Roots : PublisherFinalizes(r)

Command(w) ==
  \/ Start(w)
  \/ VersionStatus(w)
  \/ ConfirmAction(w)
  \/ GiveUp(w)
  \/ Cancel(w)
  \/ GatePromote(w)
  \/ PromoteDeletes(w)
  \/ NothingToDelete(w)
  \/ ListAssetsToPromote(w)
  \/ \E a \in Asset : Download(w, a)
  \/ \E a \in Asset : Upload(w, a)
  \/ CopyReturned(w)
  \/ FetchProvenance(w)
  \/ FinalizePromote(w)
  \/ GateUnfinished(w)
  \/ GatePublished(w)
  \/ \E r \in Repo : ProbeRepository(w, r)
  \/ CheckReturned(w)
  \/ DeleteVersion(w)

Next == Publisher \/ \E w \in Worker : Command(w)

Spec == Init /\ [][Next]_vars

-----------------------------------------------------------------------------
(* Properties                                                              *)

\* "same bytes" (README.md:580): in every repository, whatever was republished,
\* removed or promoted meanwhile, each hash a document records is the hash of
\* the bytes beside it, and it records no asset that is not there.
RecordsMatchStore ==
  \A r \in Repo : held[r].status = "Published" =>
    /\ held[r].doc # None
    /\ \A a \in Asset : held[r].doc.sha[a] \in {None, held[r].assets[a]}

\* A chain ends in the repository it is read from, and only a promote makes it
\* longer than one.
ChainEndsHere ==
  \A r \in Repo : held[r].doc # None =>
    /\ held[r].doc.chain[Len(held[r].doc.chain)] = r
    /\ Len(held[r].doc.chain) = 1 => r \in Roots

\* Tier 2 of rm: without --everywhere a Published version is only removed after
\* every other repository has answered that it has no copy; neither an error
\* nor a repository the fan-out never reached counts as an answer.
RmAsksEveryRepository ==
  [][\A w \in Worker :
       /\ job[w].verb = "rm" /\ job[w].step = "delete" /\ job[w].seen = "Published"
       /\ held[job[w].at].status = "Published" /\ held'[job[w].at] = AbsentVersion
       => job[w].more \/ \A r \in Others(w) : job[w].probes[r] = "absent"]_vars

\* Once Published a version stays as it is in its repository until a forced
\* command removes it: an rm and a promote need --force and act on their own
\* repository only.
PublishedIsImmutable ==
  [][\A r \in Repo : held[r].status = "Published" /\ held'[r] # held[r] =>
       /\ held'[r] = AbsentVersion
       /\ \E w \in Worker : job[w].at = r /\ job[w].force]_vars

\* What readers of one repository see is what they see of a publish: nothing
\* in the way a promote fills its destination or an rm clears it is visible.
Lifecycle(r) == INSTANCE VersionLifecycle WITH
  version <- [held[r] EXCEPT !.doc = IF @ = None THEN None ELSE @.sha]
EveryRepositoryKeepsLifecycle ==
  [][\A r \in Repo : held'[r] # held[r] => Lifecycle(r)!Next]_held

\* README.md:561-563, "the chain shows exactly who moved the version where",
\* read as it stands: it begins where the version was published.
ChainStartsAtPublish ==
  \A r \in Repo : held[r].doc # None => held[r].doc.chain[1] \in Roots
=============================================================================
