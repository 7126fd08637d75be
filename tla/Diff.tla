-------------------------------- MODULE Diff --------------------------------
(***************************************************************************)
(* cob diff: a published version against the sources of a manifest, its    *)
(* own document, a directory or another version.  What there is on each    *)
(* side is fixed while the command runs; what it learns of it depends on   *)
(* calls that fail, on --deep and on a context that may be cancelled while *)
(* the sources are resolved (ForEach).  Contents are told apart by their   *)
(* hashes, which a listing, a source or the document may not know.         *)
(***************************************************************************)
EXTENDS ReadContext

CONSTANTS
  Name,        \* names of assets, the document apart
  Bytes,       \* contents
  None,        \* no content
  Unhashed,    \* the hash of a content listed or recorded without one
  Situations   \* what may be there under a name

\* What a report says of a name; a slot that was never written is none of it.
Verdicts == {"error", "added", "removed", "changed", "drifted", "unknown", "missing",
             "match(source)", "match(deep)", "match(origin)", "match(provenance)", "same"}

(* A situation: the other side (source, local file, left version), whether *)
(* its hash is known without a download, as it is of all sources but some  *)
(* in s3, and whether it can be read at all; the published asset, and      *)
(* whether its listing has a hash; the hash the document records, and the  *)
(* content its s3 origin tells, "blank" for an origin without etag and     *)
(* version.  Nothing is assumed of how these go together.                  *)
ASSUME DiffAssumption ==
  /\ Hole \notin Verdicts
  /\ None \notin Bytes
  /\ Unhashed \notin Bytes \cup {None}
  /\ "blank" \notin Bytes \cup {None}
  /\ Situations # {}
  /\ Situations \subseteq
       [other : Bytes \cup {None}, sum : BOOLEAN, readable : BOOLEAN,
        pub : Bytes \cup {None}, pubsum : BOOLEAN,
        rec : Bytes \cup {None, Unhashed}, origin : Bytes \cup {None, "blank"}]

VARIABLES
  mode,    \* what is compared
  deep,    \* --deep
  exists,  \* the published version is there
  sit,     \* the situation of each name
  doc,     \* "unread" | "read" | "absent"
  listed,  \* the names ListAssets returned
  at,      \* "document" | "list" | "resolve" | "report"
  verdict  \* what the report says of each name

diff == <<mode, deep, exists, sit, doc, listed, at, verdict>>

-----------------------------------------------------------------------------
Modes == {"manifest", "selfcheck", "directory", "versions"}

\* In manifest mode a name with no source is not in the manifest.
Sources == {n \in Name : sit[n].other # None}
Recorded == {n \in Name : sit[n].rec # None}
Published == {n \in Name : exists /\ sit[n].pub # None}

DiffInit ==
  /\ mode \in Modes
  /\ deep \in BOOLEAN
  /\ exists \in BOOLEAN
  /\ sit \in [Name -> Situations]
  /\ deep => mode = "manifest"
  /\ mode = "manifest" => \E n \in Name : sit[n].other # None
  /\ doc = "unread"
  /\ listed = {}
  /\ at = IF mode \in {"manifest", "selfcheck"} THEN "document" ELSE "list"
  /\ verdict = <<>>

NoVerdict == [n \in {} |-> Hole]

\* The command ends without a report.
DiffGivesUp ==
  /\ exit' = "Error"
  /\ UNCHANGED <<diff, cmd, cancelled, world, fanOut>>

\* FetchProvenance: one that cannot be read is no reason to stop for a
\* manifest diff, and no document at all is one for a self-check.
DiffFetchProvenance ==
  /\ at = "document"
  /\ \E d \in {"read", "absent"} :
       /\ d = "read" => exists /\ Recorded # {}
       /\ (d = "absent" /\ mode = "selfcheck") => ~ (exists /\ Recorded # {})
       /\ doc' = d
       /\ IF mode = "selfcheck" /\ d = "absent"
            THEN exit' = "Error" /\ at' = at
            ELSE exit' = exit /\ at' = "list"
  /\ UNCHANGED <<mode, deep, exists, sit, listed, verdict, cmd, cancelled, world, fanOut>>

\* Registry.ListAssets: nothing, and no error, when the version is not there.
DiffListAssets ==
  /\ at = "list"
  /\ listed' = Published
  /\ IF mode = "manifest"
       THEN at' = "resolve" /\ Begin(Sources)
       ELSE at' = "report" /\ UNCHANGED fanOut
  /\ UNCHANGED <<mode, deep, exists, sit, doc, verdict, cmd, cancelled, exit, world>>

DiffCheck ==
  /\ at = "resolve"
  /\ CheckContext(cancelled)
  /\ UNCHANGED <<diff, cmd, cancelled, exit, world>>

DiffAcquire ==
  /\ at = "resolve"
  /\ \E n \in todo : Acquire(n)
  /\ UNCHANGED <<diff, cmd, cancelled, exit, world>>

\* AssetSummary.SHA256 of what is published under n, and of the left version.
PubSHA(n) == IF sit[n].pubsum THEN sit[n].pub ELSE Unhashed
LeftSHA(n) == IF sit[n].sum THEN sit[n].other ELSE Unhashed

\* The verdict for a hash of the source, told from where it was taken.
Against(n, sha, from) ==
  IF n \notin listed THEN "added"
  ELSE IF sha \in {None, Unhashed} THEN "unknown"
  ELSE IF sha = PubSHA(n) THEN from ELSE "changed"

ProvSHA(n) == IF doc = "read" THEN sit[n].rec ELSE None

ProvOrigin(n) == IF doc = "read" THEN sit[n].origin ELSE None

\* Mutant of Compare: what the document records is taken before the source is
\* looked at.
CompareRecordedFirst(n, headFails) ==
  IF ProvSHA(n) # None THEN Against(n, ProvSHA(n), "match(source)")
  ELSE IF sit[n].sum THEN Against(n, sit[n].other, "match(source)")
  ELSE IF deep THEN Against(n, sit[n].other, "match(deep)")
  ELSE "unknown"

\* One source against the version: a checksum known without a download, else
\* its content with --deep, else what the document recorded, which counts for
\* an s3 origin only while the object is the one recorded.
Compare(n, headFails) ==
  CASE sit[n].sum -> Against(n, sit[n].other, "match(source)")
    [] ~ sit[n].sum /\ deep -> Against(n, sit[n].other, "match(deep)")
    [] ~ sit[n].sum /\ ~ deep /\ ProvOrigin(n) # None ->
         IF headFails \/ ProvOrigin(n) \notin {"blank", sit[n].other}
           THEN IF n \in listed THEN "drifted" ELSE "added"
           ELSE Against(n, ProvSHA(n), "match(origin)")
    [] OTHER -> Against(n, ProvSHA(n), "match(provenance)")

\* A source is resolved, hashed or checked against its origin.
CompareSource ==
  /\ at = "resolve"
  /\ \E n \in busy, headFails \in BOOLEAN :
       /\ sit[n].readable
       /\ Finish(n, Compare(n, headFails))
  /\ UNCHANGED <<diff, cmd, cancelled, exit, world>>

\* Resolve, or the download of --deep, fails.
CompareSourceFails ==
  /\ at = "resolve"
  /\ \E n \in busy : Finish(n, "error")
  /\ UNCHANGED <<diff, cmd, cancelled, exit, world>>

\* The manifest report: a hole has no name, so that it counts as unknown and
\* what is published under the name it stands for as removed.
ManifestVerdict ==
  [n \in Sources \cup listed |->
     IF n \in Sources /\ slot[n] # Hole THEN slot[n]
     ELSE IF n \in listed THEN "removed" ELSE "unknown"]

\* The document against the version; assets it does not record only warn.
SelfCheckVerdict ==
  [n \in Recorded \cup listed |->
     IF n \notin Recorded THEN "unknown"
     ELSE IF n \notin listed THEN "missing"
     ELSE IF sit[n].rec = PubSHA(n) THEN "match(provenance)" ELSE "changed"]

\* The files of a directory against the version; other files are left alone.
DirectoryVerdict ==
  [n \in listed |->
     IF ~ sit[n].readable THEN "error"
     ELSE IF sit[n].other = None THEN "missing"
     ELSE IF sit[n].other = PubSHA(n) THEN "same" ELSE "changed"]

\* One version against another, by what their listings say.
VersionsVerdict ==
  [n \in Sources \cup listed |->
     IF n \notin Sources THEN "added"
     ELSE IF n \notin listed THEN "removed"
     ELSE IF LeftSHA(n) = PubSHA(n) THEN "same" ELSE "changed"]

VerdictOf ==
  CASE mode = "manifest"  -> ManifestVerdict
    [] mode = "selfcheck" -> SelfCheckVerdict
    [] mode = "directory" -> DirectoryVerdict
    [] mode = "versions"  -> VersionsVerdict

Drift == {"added", "removed", "changed", "drifted", "missing"}

\* The exit code of a report: errors before drift for a manifest, drift
\* before errors for a directory.
ReportExit(v) ==
  LET some(S) == \E n \in DOMAIN v : v[n] \in S IN
  IF mode = "manifest" /\ some({"error"}) THEN "Error"
  ELSE IF some(Drift) THEN "Mismatch"
  ELSE IF some({"error"}) THEN "Error" ELSE "OK"

Report ==
  /\ \/ at = "resolve" /\ Drained /\ Done
     \/ at = "report" /\ UNCHANGED fanOut
  /\ verdict' = VerdictOf
  /\ exit' = ReportExit(verdict')
  /\ UNCHANGED <<mode, deep, exists, sit, doc, listed, at, cmd, cancelled, world>>

DiffStep ==
  /\ cmd = "diff"
  /\ exit = "running"
  /\ \/ at \in {"document", "list"} /\ DiffGivesUp
     \/ DiffFetchProvenance \/ DiffListAssets
     \/ DiffCheck \/ DiffAcquire \/ CompareSource \/ CompareSourceFails \/ Report

-----------------------------------------------------------------------------
DiffTypeOK ==
  /\ mode \in Modes
  /\ deep \in BOOLEAN
  /\ exists \in BOOLEAN
  /\ sit \in [Name -> Situations]
  /\ doc \in {"unread", "read", "absent"}
  /\ listed \subseteq Published
  /\ at \in {"document", "list", "resolve", "report"}
  /\ DOMAIN verdict \subseteq Name
  /\ \A n \in DOMAIN verdict : verdict[n] \in Verdicts

\* Both sides hold the same under n, as far as the mode compares them: the
\* document holds what it has a hash of.
SameAt(n) ==
  CASE mode = "selfcheck" -> n \in Recorded => n \in Published /\ sit[n].rec = sit[n].pub
    [] mode = "directory" -> n \in Published => sit[n].other = sit[n].pub
    [] OTHER -> (n \in Published \/ n \in Sources)
                  => n \in Published /\ sit[n].other = sit[n].pub

\* Neither side of a comparison of two hashes has one: they pass for equal.
NoHash(n) ==
  /\ ~ sit[n].pubsum
  /\ \/ mode = "selfcheck" /\ sit[n].rec = Unhashed
     \/ mode = "versions" /\ ~ sit[n].sum

\* A listing that a comparison needs has no hash.
HashMissing(n) == ~ sit[n].pubsum \/ (mode = "versions" /\ ~ sit[n].sum)

\* The report of a manifest says that it did not look at the source of n, or it
\* took the word of an origin that tells nothing or does not belong to the
\* recorded hash, as in the document of a promote (promote.go:409-415).
Unverified(n) ==
  /\ mode = "manifest"
  /\ n \in DOMAIN verdict
  /\ \/ verdict[n] \in {"unknown", "match(provenance)"}
     \/ verdict[n] = "match(origin)" /\ sit[n].origin \in {"blank"} \cup (Bytes \ {sit[n].rec})

\* The document, whose word is taken for a source without a hash, records
\* something else than what is published.
Misrecorded(n) ==
  /\ mode = "manifest"
  /\ ~ sit[n].sum /\ ~ deep
  /\ sit[n].rec \notin {None, Unhashed, sit[n].pub}

\* diff exits 0 only if the sides agree: every name is on both of them and
\* has the same bytes, unless the report says that it was not verified, was
\* taken from the document's word, or nobody knows a hash of it.  This holds
\* while the context is not cancelled, and for versions that are there.
DiffZeroAgrees ==
  (cmd = "diff" /\ exit = "OK" /\ ~ cancelled /\ exists) =>
    \A n \in Name : SameAt(n) \/ (n \in Published /\ (Unverified(n) \/ NoHash(n)))

\* diff exits 4 only if the sides differ, the s3 origin of a source could not
\* be confirmed, a published asset is not what the document records of it, or
\* just one of two hashes is known: what could not be checked is not drift.
DiffFourDiffers ==
  (cmd = "diff" /\ exit = "Mismatch" /\ ~ cancelled) =>
    \/ \E n \in Name : ~ SameAt(n)
    \/ \E n \in DOMAIN verdict : verdict[n] = "drifted"
    \/ \E n \in DOMAIN verdict \cap Published :
         verdict[n] = "changed" /\ (Misrecorded(n) \/ HashMissing(n))

\* The exit code of a diff that ran to its end tells whether the sides agree.
DiffVerdictHolds == DiffZeroAgrees /\ DiffFourDiffers

\* "exit code is 0 if identical, non-zero on any drift or error" (README.md
\* and the help of diff): with a version that does not exist as the right
\* side, diff finds nothing to compare and exits 0.
ZeroMeansIdentical ==
  (cmd = "diff" /\ mode = "directory" /\ exit = "OK" /\ ~ cancelled) => exists
=============================================================================
