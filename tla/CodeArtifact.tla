---------------------------- MODULE CodeArtifact ----------------------------
(***************************************************************************)
(* What CodeArtifact keeps for one package version in one repository, and  *)
(* what each call cob makes does to it.  The effects are those of the      *)
(* in-memory CodeArtifact the repository's end-to-end tests run against    *)
(* (clitest.StatefulCA).  A call's effect is one step; the caller's module *)
(* says when the call is made, whether its response arrives and what the   *)
(* caller does next.                                                       *)
(*                                                                         *)
(* Two contents are the same member of Bytes exactly when their SHA-256    *)
(* agree, so a content also stands for its recorded hash.  The provenance  *)
(* asset cob-provenance.json is kept apart, in "doc": no manifest source   *)
(* may have its name (RegisterAssetName refuses it).                       *)
(***************************************************************************)
CONSTANTS
  Asset,   \* the asset names a version may hold
  Bytes,   \* the contents an asset may have
  None     \* no content, no document

ASSUME NoneIsNoContent == None \notin Bytes

Status == {"Absent", "Unfinished", "Published"}

\* The content of every asset, None where the version has no such asset.
Contents == [Asset -> Bytes \cup {None}]

\* Everything a repository can hold for the version, given its documents.
VersionsWith(docs) ==
  [status : Status, assets : Contents, doc : docs \cup {None}]

\* DescribePackageVersion, ListPackageVersionAssets and
\* GetPackageVersionAsset answer ResourceNotFound.
AbsentVersion ==
  [status |-> "Absent", assets |-> [a \in Asset |-> None], doc |-> None]

\* Mutant of PutAsset: the call leaves unfinished unset.
PutAssetFinal(v, a, b) == [v EXCEPT !.assets[a] = b, !.status = "Published"]

\* PublishPackageVersion of an ordinary asset, unfinished=true: the first one
\* creates the version as Unfinished, later ones leave its status alone.
PutAsset(v, a, b) ==
  [v EXCEPT !.assets[a] = b,
            !.status = IF @ = "Absent" THEN "Unfinished" ELSE @]

\* Several of them, of the assets D.
PutAssets(v, D, new) ==
  [v EXCEPT !.assets = [a \in Asset |-> IF a \in D THEN new[a] ELSE @[a]],
            !.status = IF @ = "Absent" /\ D # {} THEN "Unfinished" ELSE @]

\* PublishPackageVersion of cob-provenance.json with unfinished unset: stores
\* the document and makes the version Published, creating it if need be.
PutFinalizer(v, d) == [v EXCEPT !.doc = d, !.status = "Published"]

\* The assets a listing of the version names, the provenance asset left out.
Stored(v) == {a \in Asset : v.assets[a] # None}
=============================================================================
