-------------------------- MODULE VersionLifecycle --------------------------
(***************************************************************************)
(* What cob promises the readers of a version, whatever happens to the     *)
(* processes that write it: it is filled while it is Unfinished, an asset  *)
(* once in it is never replaced, and it becomes Published in one step that *)
(* records, for some of its assets, the very bytes it holds.  From then on *)
(* it stays as it is until it is removed as a whole.                       *)
(*                                                                         *)
(* The document is reduced to the hashes it records.                       *)
(***************************************************************************)
EXTENDS CodeArtifact

VARIABLE version

TypeOK == version \in VersionsWith(Contents)

Init == version = AbsentVersion

\* Assets arrive, one or (when nobody is left to hear of them) several.
Fill ==
  /\ version.status # "Published"
  /\ \E new \in Contents :
       /\ \A a \in Asset : version.assets[a] # None => new[a] = version.assets[a]
       /\ version' = [status |-> "Unfinished", assets |-> new, doc |-> version.doc]

\* The recorded assets are the ones in Recorded, with the bytes in the version.
Publish ==
  /\ version.status = "Unfinished"
  /\ \E Recorded \in (SUBSET Stored(version)) \ {{}} :
       version' =
         [status |-> "Published",
          assets |-> version.assets,
          doc    |-> [a \in Asset |-> IF a \in Recorded THEN version.assets[a]
                                     ELSE None]]

Remove == version' = AbsentVersion

Next == Fill \/ Publish \/ Remove

Spec == Init /\ [][Next]_version
=============================================================================
