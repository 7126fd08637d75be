---------------------------- MODULE PullContract ----------------------------
(***************************************************************************)
(* What the user of a destination may rely on when pull says something     *)
(* about it, without any process: a pull asks for contents at paths, puts  *)
(* them there whole, one path at a time, touches no other path until all   *)
(* of them are there, and says ok only then.                               *)
(***************************************************************************)
CONSTANT
  Unhashed    \* the hash of a content nobody knows beforehand

VARIABLES
  files,     \* what each path holds
  wanted,    \* the requests [path, sha] of the pull
  verdict    \* "closed", "open" while the pull works, "ok" after it succeeded

\* Every request is met.
AllInPlace == \A w \in wanted : w.sha \in {files[w.path], Unhashed}

Init ==
  /\ wanted = {}
  /\ verdict = "closed"

\* Another pull: what the last one said no longer counts.
Forget ==
  /\ verdict # "open"
  /\ wanted' = {}
  /\ verdict' = "closed"
  /\ UNCHANGED files

\* It is clear what this pull is to fetch.
Ask ==
  /\ verdict = "closed"
  /\ verdict' = "open"
  /\ UNCHANGED files

\* One requested path is given its content in one step.
Place ==
  /\ verdict = "open"
  /\ \E w \in wanted :
       /\ files' = [files EXCEPT ![w.path] = files'[w.path]]
       /\ w.sha \in {files'[w.path], Unhashed}
  /\ UNCHANGED <<wanted, verdict>>

\* A path nobody asked for is only written beside a complete set.
WriteBeside ==
  /\ verdict = "open"
  /\ AllInPlace
  /\ \A w \in wanted : files'[w.path] = files[w.path]
  /\ UNCHANGED wanted
  /\ verdict' \in {"open", "ok"}

\* The pull ends: ok only if everything is in place.
Answer ==
  /\ verdict = "open"
  /\ verdict' \in {"ok", "closed"}
  /\ verdict' = "ok" => AllInPlace
  /\ UNCHANGED <<files, wanted>>

Next == Forget \/ Ask \/ Place \/ WriteBeside \/ Answer

Spec == Init /\ [][Next]_<<files, wanted, verdict>>
=============================================================================
