----------------------------- MODULE ReadCommand -----------------------------
(***************************************************************************)
(* The commands that only read, one invocation at a time: cob ls and log   *)
(* (Listing), tree and ls -R (Walk), diff (Diff), and a session of cob use *)
(* with a command that picks it up (CurrentPackage).  They share the       *)
(* context, the fan-out and the registry others keep changing.             *)
(***************************************************************************)
EXTENDS Listing, Walk, Diff, CurrentPackage

vars == <<shared, world, listing, walk, diff, use>>

-----------------------------------------------------------------------------
\* The variables of the commands that are not run.
ListOff == kind = "packages" /\ stage = "done" /\ got = {} /\ pages = 0 /\ rows = <<>>
WalkOff == flat = FALSE /\ target = <<>> /\ depth = 0 /\ frontier = {} /\ tree = {} /\ failed = {}
DiffOff ==
  /\ mode = "versions" /\ deep = FALSE /\ exists = FALSE /\ doc = "unread" /\ listed = {}
  /\ at = "list" /\ verdict = <<>>
  /\ sit = [n \in Name |-> CHOOSE s \in Situations : TRUE]
UseOff ==
  /\ cwd = 0 /\ cobDirs = {} /\ pointer = [d \in Dirs |-> NoCoords] /\ home = NoCoords
  /\ override = NoCoords /\ resolved = NoCoords /\ source = "none" /\ commands = 0
WorldOff == there = {} /\ stable = {} /\ ever = {} /\ changes = 0

Init ==
  /\ Idle
  /\ cancelled = FALSE
  /\ exit = "running"
  /\ \/ cmd = "list" /\ ListInit /\ WorldInit /\ WalkOff /\ DiffOff /\ UseOff
     \/ cmd = "walk" /\ WalkInit /\ WorldInit /\ ListOff /\ DiffOff /\ UseOff
     \/ cmd = "diff" /\ DiffInit /\ WorldOff /\ ListOff /\ WalkOff /\ UseOff
     \/ cmd = "use"  /\ UseInit /\ WorldOff /\ ListOff /\ WalkOff /\ DiffOff

\* Steps of the process.
Command ==
  \/ ListStep /\ UNCHANGED <<walk, diff, use>>
  \/ WalkStep /\ UNCHANGED <<listing, diff, use>>
  \/ DiffStep /\ UNCHANGED <<listing, walk, use>>
  \/ UseStep /\ UNCHANGED <<listing, walk, diff>>

\* Steps of others.
Others ==
  /\ cmd \in {"list", "walk"} /\ exit = "running" /\ OthersAct
  /\ UNCHANGED <<shared, listing, walk, diff, use>>

Signal ==
  /\ cmd # "use" /\ Cancel
  /\ UNCHANGED <<fanOut, world, listing, walk, diff, use>>

Next == Command \/ Others \/ Signal

Spec == Init /\ [][Next]_vars

\* The process is scheduled, and every call comes back: the SDK bounds it.
FairSpec == Spec /\ WF_vars(Command)

-----------------------------------------------------------------------------
TypeOK ==
  /\ cmd \in Commands
  /\ cancelled \in BOOLEAN
  /\ exit \in Exits
  /\ loop \in Loops
  /\ todo \cap busy = {}
  /\ todo \cup busy \subseteq DOMAIN slot
  /\ WorldTypeOK /\ ListingTypeOK /\ WalkTypeOK /\ DiffTypeOK /\ UseTypeOK

\* Every reading command ends, even if the service hands out tokens for ever,
\* all lookups fail and the context is never cancelled.
ReadTerminates == cmd # "use" => <>(exit # "running")
=============================================================================
