-------------------------------- MODULE Walk --------------------------------
(***************************************************************************)
(* cob tree and cob ls -R: the hierarchy below a target is listed level by *)
(* level, the nodes of a level side by side (ForEach).  A node that cannot *)
(* be listed keeps the error and has no children; nothing ends the walk    *)
(* early, and nothing marks a node that was never listed because the       *)
(* context had been cancelled.                                             *)
(***************************************************************************)
EXTENDS ReadContext

CONSTANTS
  Targets,   \* the coordinates a walk may start from: <<>> for none
  Depths     \* the values of --depth, as levels

ASSUME WalkAssumption ==
  /\ Targets \subseteq Entry \cup {<<>>}
  /\ Depths \subseteq 1 .. 5

VARIABLES
  flat,       \* TRUE for ls -R, FALSE for tree
  target,     \* where the walk starts
  depth,      \* how deep it goes; 0 before the flags are read
  frontier,   \* the nodes of the level that comes next
  tree,       \* the nodes found, the start among them
  failed      \* the nodes that carry an error

walk == <<flat, target, depth, frontier, tree, failed>>

-----------------------------------------------------------------------------
WalkInit ==
  /\ flat \in BOOLEAN
  /\ target \in Targets
  /\ depth = 0
  /\ frontier = {}
  /\ tree = {}
  /\ failed = {}

\* startDepthOf: a walk without a target counts as one from a domain.
StartDepth == IF target = <<>> THEN 1 ELSE Len(target)

\* The default depth is that of packages, or one below the target.
DefaultDepth ==
  IF target # <<>> /\ 3 =< StartDepth /\ StartDepth < 5 THEN StartDepth + 1 ELSE 3

\* --depth is shallower than the target.
TooShallow ==
  /\ \E d \in Depths : target # <<>> /\ d < StartDepth
  /\ exit' = "Error"
  /\ UNCHANGED <<walk, cmd, cancelled, world, fanOut>>

\* The flags are read, the client is there, the walk begins.
WalkBegins ==
  /\ \E d \in Depths \cup {DefaultDepth} :
       /\ target # <<>> => d >= StartDepth
       /\ depth' = d
  /\ frontier' = {target}
  /\ tree' = {target}
  /\ UNCHANGED <<flat, target, failed, cmd, cancelled, exit, world, fanOut>>

\* No client.
NoClient ==
  /\ exit' = "Error"
  /\ UNCHANGED <<walk, cmd, cancelled, world, fanOut>>

\* The nodes of the frontier that have a level below them to show.
Expandable == {n \in frontier : Len(n) < depth}

\* One level: ForEach over the nodes to expand.
LevelBegins ==
  /\ loop = "idle"
  /\ Expandable # {}
  /\ Begin(Expandable)
  /\ UNCHANGED <<walk, cmd, cancelled, exit, world>>

LevelCheck ==
  /\ CheckContext(cancelled)
  /\ UNCHANGED <<walk, cmd, cancelled, exit, world>>

LevelAcquire ==
  /\ \E n \in todo : Acquire(n)
  /\ UNCHANGED <<walk, cmd, cancelled, exit, world>>

\* expandNode: the children the service listed.
ExpandNode ==
  /\ \E n \in busy :
       /\ Finish(n, "listed")
       /\ \E S \in Listings(n) : tree' = tree \cup S
  /\ UNCHANGED <<flat, target, depth, frontier, failed, cmd, cancelled, exit, world>>

\* Mutant of ExpandNodeFails: the error is dropped.
ExpandNodeFailsQuietly ==
  /\ \E n \in busy : Finish(n, "listed")
  /\ UNCHANGED <<walk, cmd, cancelled, exit, world>>

\* expandNode: n.Error.
ExpandNodeFails ==
  /\ \E n \in busy :
       /\ Finish(n, "listed")
       /\ failed' = failed \cup {n}
  /\ UNCHANGED <<flat, target, depth, frontier, tree, cmd, cancelled, exit, world>>

\* The next frontier: the children of the nodes of this level.
LevelReturned ==
  /\ loop # "idle"
  /\ Drained
  /\ Done
  /\ frontier' = {e \in tree : e # target /\ Parent(e) \in Expandable}
  /\ UNCHANGED <<flat, target, depth, tree, failed, cmd, cancelled, exit, world>>

\* The paths ls -R prints: nodes without children, but never the world.
Leaves == {n \in tree : n # <<>> /\ \A e \in tree : e = <<>> \/ e = target \/ Parent(e) # n}

\* The walk is over: tree always succeeds, ls -R unless it has no path to print.
Render ==
  /\ loop = "idle"
  /\ Expandable = {}
  /\ exit' = IF flat /\ Leaves = {} THEN "NotFound" ELSE "OK"
  /\ UNCHANGED <<walk, cmd, cancelled, world, fanOut>>

WalkStep ==
  /\ cmd = "walk"
  /\ exit = "running"
  /\ \/ depth = 0 /\ (TooShallow \/ NoClient \/ WalkBegins)
     \/ depth > 0 /\ \/ LevelBegins \/ LevelCheck \/ LevelAcquire
                     \/ ExpandNode \/ ExpandNodeFails \/ LevelReturned \/ Render

-----------------------------------------------------------------------------
WalkTypeOK ==
  /\ flat \in BOOLEAN
  /\ target \in Targets \cup {<<>>}
  /\ depth \in 0 .. 5
  /\ frontier \subseteq tree
  /\ tree \subseteq Entry \cup {<<>>}
  /\ failed \subseteq tree

\* A walk that ends without having been cancelled accounts for everything
\* that was there throughout, down to its depth: it is a node, or it is below
\* a node that carries an error.  And it shows nothing that never was, its
\* target apart.
WalkAccountsForEverything ==
  (cmd = "walk" /\ exit \in {"OK", "NotFound"}) =>
    /\ tree \ {target} \subseteq ever
    /\ ~ cancelled =>
         \A e \in stable : (Holds(target, e) /\ Len(e) =< depth) =>
                              e \in tree \/ \E a \in failed : Holds(a, e)
=============================================================================
