------------------------------ MODULE Registry ------------------------------
(***************************************************************************)
(* What cob's listings read: CodeArtifact's hierarchy of domains,          *)
(* repositories, packages, versions and assets, while others add to it and *)
(* delete from it.  An entry is the sequence of names that leads to it, so *)
(* that its length is its level (1: domain .. 5: asset) and <<>> is the    *)
(* world.  The service promises of a paged listing only what can be kept:  *)
(* what is there from its first page to its last is in it, and nothing is  *)
(* in it that was never there.                                             *)
(***************************************************************************)
EXTENDS Naturals, Sequences, FiniteSets

CONSTANTS
  Entry,        \* the entries that may be there
  MaxChanges    \* bound: additions and deletions by others during a command

ASSUME EntryAssumption ==
  /\ Entry \subseteq Seq(STRING) \ {<<>>}
  /\ MaxChanges \in Nat

VARIABLES
  there,      \* entries that are there now
  stable,     \* those that have been there since the command began
  ever,       \* those that have been there at some time since then
  changes     \* counts against MaxChanges

world == <<there, stable, ever, changes>>

-----------------------------------------------------------------------------
Parent(e) == SubSeq(e, 1, Len(e) - 1)

\* a is e or one of the entries e is in.
Holds(a, e) == Len(a) =< Len(e) /\ SubSeq(e, 1, Len(a)) = a

Children(n) == {e \in Entry : Len(e) = Len(n) + 1 /\ Holds(n, e)}

\* Nothing is there without what it is in.
Closed(S) == \A e \in S : Len(e) = 1 \/ Parent(e) \in S

WorldInit ==
  /\ there \in {S \in SUBSET Entry : Closed(S)}
  /\ stable = there
  /\ ever = there
  /\ changes = 0

\* Somebody publishes, or creates a repository.
Appear ==
  /\ changes < MaxChanges
  /\ \E e \in Entry \ there :
       /\ Len(e) = 1 \/ Parent(e) \in there
       /\ there' = there \cup {e}
       /\ ever' = ever \cup {e}
  /\ changes' = changes + 1
  /\ UNCHANGED stable

\* Somebody deletes an entry with all there is in it.
Vanish ==
  /\ changes < MaxChanges
  /\ \E e \in there :
       /\ there' = {f \in there : ~ Holds(e, f)}
       /\ stable' = {f \in stable : ~ Holds(e, f)}
  /\ changes' = changes + 1
  /\ UNCHANGED ever

OthersAct == Appear \/ Vanish

\* What a listing of n may return when it ends now.
Listings(n) ==
  {S \in SUBSET (Children(n) \cap ever) : Children(n) \cap stable \subseteq S}

WorldTypeOK ==
  /\ there \subseteq Entry /\ Closed(there)
  /\ stable \subseteq there
  /\ there \subseteq ever /\ ever \subseteq Entry
  /\ changes \in 0 .. MaxChanges
=============================================================================
