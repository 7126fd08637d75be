---------------------------- MODULE ListingProofs ----------------------------
(***************************************************************************)
(* What holds of cob ls and cob log --check-references for any registry,   *)
(* whatever others add to it and delete from it, for any number of pages   *)
(* and any limit of lookups in flight.                                     *)
(***************************************************************************)
EXTENDS ReadCommand, TLAPS

\* The kinds whose rows are what was there.
OfEntries == kind \notin {"promotion", "references"}

WithLookup == {"packages", "versions", "promotion", "references"}

\* What lasts of the world, and what has been listed of it.
PagesInv ==
  /\ kind \in Kinds
  /\ stage = "start" => kind = "references"
  /\ stable \subseteq there /\ there \subseteq ever
  /\ OfEntries => got \subseteq ever

\* The lookups: a slot is a hole as long as its item is to come or in flight,
\* and for good only once the context was cancelled.
LookupInv ==
  stage = "lookup" =>
    /\ kind \in WithLookup
    /\ OfEntries => stable \cap Item \subseteq got
    /\ slot \in [got -> Answers \cup {Hole}]
    /\ todo \subseteq got /\ busy \subseteq got
    /\ loop = "wait" => todo = {} \/ cancelled
    /\ \A i \in got :
         /\ slot[i] = Hole => i \in todo \cup busy \/ cancelled
         /\ slot[i] \in {"-", "(deleted)"} => i \notin stable

\* The inductive invariant.
ListInv ==
  cmd = "list" => PagesInv /\ (exit = "running" => LookupInv)
                           /\ ListingIsWhole /\ AbsenceIsReal

-----------------------------------------------------------------------------
LEMMA AnswersAreAnswers ==
  ASSUME kind \in WithLookup, NEW i, NEW failing \in BOOLEAN
  PROVE  /\ Answer(i, failing) \in Answers
         /\ Answer(i, failing) \in {"-", "(deleted)"} => i \notin there
BY DEF Answer, Answers, WithLookup

\* What others do keeps what is stable among what is there.
LEMMA OthersKeepWorld ==
  ASSUME stable \subseteq there, there \subseteq ever, OthersAct
  PROVE  stable' \subseteq there' /\ there' \subseteq ever' /\ stable' \subseteq stable
         /\ ever \subseteq ever'
BY DEF OthersAct, Appear, Vanish

LEMMA InitList == Init => ListInv
<1> SUFFICES ASSUME Init, cmd = "list"
             PROVE  PagesInv /\ LookupInv /\ ListingIsWhole /\ AbsenceIsReal
  BY DEF ListInv
<1>1. ListInit /\ WorldInit /\ exit = "running"
  BY DEF Init
<1> QED
  BY <1>1 DEF ListInit, WorldInit, PagesInv, LookupInv, ListingIsWhole, AbsenceIsReal

\* Nothing but the choice at the start makes a command the one that runs.
LEMMA CmdStays == [Next]_vars => cmd' = cmd
<1> SUFFICES ASSUME [Next]_vars PROVE cmd' = cmd
  OBVIOUS
<1> USE DEF shared, fanOut
<1>1. CASE ListStep
  BY <1>1 DEF ListStep, PageFails, PageNotFound, PageWithToken, LastPage, NoProbe,
     ProbeChainReferences, LookupCheck, LookupAcquire, Lookup, LookupsReturned, EndWith
<1>2. CASE WalkStep
  BY <1>2 DEF WalkStep, TooShallow, NoClient, WalkBegins, LevelBegins, LevelCheck, LevelAcquire,
     ExpandNode, ExpandNodeFails, LevelReturned, Render
<1>3. CASE DiffStep
  BY <1>3 DEF DiffStep, DiffGivesUp, DiffFetchProvenance, DiffListAssets, DiffCheck, DiffAcquire,
     CompareSource, CompareSourceFails, Report
<1>4. CASE UseStep
  BY <1>4 DEF UseStep, Cd, SetCurrentPackage, SetGlobalPackage, ClearCurrentPackage,
     ClearGlobalPackage, ResolveNothing, ResolveVersion, ResolveShorthand, ResolveFull, Resolves,
     Elsewhere
<1>5. CASE Others
  BY <1>5 DEF Others
<1>6. CASE Signal
  BY <1>6 DEF Signal, Cancel
<1>7. CASE UNCHANGED vars
  BY <1>7 DEF vars
<1> QED
  BY <1>1, <1>2, <1>3, <1>4, <1>5, <1>6, <1>7 DEF Next, Command

-----------------------------------------------------------------------------
\* The fan-out begins with a hole for each item, and each item to come.
LEMMA BeginKeeps ==
  ASSUME stage' = "lookup", Begin(got'), kind' \in WithLookup,
         OfEntries' => (stable \cap Item)' \subseteq got'
  PROVE  LookupInv'
<1>1. /\ todo' = got' /\ busy' = {} /\ slot' = [i \in got' |-> Hole]
      /\ loop' = IF got' = {} THEN "wait" ELSE "check"
  BY DEF Begin
<1>2. Hole \notin {"-", "(deleted)"}
  BY ListingAssumption DEF Answers
<1> QED
  BY <1>1, <1>2 DEF LookupInv

\* A page leaves no rows behind unless it is the last of a flat listing.
LEMMA PageKeeps ==
  ASSUME PagesInv, stage = "page", exit = "running", cmd = "list", cmd' = cmd,
         PageFails \/ PageNotFound \/ PageWithToken \/ LastPage
  PROVE  ListInv'
<1> USE ListingAssumption DEF ListInv, PagesInv, LookupInv, world, fanOut
<1>1. ASSUME NEW code \in {"Error", "NotFound"}, EndWith(NoRows, code),
             code = "NotFound" => there \cap Item = {}
      PROVE  ListInv'
  BY <1>1 DEF EndWith, ListingIsWhole, AbsenceIsReal, NoRows, OfEntries
<1>2. CASE PageFails
  BY <1>1, <1>2 DEF PageFails
<1>3. CASE PageNotFound
  BY <1>1, <1>3 DEF PageNotFound
<1>4. CASE PageWithToken
  <2>1. CASE pages + 1 >= MaxPages
    BY <1>1, <1>4, <2>1 DEF PageWithToken
  <2>2. CASE ~ (pages + 1 >= MaxPages)
    <3>1. /\ UNCHANGED <<kind, stage, rows, cancelled, exit, there, stable, ever>>
          /\ \E S \in SUBSET (Pageable \ got) : got' = got \cup S
      BY <1>4, <2>2 DEF PageWithToken
    <3>2. OfEntries => got' \subseteq ever'
      BY <3>1 DEF Pageable, OfEntries
    <3> QED
      BY <3>1, <3>2 DEF ListingIsWhole, AbsenceIsReal, OfEntries
  <2> QED
    BY <2>1, <2>2
<1>5. CASE LastPage
  <2>1. /\ UNCHANGED <<kind, cancelled, there, stable, ever>>
        /\ OfEntries => got' \subseteq ever /\ stable \cap Item \subseteq got'
    BY <1>5 DEF LastPage, Pageable, MustPage, OfEntries
  <2>2. CASE kind \in Flat
    <3>1. /\ stage' = "done"
          /\ exit' = IF got' = {} THEN "NotFound" ELSE "OK"
          /\ rows' = [i \in got' |-> "listed"]
      BY <1>5, <2>2 DEF LastPage
    <3> QED
      BY <2>1, <2>2, <3>1 DEF ListingIsWhole, AbsenceIsReal, OfEntries, Flat, Answers, Item
  <2>3. CASE kind \notin Flat
    <3>1. stage' = "lookup" /\ Begin(got') /\ exit' = exit
      BY <1>5, <2>3 DEF LastPage
    <3>2. LookupInv'
      <4>1. kind' \in WithLookup
        BY <2>1, <2>3, <1>5 DEF LastPage, Kinds, Flat, WithLookup
      <4>2. OfEntries' => (stable \cap Item)' \subseteq got'
        BY <2>1 DEF OfEntries, Item
      <4> HIDE DEF LookupInv
      <4> QED
        BY <3>1, <4>1, <4>2, BeginKeeps
    <3> QED
      BY <2>1, <3>1, <3>2 DEF ListingIsWhole, AbsenceIsReal, OfEntries
  <2> QED
    BY <2>2, <2>3
<1> QED
  BY <1>2, <1>3, <1>4, <1>5

LEMMA ProbeKeeps ==
  ASSUME PagesInv, stage = "start", exit = "running", cmd = "list", cmd' = cmd,
         NoProbe \/ ProbeChainReferences
  PROVE  ListInv'
<1> USE DEF ListInv, PagesInv, LookupInv, world, fanOut
<1>1. CASE NoProbe
  BY <1>1 DEF NoProbe, EndWith, ListingIsWhole, AbsenceIsReal, NoRows, OfEntries
<1>2. CASE ProbeChainReferences
  <2>1. /\ UNCHANGED <<kind, cancelled, exit, there, stable, ever>>
        /\ stage' = "lookup" /\ Begin(got')
    BY <1>2 DEF ProbeChainReferences
  <2>2. LookupInv'
    BY <2>1, BeginKeeps DEF OfEntries, WithLookup
  <2> QED
    BY <2>1, <2>2 DEF ListingIsWhole, AbsenceIsReal, OfEntries
<1> QED
  BY <1>1, <1>2

LEMMA LookupKeeps ==
  ASSUME PagesInv, LookupInv, stage = "lookup", exit = "running", cmd = "list", cmd' = cmd,
         LookupCheck \/ LookupAcquire \/ Lookup \/ LookupsReturned
  PROVE  ListInv'
<1> USE DEF ListInv, PagesInv, LookupInv, listing, world, OfEntries, Item
<1>1. CASE LookupCheck
  BY <1>1 DEF LookupCheck, CheckContext, ListingIsWhole, AbsenceIsReal
<1>2. CASE LookupAcquire
  BY <1>2 DEF LookupAcquire, Acquire, ListingIsWhole, AbsenceIsReal
<1>3. CASE Lookup
  <2>1. PICK i \in busy, failing \in BOOLEAN : Finish(i, Answer(i, failing))
    BY <1>3 DEF Lookup
  <2>2. UNCHANGED <<listing, cancelled, exit, world, loop, todo>>
    BY <1>3, <2>1 DEF Lookup, Finish
  <2>3. /\ Answer(i, failing) \in Answers /\ Answer(i, failing) # Hole
        /\ Answer(i, failing) \in {"-", "(deleted)"} => i \notin stable
    BY AnswersAreAnswers, ListingAssumption
  <2>4. busy' = busy \ {i} /\ slot' = [slot EXCEPT ![i] = Answer(i, failing)]
    BY <2>1 DEF Finish
  <2>5. LookupInv'
    BY <2>2, <2>3, <2>4
  <2> QED
    BY <2>2, <2>5 DEF ListingIsWhole, AbsenceIsReal
<1>4. CASE LookupsReturned
  <2>1. /\ UNCHANGED <<kind, got, cancelled, there, stable, ever>>
        /\ stage' = "done" /\ exit' = LookupsExit
        /\ rows' = IF LookupsExit = "OK" THEN slot ELSE NoRows
        /\ loop = "wait" /\ busy = {}
    BY <1>4 DEF LookupsReturned, EndWith, Drained
  <2>2. LookupsExit = "NotFound" => OfEntries /\ got = {}
    BY DEF LookupsExit
  <2>3. kind \in {"packages", "versions"} /\ LookupsExit = "OK" => ~ cancelled
    BY DEF LookupsExit
  <2>4. AbsenceIsReal'
    BY <2>1, <2>2 DEF AbsenceIsReal, NoRows
  <2>5. ListingIsWhole'
    BY <2>1, <2>3 DEF ListingIsWhole, NoRows
  <2> QED
    BY <2>1, <2>4, <2>5 DEF LookupsExit
<1> QED
  BY <1>1, <1>2, <1>3, <1>4

LEMMA NextList == ListInv /\ [Next]_vars => ListInv'
<1> SUFFICES ASSUME ListInv, [Next]_vars, cmd = "list" PROVE ListInv'
  BY CmdStays DEF ListInv
<1>0. /\ cmd' = cmd /\ PagesInv /\ ListingIsWhole /\ AbsenceIsReal
      /\ exit = "running" => LookupInv
  BY CmdStays DEF ListInv
<1> USE DEF shared, fanOut, world, listing
<1>1. CASE ListStep
  <2>1. exit = "running"
    BY <1>1 DEF ListStep
  <2>2. CASE PageFails \/ PageNotFound \/ PageWithToken \/ LastPage
    BY <1>0, <2>1, <2>2, PageKeeps DEF PageFails, PageNotFound, PageWithToken, LastPage
  <2>3. CASE NoProbe \/ ProbeChainReferences
    BY <1>0, <2>1, <2>3, ProbeKeeps DEF NoProbe, ProbeChainReferences
  <2>4. CASE LookupCheck \/ LookupAcquire \/ Lookup \/ LookupsReturned
    BY <1>0, <2>1, <2>4, LookupKeeps DEF LookupCheck, LookupAcquire, Lookup, LookupsReturned
  <2> QED
    BY <1>1, <2>2, <2>3, <2>4 DEF ListStep
<1>2. CASE Others
  <2>1. /\ exit = "running" /\ OthersAct
        /\ UNCHANGED <<shared, listing>>
    BY <1>2 DEF Others
  <2>2. /\ stable' \subseteq there' /\ there' \subseteq ever' /\ stable' \subseteq stable
        /\ ever \subseteq ever'
    BY <1>0, <2>1, OthersKeepWorld DEF PagesInv
  <2>3. PagesInv'
    BY <1>0, <2>1, <2>2 DEF PagesInv, OfEntries
  <2>4. LookupInv'
    BY <1>0, <2>1, <2>2 DEF LookupInv, OfEntries, Item
  <2> QED
    BY <2>1, <2>3, <2>4 DEF ListInv, ListingIsWhole, AbsenceIsReal
<1>3. CASE Signal
  <2>1. /\ exit = "running" /\ exit' = exit /\ cancelled' = TRUE
        /\ UNCHANGED <<fanOut, world, listing>>
    BY <1>3 DEF Signal, Cancel
  <2> QED
    BY <1>0, <2>1 DEF ListInv, PagesInv, LookupInv, OfEntries, Item, ListingIsWhole, AbsenceIsReal
<1>4. CASE UNCHANGED vars
  BY <1>0, <1>4 DEF vars, ListInv, PagesInv, LookupInv, OfEntries, Item, ListingIsWhole,
     AbsenceIsReal, NoRows
<1>5. CASE WalkStep \/ DiffStep \/ UseStep
  BY <1>5 DEF WalkStep, DiffStep, UseStep
<1> QED
  BY <1>1, <1>2, <1>3, <1>4, <1>5 DEF Next, Command

\* ListInv: pages, slots and the world, at every step of a listing.
THEOREM InvariantHolds == Spec => []ListInv
<1> QED
  BY InitList, NextList, PTL DEF Spec

\* ListingIsWhole: a listing that ends with OK has a row for everything that
\* was there from its first page to its end, and none for what never was.
THEOREM ListedIsWhole == Spec => []ListingIsWhole
<1>1. ListInv => ListingIsWhole
  BY DEF ListInv, ListingIsWhole
<1> QED
  BY <1>1, InvariantHolds, PTL

\* AbsenceIsReal: "-", "(deleted)" and exit code 2 are never said of what was
\* there throughout.
THEOREM AbsentIsGone == Spec => []AbsenceIsReal
<1>1. ListInv => AbsenceIsReal
  BY DEF ListInv, AbsenceIsReal
<1> QED
  BY <1>1, InvariantHolds, PTL
=============================================================================
