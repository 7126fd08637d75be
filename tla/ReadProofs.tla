----------------------------- MODULE ReadProofs -----------------------------
(***************************************************************************)
(* What holds of cob use, tree, ls -R and diff, and the types of all       *)
(* reading commands, for any registry, directories, targets and depths,    *)
(* any situations of a diff and any limit of calls in flight.              *)
(***************************************************************************)
EXTENDS ListingProofs, WellFoundedInduction

-----------------------------------------------------------------------------
(* The current package: a session of cob use, and what picks it up         *)

MaybeCoords == Coords \cup {NoCoords}

\* The pointers a session may have left.
SessionInv ==
  /\ cwd \in Dirs
  /\ cobDirs \subseteq Dirs
  /\ pointer \in [Dirs -> MaybeCoords]
  /\ \A d \in Dirs : pointer[d] # NoCoords => d \in cobDirs
  /\ home \in MaybeCoords
  /\ override \in MaybeCoords

\* The inductive invariant.
UseInv == cmd = "use" => SessionInv /\ NearestPointerWins

-----------------------------------------------------------------------------
\* Directories on the path to the working directory have an innermost one.
LEMMA InnermostExists ==
  ASSUME NEW n \in Nat, NEW S \in SUBSET (0 .. n), S # {}
  PROVE  \E d \in S : \A e \in S : e =< d
<1> DEFINE T == {n - d : d \in S}
<1>1. T \subseteq Nat /\ T # {}
  <2>1. ASSUME NEW d \in S PROVE n - d \in Nat
    <3>1. d \in 0 .. n
      OBVIOUS
    <3> QED
      BY <3>1
  <2> QED
    BY <2>1
<1>2. PICK t \in T : \A y \in T : ~ (<<y, t>> \in OpToRel(<, Nat))
  BY <1>1, WFMin, NatLessThanWellFounded
<1>3. PICK d \in S : t = n - d
  BY <1>2
<1>4. ASSUME NEW e \in S PROVE e =< d
  <2>1. n - e \in T /\ n - e \in Nat /\ t \in Nat
    BY <1>1, <1>2
  <2>2. ~ (n - e < t)
    BY <1>2, <2>1 DEF OpToRel
  <2>3. n \in Int /\ e \in Int /\ d \in Int
    OBVIOUS
  <2> QED
    BY <1>3, <2>2, <2>3
<1> QED
  BY <1>4

\* The walk up finds the innermost .cob directory, if there is one.
LEMMA CwdCurrentIs ==
  ASSUME SessionInv
  PROVE  /\ \A d \in cobDirs : d =< cwd => FindCobDir # {}
         /\ FindCobDir # {} =>
              \E d \in cobDirs : /\ d =< cwd /\ \A e \in cobDirs : e =< cwd => e =< d
                                 /\ CwdCurrent = pointer[d]
<1> USE UseAssumption DEF SessionInv, Dirs
<1>1. ASSUME NEW d \in cobDirs, d =< cwd PROVE FindCobDir # {}
  <2> DEFINE S == {e \in cobDirs : e =< cwd}
  <2>1. S \in SUBSET (0 .. Deepest) /\ S # {}
    BY <1>1
  <2>2. PICK e \in S : \A f \in S : f =< e
    BY <2>1, InnermostExists
  <2>3. e \in FindCobDir
    BY <2>2 DEF FindCobDir
  <2> QED
    BY <2>3
<1>2. ASSUME FindCobDir # {}
      PROVE  \E d \in cobDirs : /\ d =< cwd /\ \A e \in cobDirs : e =< cwd => e =< d
                                /\ CwdCurrent = pointer[d]
  <2> DEFINE d == CHOOSE x \in FindCobDir : TRUE
  <2>1. d \in FindCobDir
    BY <1>2
  <2>2. CwdCurrent = pointer[d]
    BY <1>2 DEF CwdCurrent
  <2> HIDE DEF d
  <2> QED
    BY <2>1, <2>2 DEF FindCobDir
<1> QED
  BY <1>1, <1>2

LEMMA CurrentIsNearest ==
  ASSUME SessionInv
  PROVE  /\ CurrentSource = "directory" =>
              \E d \in Pointing : (\A e \in Pointing : e =< d) /\ CurrentPackageIs = pointer[d]
         /\ CurrentSource \in {"home", "none"} /\ Pointing # {} =>
              \E e \in cobDirs \ Pointing : e =< cwd /\ \A d \in Pointing : d < e
         /\ CurrentSource = "home" => CurrentPackageIs = home
         /\ CurrentPackageIs \in MaybeCoords
<1> USE UseAssumption DEF SessionInv, Dirs
<1>1. Pointing = {d \in cobDirs : d =< cwd /\ pointer[d] # NoCoords}
  <2>1. \A d \in 0 .. cwd : d \in Dirs
    OBVIOUS
  <2>2. \A d \in cobDirs : d =< cwd => d \in 0 .. cwd
    OBVIOUS
  <2>3. \A d : d \in Pointing <=> d \in 0 .. cwd /\ pointer[d] # NoCoords
    BY DEF Pointing
  <2>4. \A d : d \in Pointing => d \in cobDirs /\ d =< cwd
    BY <2>1, <2>3
  <2> QED
    BY <2>2, <2>3, <2>4
<1>2. CurrentSource = "directory" => CwdCurrent # NoCoords
  BY DEF CurrentSource
<1>3. CurrentSource \in {"home", "none"} => CwdCurrent = NoCoords
  BY DEF CurrentSource
<1>4. ASSUME CwdCurrent # NoCoords
      PROVE  \E d \in Pointing : (\A e \in Pointing : e =< d) /\ CwdCurrent = pointer[d]
  <2>1. FindCobDir # {}
    BY <1>4 DEF CwdCurrent
  <2> QED
    BY <1>1, <1>4, <2>1, CwdCurrentIs
<1>5. ASSUME CwdCurrent = NoCoords, NEW p \in Pointing
      PROVE  \E e \in cobDirs \ Pointing : e =< cwd /\ \A d \in Pointing : d < e
  <2>1. FindCobDir # {}
    BY <1>1, CwdCurrentIs
  <2>2. PICK e \in cobDirs : /\ e =< cwd /\ \A f \in cobDirs : f =< cwd => f =< e
                             /\ CwdCurrent = pointer[e]
    BY <2>1, CwdCurrentIs
  <2>3. e \notin Pointing
    BY <1>1, <1>5, <2>2
  <2>4. \A d \in Pointing : d < e
    BY <1>1, <2>2, <2>3
  <2> QED
    BY <2>2, <2>3, <2>4
<1>6. CurrentSource = "directory" => CurrentPackageIs = CwdCurrent
  BY DEF CurrentPackageIs
<1>7. CurrentSource = "home" => CurrentPackageIs = home
  BY DEF CurrentPackageIs
<1>8. CurrentPackageIs \in MaybeCoords
  <2>1. CwdCurrent \in MaybeCoords
    BY CwdCurrentIs DEF CwdCurrent, MaybeCoords
  <2>2. CurrentSource \in {"override", "directory", "home", "none"}
    BY DEF CurrentSource
  <2> QED
    BY <2>1, <2>2 DEF CurrentPackageIs, MaybeCoords
<1> QED
  BY <1>2, <1>3, <1>4, <1>5, <1>6, <1>7, <1>8

-----------------------------------------------------------------------------
\* A command that is sent where the current package says.
LEMMA ResolvesNearest ==
  ASSUME SessionInv, cmd' = cmd, NEW c,
         \/ Resolves(c, CurrentSource) /\ (CurrentSource # "none" => c.repo = CurrentPackageIs.repo)
         \/ Resolves(c, "argument")
  PROVE  UseInv'
<1>1. /\ UNCHANGED <<cwd, cobDirs, pointer, home, override>>
      /\ resolved' = c
      /\ source' \in {CurrentSource, "argument"}
      /\ source' # "argument" => c.repo = CurrentPackageIs.repo \/ CurrentSource = "none"
  BY DEF Resolves
<1>2. SessionInv'
  BY <1>1 DEF SessionInv
<1>3. Pointing' = Pointing
  BY <1>1 DEF Pointing
<1>4. NearestPointerWins'
  BY <1>1, <1>3, CurrentIsNearest DEF NearestPointerWins
<1> QED
  BY <1>2, <1>4 DEF UseInv

LEMMA UseKeeps ==
  ASSUME SessionInv, cmd = "use", cmd' = cmd, UseStep
  PROVE  UseInv'
<1>0. exit = "running"
  BY DEF UseStep
<1>1. ASSUME exit' = exit, SessionInv' PROVE UseInv'
  BY <1>0, <1>1 DEF UseInv, NearestPointerWins
<1>2. NoCoords \in MaybeCoords /\ Coords \subseteq MaybeCoords
  BY DEF MaybeCoords
<1>3. CASE Cd
  <2>1. SessionInv'
    BY <1>3 DEF Cd, Elsewhere, SessionInv
  <2> QED
    BY <1>1, <1>3, <2>1 DEF Cd
<1>4. CASE SetCurrentPackage
  <2>1. PICK c \in Coords : cobDirs' = cobDirs \cup {cwd} /\ pointer' = [pointer EXCEPT ![cwd] = c]
    BY <1>4 DEF SetCurrentPackage
  <2>2. UNCHANGED <<cwd, home, override, exit>>
    BY <1>4 DEF SetCurrentPackage, Elsewhere
  <2>3. SessionInv'
    BY <1>2, <2>1, <2>2 DEF SessionInv
  <2> QED
    BY <1>1, <2>2, <2>3
<1>5. CASE ClearCurrentPackage
  <2>1. SessionInv'
    BY <1>2, <1>5 DEF ClearCurrentPackage, Elsewhere, SessionInv
  <2> QED
    BY <1>1, <1>5, <2>1 DEF ClearCurrentPackage
<1>6. CASE SetGlobalPackage \/ ClearGlobalPackage
  <2>1. SessionInv'
    BY <1>2, <1>6 DEF SetGlobalPackage, ClearGlobalPackage, Elsewhere, SessionInv
  <2> QED
    BY <1>1, <1>6, <2>1 DEF SetGlobalPackage, ClearGlobalPackage
<1>7. CASE ResolveNothing
  BY <1>7, ResolvesNearest DEF ResolveNothing
<1>8. CASE ResolveVersion
  <2>1. PICK v \in Version :
          Resolves(IF CurrentSource = "none" THEN NoCoords ELSE [CurrentPackageIs EXCEPT !.ver = v],
                   CurrentSource)
    BY <1>8 DEF ResolveVersion
  <2>2. [CurrentPackageIs EXCEPT !.ver = v].repo = CurrentPackageIs.repo
    BY CurrentIsNearest DEF MaybeCoords, Coords, NoCoords
  <2> QED
    BY <2>1, <2>2, ResolvesNearest
<1>9. CASE ResolveShorthand
  <2>1. PICK p \in Package, v \in Version \cup {Absent} :
          Resolves(IF CurrentSource = "none" THEN NoCoords
                   ELSE [repo |-> CurrentPackageIs.repo, pkg |-> p, ver |-> v], CurrentSource)
    BY <1>9 DEF ResolveShorthand
  <2> QED
    BY <2>1, ResolvesNearest
<1>10. CASE ResolveFull
  BY <1>10, ResolvesNearest DEF ResolveFull
<1> QED
  BY <1>3, <1>4, <1>5, <1>6, <1>7, <1>8, <1>9, <1>10 DEF UseStep

LEMMA NextUse == UseInv /\ [Next]_vars => UseInv'
<1> SUFFICES ASSUME UseInv, [Next]_vars, cmd' = "use" PROVE UseInv'
  BY DEF UseInv
<1> USE DEF shared, fanOut
<1>1. CASE ListStep
  BY <1>1 DEF ListStep, PageFails, PageNotFound, PageWithToken, LastPage, NoProbe,
     ProbeChainReferences, LookupCheck, LookupAcquire, Lookup, LookupsReturned, EndWith
<1>2. CASE WalkStep
  BY <1>2 DEF WalkStep, TooShallow, NoClient, WalkBegins, LevelBegins, LevelCheck, LevelAcquire,
     ExpandNode, ExpandNodeFails, LevelReturned, Render
<1>3. CASE DiffStep
  BY <1>3 DEF DiffStep, DiffGivesUp, DiffFetchProvenance, DiffListAssets, DiffCheck, DiffAcquire,
     CompareSource, CompareSourceFails, Report
<1>4. CASE UseStep
  BY <1>4, UseKeeps DEF UseInv, UseStep
<1>5. CASE Others
  BY <1>5 DEF Others
<1>6. CASE Signal
  BY <1>6 DEF Signal, Cancel
<1>7. CASE UNCHANGED vars
  BY <1>7 DEF vars, use, UseInv, SessionInv, NearestPointerWins, Pointing
<1> QED
  BY <1>1, <1>2, <1>3, <1>4, <1>5, <1>6, <1>7 DEF Next, Command

\* NearestPointerWins: no sequence of set, clear and change of directory sends
\* a command to a repository that a nearer pointer overrides.
THEOREM NearestWins == Spec => []NearestPointerWins
<1>1. Init => UseInv
  <2> SUFFICES ASSUME Init, cmd = "use" PROVE SessionInv /\ NearestPointerWins
    BY DEF UseInv
  <2>1. UseInit /\ exit = "running"
    BY DEF Init
  <2> QED
    BY <2>1 DEF UseInit, SessionInv, MaybeCoords, NearestPointerWins
<1>2. UseInv => NearestPointerWins
  BY DEF UseInv, NearestPointerWins
<1> QED
  BY <1>1, <1>2, NextUse, PTL DEF Spec

-----------------------------------------------------------------------------
(* Entries and what they are in                                            *)

Names == Seq(STRING)

\* The first k names that lead to e.
Prefix(e, k) == SubSeq(e, 1, k)

LEMMA EntryIsNames ==
  ASSUME NEW e \in Entry
  PROVE  e \in Names /\ Len(e) \in Nat \ {0}
BY EntryAssumption DEF Names

LEMMA PrefixIs ==
  ASSUME NEW e \in Names, NEW k \in 0 .. Len(e)
  PROVE  /\ Prefix(e, k) \in Names
         /\ Len(Prefix(e, k)) = k
         /\ \A i \in 1 .. k : Prefix(e, k)[i] = e[i]
BY DEF Prefix, Names

LEMMA PrefixWhole ==
  ASSUME NEW e \in Names
  PROVE  Prefix(e, Len(e)) = e
BY DEF Prefix, Names

LEMMA PrefixOfPrefix ==
  ASSUME NEW e \in Names, NEW k \in 0 .. Len(e), NEW j \in 0 .. k
  PROVE  Prefix(Prefix(e, k), j) = Prefix(e, j)
BY DEF Prefix, Names

\* An entry holds what the entries in it hold.
LEMMA HoldsParent ==
  ASSUME NEW e \in Entry, NEW f \in Entry, Len(f) # 1, Holds(e, Parent(f)), Parent(f) \in Entry
  PROVE  Holds(e, f)
<1>1. e \in Names /\ f \in Names /\ Len(e) \in Nat /\ Len(f) \in Nat \ {0}
  BY EntryIsNames
<1>2. Parent(f) = Prefix(f, Len(f) - 1) /\ Len(f) - 1 \in 0 .. Len(f)
  BY <1>1 DEF Parent, Prefix
<1>3. Len(Parent(f)) = Len(f) - 1
  BY <1>1, <1>2, PrefixIs
<1>4. Len(e) \in 0 .. Len(f) - 1 /\ Prefix(Parent(f), Len(e)) = e
  BY <1>1, <1>3 DEF Holds, Prefix
<1>5. Prefix(f, Len(e)) = e
  BY <1>1, <1>2, <1>4, PrefixOfPrefix
<1> QED
  BY <1>1, <1>4, <1>5 DEF Holds, Prefix

\* The least of a set of naturals.
LEMMA LeastExists ==
  ASSUME NEW S \in SUBSET Nat, S # {}
  PROVE  \E k \in S : \A j \in S : k =< j
<1>1. PICK k \in S : \A j \in S : ~ (<<j, k>> \in OpToRel(<, Nat))
  BY WFMin, NatLessThanWellFounded
<1>2. ASSUME NEW j \in S PROVE k =< j
  <2>1. j \in Nat /\ k \in Nat /\ ~ (j < k)
    BY <1>1 DEF OpToRel
  <2> QED
    BY <2>1
<1> QED
  BY <1>2

\* With an entry, a closed set has all the entries it is in.
LEMMA ClosedHasPrefixes ==
  ASSUME NEW S \in SUBSET Entry, Closed(S), NEW e \in S, NEW k \in 1 .. Len(e)
  PROVE  Prefix(e, k) \in S
<1>1. e \in Names /\ Len(e) \in Nat \ {0}
  BY EntryIsNames
<1> DEFINE Missing == {j \in Nat : j < Len(e) /\ Prefix(e, Len(e) - j) \notin S}
<1>2. ASSUME Missing # {} PROVE FALSE
  <2>1. PICK j \in Missing : \A i \in Missing : j =< i
    BY <1>2, LeastExists
  <2>2. j \in Nat /\ j < Len(e) /\ Prefix(e, Len(e) - j) \notin S
    BY <2>1
  <2>3. j # 0
    BY <1>1, <2>2, PrefixWhole
  <2>4. j - 1 \in Nat /\ j - 1 < Len(e) /\ j - 1 \notin Missing
    <3>1. j - 1 \in Nat /\ j - 1 < Len(e) /\ ~ (j =< j - 1)
      BY <1>1, <2>2, <2>3
    <3> QED
      BY <2>1, <3>1
  <2> DEFINE m == Len(e) - (j - 1)
             f == Prefix(e, m)
  <2>5. f \in S
    BY <2>4
  <2>6. m \in 0 .. Len(e) /\ m - 1 \in 0 .. m /\ m # 1 /\ m - 1 = Len(e) - j
    BY <1>1, <2>2, <2>3
  <2> HIDE DEF m
  <2>7. Len(f) = m
    BY <1>1, <2>6, PrefixIs
  <2>8. Parent(f) \in S
    BY <2>5, <2>6, <2>7 DEF Closed
  <2>9. Parent(f) = Prefix(e, m - 1)
    <3>1. Parent(f) = Prefix(f, m - 1)
      BY <2>7 DEF Parent, Prefix
    <3> QED
      BY <1>1, <2>6, <3>1, PrefixOfPrefix
  <2> QED
    BY <2>2, <2>6, <2>8, <2>9
<1>3. Len(e) - k \in Nat /\ Len(e) - k < Len(e) /\ Len(e) - (Len(e) - k) = k
  BY <1>1
<1> QED
  BY <1>2, <1>3

\* What is below an entry has it for its parent.
LEMMA ChildrenAreBelow ==
  ASSUME NEW n \in Entry \cup {<<>>}, NEW e \in Children(n)
  PROVE  e \in Entry /\ Len(e) = Len(n) + 1 /\ Parent(e) = n
<1>1. n \in Names /\ e \in Names /\ Len(n) \in Nat
  <2>1. <<>> \in Names /\ Len(<<>>) = 0
    BY DEF Names
  <2> QED
    BY <2>1, EntryIsNames DEF Children
<1>2. Len(e) = Len(n) + 1 /\ Holds(n, e)
  BY DEF Children
<1> QED
  BY <1>1, <1>2 DEF Children, Holds, Parent

\* An entry is below the one that its names but the last lead to.
LEMMA PrefixIsBelow ==
  ASSUME NEW e \in Entry, NEW k \in 1 .. Len(e), Prefix(e, k) \in Entry
  PROVE  /\ Prefix(e, k) \in Children(Prefix(e, k - 1))
         /\ Len(Prefix(e, k - 1)) = k - 1
         /\ Holds(Prefix(e, k - 1), e)
<1>1. /\ e \in Names /\ Len(e) \in Nat
      /\ k \in 0 .. Len(e) /\ k - 1 \in 0 .. Len(e) /\ k - 1 \in 0 .. k
  BY EntryIsNames
<1>2. Len(Prefix(e, k)) = k /\ Len(Prefix(e, k - 1)) = k - 1
  BY <1>1, PrefixIs
<1>3. SubSeq(Prefix(e, k), 1, k - 1) = Prefix(e, k - 1)
  BY <1>1, PrefixOfPrefix DEF Prefix
<1>4. SubSeq(e, 1, k - 1) = Prefix(e, k - 1)
  BY DEF Prefix
<1> QED
  BY <1>1, <1>2, <1>3, <1>4 DEF Children, Holds

\* An entry is in itself.
LEMMA HoldsItself ==
  ASSUME NEW e \in Entry
  PROVE  Holds(e, e)
BY EntryIsNames DEF Holds, Names

-----------------------------------------------------------------------------
(* What others do                                                          *)

LEMMA OthersKeepClosed ==
  ASSUME WorldTypeOK, OthersAct
  PROVE  WorldTypeOK' /\ (Closed(stable) => Closed(stable'))
<1> USE DEF WorldTypeOK
<1>1. CASE Appear
  BY <1>1, EntryAssumption DEF Appear, Closed
<1>2. CASE Vanish
  <2>1. PICK e \in there : /\ there' = {f \in there : ~ Holds(e, f)}
                           /\ stable' = {f \in stable : ~ Holds(e, f)}
    BY <1>2 DEF Vanish
  <2>2. ASSUME NEW S \in SUBSET Entry, Closed(S) PROVE Closed({f \in S : ~ Holds(e, f)})
    BY <2>2, HoldsParent DEF Closed
  <2>3. changes' \in 0 .. MaxChanges /\ ever' = ever
    BY <1>2, EntryAssumption DEF Vanish
  <2> QED
    BY <2>1, <2>2, <2>3
<1> QED
  BY <1>1, <1>2 DEF OthersAct

-----------------------------------------------------------------------------
(* The fan-out                                                             *)

FanOutTypeOK ==
  /\ loop \in Loops
  /\ todo \cap busy = {}
  /\ todo \cup busy \subseteq DOMAIN slot

LEMMA FanOutKept ==
  ASSUME FanOutTypeOK,
         \/ \E S : Begin(S)
         \/ CheckContext(cancelled)
         \/ \E i \in todo : Acquire(i)
         \/ \E i \in busy : \E r : Finish(i, r)
         \/ Done
         \/ UNCHANGED fanOut
  PROVE  FanOutTypeOK'
<1> USE DEF FanOutTypeOK, Loops
<1>1. CASE \E S : Begin(S)
  BY <1>1 DEF Begin
<1>2. CASE CheckContext(cancelled)
  BY <1>2 DEF CheckContext
<1>3. CASE \E i \in todo : Acquire(i)
  BY <1>3 DEF Acquire
<1>4. CASE \E i \in busy : \E r : Finish(i, r)
  BY <1>4 DEF Finish
<1>5. CASE Done
  BY <1>5 DEF Done
<1>6. CASE UNCHANGED fanOut
  BY <1>6 DEF fanOut
<1> QED
  BY <1>1, <1>2, <1>3, <1>4, <1>5, <1>6

-----------------------------------------------------------------------------
(* cob tree and ls -R                                                      *)

\* A node that needs no more work: everything below it is in the tree, or it
\* carries the error.
Accounted(n) == n \in failed \/ Children(n) \cap stable \subseteq tree

\* A node whose turn comes: on this level, or on the one after it.
Pending(n) ==
  IF loop = "idle" THEN n \in frontier
  ELSE n \in todo \cup busy \/ (n # target /\ Parent(n) \in Expandable)

\* The world, and the levels of the walk in it.
LevelsInv ==
  /\ Closed(stable)
  /\ depth = 0 => loop = "idle" /\ tree = {}
  /\ depth > 0 => target \in tree
  /\ tree \ {target} \subseteq ever
  /\ \A n \in tree : Len(target) =< Len(n)
  /\ loop = "idle" => todo = {} /\ busy = {}
  /\ todo \cup busy \subseteq Expandable

\* No node of the tree above the depth is forgotten.
NoneForgotten ==
  /\ loop = "wait" => todo = {} \/ cancelled
  /\ ~ cancelled => \A n \in tree : Len(n) < depth => Pending(n) \/ Accounted(n)

\* The inductive invariant.
WalkInv ==
  cmd = "walk" => /\ LevelsInv
                  /\ exit = "running" => NoneForgotten
                  /\ WalkAccountsForEverything

WalkTypes == WorldTypeOK /\ FanOutTypeOK /\ WalkTypeOK

LEMMA NodesHaveLengths ==
  ASSUME WalkTypeOK
  PROVE  /\ depth \in Nat
         /\ target \in Entry \cup {<<>>} /\ Len(target) \in Nat
         /\ tree \subseteq Entry \cup {<<>>} /\ \A n \in tree : Len(n) \in Nat
<1>1. Len(<<>>) = 0
  OBVIOUS
<1> QED
  BY <1>1, EntryIsNames, WalkAssumption DEF WalkTypeOK

\* A walk whose nodes are all accounted for has shown what there is.
LEMMA AccountedIsWhole ==
  ASSUME WalkTypes, Closed(stable), target \in tree,
         \A n \in tree : Len(n) < depth => Accounted(n),
         NEW e \in stable, Holds(target, e), Len(e) =< depth, e \notin tree
  PROVE  \E a \in failed : Holds(a, e)
<1>1. /\ stable \subseteq Entry /\ e \in Entry /\ e \in Names /\ Len(e) \in Nat \ {0}
      /\ depth \in Nat /\ Len(target) \in Nat
  BY NodesHaveLengths, EntryIsNames DEF WalkTypes, WorldTypeOK
<1>2. Len(target) =< Len(e) /\ Prefix(e, Len(target)) = target
  BY DEF Holds, Prefix
<1> DEFINE K == {k \in Nat : Len(target) =< k /\ k =< Len(e) /\ Prefix(e, k) \notin tree}
<1>3. Len(e) \in K
  BY <1>1, <1>2, PrefixWhole
<1>4. PICK k \in K : \A j \in K : k =< j
  <2>1. K \in SUBSET Nat /\ K # {}
    BY <1>3
  <2> HIDE DEF K
  <2> QED
    BY <2>1, LeastExists
<1>5. k \in Nat /\ Len(target) =< k /\ k =< Len(e) /\ Prefix(e, k) \notin tree
  BY <1>4
<1>6. k # Len(target)
  BY <1>2, <1>5
<1>7. k \in 1 .. Len(e) /\ k - 1 \in Nat /\ Len(target) =< k - 1 /\ k - 1 < Len(e)
  BY <1>1, <1>5, <1>6
<1> DEFINE n == Prefix(e, k - 1)
<1>8. n \in tree
  <2>1. k - 1 \notin K
    BY <1>4, <1>7
  <2> QED
    BY <1>1, <1>7, <2>1
<1>9. Prefix(e, k) \in stable
  BY <1>1, <1>7, ClosedHasPrefixes
<1>10. Prefix(e, k) \in Children(n) /\ Len(n) = k - 1 /\ Holds(n, e)
  BY <1>1, <1>7, <1>9, PrefixIsBelow
<1> HIDE DEF n, K
<1>11. Accounted(n)
  BY <1>1, <1>7, <1>8, <1>10
<1> QED
  BY <1>5, <1>9, <1>10, <1>11 DEF Accounted

\* The steps that leave the tree, its errors and the world alone.
LEMMA LevelKeeps ==
  ASSUME WalkTypes, LevelsInv, NoneForgotten, exit = "running", exit' = exit,
         UNCHANGED <<flat, target, depth, frontier, tree, failed, cancelled, world>>,
         depth > 0, LevelBegins \/ LevelCheck \/ LevelAcquire
  PROVE  WalkTypes' /\ WalkInv'
<1> USE DEF world
<1>1. WorldTypeOK' /\ WalkTypeOK'
  BY DEF WalkTypes, WorldTypeOK, WalkTypeOK
<1>2. FanOutTypeOK'
  <2>1. \/ \E S : Begin(S)
        \/ CheckContext(cancelled)
        \/ \E i \in todo : Acquire(i)
    BY DEF LevelBegins, LevelCheck, LevelAcquire
  <2> QED
    BY <2>1, FanOutKept DEF WalkTypes
<1>3. Expandable' = Expandable
  BY DEF Expandable
<1>4. WalkAccountsForEverything'
  BY DEF WalkAccountsForEverything
<1>5. \A n \in tree : Accounted(n) => Accounted(n)'
  BY DEF Accounted
<1>6. LevelsInv' /\ NoneForgotten'
  <2>1. CASE LevelBegins
    <3>1. /\ loop = "idle" /\ Expandable # {} /\ loop' = "check" /\ todo' = Expandable /\ busy' = {}
      BY <2>1 DEF LevelBegins, Begin
    <3>2. LevelsInv'
      BY <1>3, <3>1 DEF LevelsInv
    <3>3. \A n \in tree : Len(n) < depth /\ Pending(n) => Pending(n)'
      BY <3>1 DEF Pending, Expandable
    <3> QED
      BY <1>5, <3>1, <3>2, <3>3 DEF NoneForgotten
  <2>2. CASE LevelCheck
    <3>1. /\ loop = "check" /\ loop' = IF cancelled THEN "wait" ELSE "acquire"
          /\ UNCHANGED <<todo, busy>>
      BY <2>2 DEF LevelCheck, CheckContext
    <3>2. LevelsInv'
      BY <1>3, <3>1 DEF LevelsInv
    <3>3. \A n \in tree : Pending(n) => Pending(n)'
      BY <1>3, <3>1 DEF Pending
    <3> QED
      BY <1>5, <3>1, <3>2, <3>3 DEF NoneForgotten
  <2>3. CASE LevelAcquire
    <3>1. PICK i \in todo : Acquire(i)
      BY <2>3 DEF LevelAcquire
    <3>2. /\ loop = "acquire" /\ todo' = todo \ {i} /\ busy' = busy \cup {i}
          /\ loop' = IF todo = {i} THEN "wait" ELSE "check"
      BY <3>1 DEF Acquire
    <3>3. LevelsInv'
      BY <1>3, <3>2 DEF LevelsInv
    <3>4. \A n \in tree : Pending(n) => Pending(n)'
      BY <1>3, <3>2 DEF Pending
    <3> QED
      BY <1>5, <3>2, <3>3, <3>4 DEF NoneForgotten
  <2> QED
    BY <2>1, <2>2, <2>3
<1> QED
  BY <1>1, <1>2, <1>4, <1>6 DEF WalkTypes, WalkInv

LEMMA ExpandKeeps ==
  ASSUME WalkTypes, LevelsInv, NoneForgotten, exit = "running", depth > 0,
         ExpandNode \/ ExpandNodeFails
  PROVE  WalkTypes' /\ WalkInv'
<1> USE DEF world
<1>0. PICK n \in busy :
        /\ Finish(n, "listed")
        /\ \/ failed' = failed \cup {n} /\ tree' = tree
           \/ failed' = failed /\ \E S \in Listings(n) : tree' = tree \cup S
  BY DEF ExpandNode, ExpandNodeFails
<1>1. UNCHANGED <<flat, target, depth, frontier, cmd, cancelled, exit, world>>
  BY DEF ExpandNode, ExpandNodeFails
<1>2. busy' = busy \ {n} /\ UNCHANGED <<loop, todo>>
  BY <1>0 DEF Finish
<1>3. /\ tree \subseteq tree' /\ failed \subseteq failed' /\ failed' \subseteq failed \cup {n}
      /\ tree' \ tree \subseteq Children(n) /\ tree' \ tree \subseteq ever
  BY <1>0 DEF Listings
<1>4. n \in failed' \/ Children(n) \cap stable \subseteq tree'
  BY <1>0 DEF Listings
<1>5. Expandable' = Expandable /\ n \in Expandable /\ n \in frontier
  BY <1>1 DEF Expandable, LevelsInv
<1>6. /\ n \in tree /\ n \in Entry \cup {<<>>}
      /\ Len(n) \in Nat /\ Len(target) \in Nat /\ depth \in Nat
  BY <1>5, NodesHaveLengths DEF WalkTypes, WalkTypeOK
<1>7. \A e \in tree' \ tree : e \in Entry /\ Len(e) = Len(n) + 1 /\ Parent(e) = n
  BY <1>3, <1>6, ChildrenAreBelow
<1>8. Len(target) =< Len(n)
  BY <1>6 DEF LevelsInv
<1>9. WalkTypes'
  <2>1. FanOutTypeOK'
    BY <1>0, FanOutKept DEF WalkTypes
  <2>2. WorldTypeOK' /\ WalkTypeOK'
    BY <1>1, <1>3, <1>6, <1>7 DEF WalkTypes, WorldTypeOK, WalkTypeOK
  <2> QED
    BY <2>1, <2>2 DEF WalkTypes
<1>10. LevelsInv'
  <2>1. \A m \in tree' : Len(target) =< Len(m)
    BY <1>6, <1>7, <1>8 DEF LevelsInv
  <2> QED
    BY <1>1, <1>2, <1>3, <1>5, <2>1 DEF LevelsInv
<1>11. NoneForgotten'
  <2>1. ~ (loop = "idle")
    BY DEF LevelsInv
  <2>2. ASSUME ~ cancelled, NEW m \in tree', Len(m) < depth PROVE Pending(m)' \/ Accounted(m)'
    <3>1. CASE m = n
      BY <1>1, <1>4, <3>1 DEF Accounted
    <3>2. CASE m \in tree /\ m # n
      <4>1. Pending(m) \/ Accounted(m)
        BY <2>2, <3>2 DEF NoneForgotten
      <4>2. Pending(m) => Pending(m)'
        BY <1>1, <1>2, <1>5, <3>2 DEF Pending
      <4>3. Accounted(m) => Accounted(m)'
        BY <1>1, <1>3 DEF Accounted
      <4> QED
        BY <4>1, <4>2, <4>3
    <3>3. CASE m \notin tree
      <4>1. Len(m) = Len(n) + 1 /\ Parent(m) = n
        BY <1>7, <3>3
      <4>2. m # target
        BY <1>6, <1>8, <4>1
      <4> QED
        BY <1>1, <1>2, <1>5, <2>1, <4>1, <4>2 DEF Pending
    <3> QED
      BY <3>1, <3>2, <3>3
  <2> QED
    BY <1>1, <1>2, <2>2 DEF NoneForgotten
<1>12. WalkAccountsForEverything'
  BY <1>1 DEF WalkAccountsForEverything
<1> QED
  BY <1>9, <1>10, <1>11, <1>12 DEF WalkInv

LEMMA LevelReturnedKeeps ==
  ASSUME WalkTypes, LevelsInv, NoneForgotten, exit = "running", depth > 0, LevelReturned
  PROVE  WalkTypes' /\ WalkInv'
<1>1. /\ loop = "wait" /\ busy = {} /\ loop' = "idle" /\ todo' = {} /\ busy' = {}
      /\ UNCHANGED <<flat, target, depth, tree, failed, cmd, cancelled, exit, world>>
      /\ frontier' = {e \in tree : e # target /\ Parent(e) \in Expandable}
  BY DEF LevelReturned, Drained, Done
<1> USE DEF world
<1>2. WalkTypes'
  <2>1. FanOutTypeOK'
    BY FanOutKept DEF WalkTypes, LevelReturned
  <2>2. WorldTypeOK' /\ WalkTypeOK'
    BY <1>1 DEF WalkTypes, WorldTypeOK, WalkTypeOK
  <2> QED
    BY <2>1, <2>2 DEF WalkTypes
<1>3. LevelsInv'
  BY <1>1 DEF LevelsInv
<1>4. NoneForgotten'
  <2>1. ASSUME ~ cancelled, NEW n \in tree, Len(n) < depth PROVE Pending(n)' \/ Accounted(n)'
    <3>1. Pending(n) \/ Accounted(n)
      BY <2>1 DEF NoneForgotten
    <3>2. Pending(n) => n # target /\ Parent(n) \in Expandable
      BY <1>1, <2>1 DEF Pending, NoneForgotten
    <3>3. Pending(n) => Pending(n)'
      BY <1>1, <3>2 DEF Pending
    <3>4. Accounted(n) => Accounted(n)'
      BY <1>1 DEF Accounted
    <3> QED
      BY <3>1, <3>3, <3>4
  <2> QED
    BY <1>1, <2>1 DEF NoneForgotten
<1>5. WalkAccountsForEverything'
  BY <1>1 DEF WalkAccountsForEverything
<1> QED
  BY <1>2, <1>3, <1>4, <1>5 DEF WalkInv

LEMMA RenderKeeps ==
  ASSUME WalkTypes, LevelsInv, NoneForgotten, depth > 0, Render
  PROVE  WalkTypes' /\ WalkInv'
<1>1. /\ loop = "idle" /\ Expandable = {}
      /\ UNCHANGED <<walk, cmd, cancelled, world, fanOut>>
      /\ exit' \in {"OK", "NotFound"}
  BY DEF Render
<1> USE DEF world, walk, fanOut
<1>2. WalkTypes'
  BY <1>1 DEF WalkTypes, WorldTypeOK, FanOutTypeOK, WalkTypeOK
<1>3. LevelsInv'
  BY <1>1 DEF LevelsInv, Expandable
<1>4. WalkAccountsForEverything'
  <2>1. ASSUME ~ cancelled PROVE \A n \in tree : Len(n) < depth => Accounted(n)
    BY <1>1, <2>1 DEF NoneForgotten, Pending, Expandable
  <2>2. ASSUME ~ cancelled, NEW e \in stable, Holds(target, e), Len(e) =< depth
        PROVE  e \in tree \/ \E a \in failed : Holds(a, e)
    BY <2>1, <2>2, AccountedIsWhole DEF LevelsInv
  <2> QED
    BY <1>1, <2>2 DEF WalkAccountsForEverything, LevelsInv
<1> QED
  BY <1>1, <1>2, <1>3, <1>4 DEF WalkInv

LEMMA WalkStepKeeps ==
  ASSUME WalkTypes, LevelsInv, NoneForgotten, cmd' = cmd, WalkStep
  PROVE  WalkTypes' /\ WalkInv'
<1> USE DEF world, walk, fanOut
<1>1. cmd = "walk" /\ exit = "running"
  BY DEF WalkStep
<1>2. CASE depth = 0 /\ (TooShallow \/ NoClient)
  <2>1. exit' = "Error" /\ UNCHANGED <<walk, cancelled, world, fanOut>>
    BY <1>2 DEF TooShallow, NoClient
  <2>2. WalkTypes'
    BY <2>1 DEF WalkTypes, WorldTypeOK, FanOutTypeOK, WalkTypeOK
  <2>3. LevelsInv' /\ WalkAccountsForEverything'
    BY <2>1 DEF LevelsInv, Expandable, WalkAccountsForEverything
  <2> QED
    BY <2>1, <2>2, <2>3 DEF WalkInv
<1>3. CASE depth = 0 /\ WalkBegins
  <2>1. /\ frontier' = {target} /\ tree' = {target} /\ loop = "idle"
        /\ UNCHANGED <<flat, target, failed, cancelled, exit, world, fanOut>>
        /\ \E d \in Depths \cup {DefaultDepth} : depth' = d
    BY <1>3 DEF WalkBegins, LevelsInv
  <2>2. depth' \in 1 .. 5
    BY <2>1, NodesHaveLengths, WalkAssumption DEF DefaultDepth, StartDepth, WalkTypes
  <2>3. WalkTypes'
    BY <1>3, <2>1, <2>2, NodesHaveLengths
       DEF WalkTypes, WorldTypeOK, FanOutTypeOK, WalkTypeOK, LevelsInv
  <2>4. LevelsInv'
    BY <2>1, <2>2, NodesHaveLengths DEF LevelsInv, WalkTypes
  <2>5. NoneForgotten'
    BY <2>1 DEF NoneForgotten, Pending
  <2> QED
    BY <1>1, <2>1, <2>3, <2>4, <2>5 DEF WalkInv, WalkAccountsForEverything
<1>4. CASE depth > 0 /\ (LevelBegins \/ LevelCheck \/ LevelAcquire)
  BY <1>1, <1>4, LevelKeeps DEF LevelBegins, LevelCheck, LevelAcquire
<1>5. CASE depth > 0 /\ (ExpandNode \/ ExpandNodeFails)
  BY <1>1, <1>5, ExpandKeeps
<1>6. CASE depth > 0 /\ LevelReturned
  BY <1>1, <1>6, LevelReturnedKeeps
<1>7. CASE depth > 0 /\ Render
  BY <1>7, RenderKeeps
<1> QED
  BY <1>2, <1>3, <1>4, <1>5, <1>6, <1>7 DEF WalkStep

-----------------------------------------------------------------------------
(* cob diff                                                                *)

\* What has been read of the two sides.
SidesInv ==
  /\ at = "document" => mode \in {"manifest", "selfcheck"}
  /\ at \in {"resolve", "report"} => listed = Published /\ (at = "resolve" <=> mode = "manifest")
  /\ mode = "selfcheck" /\ at # "document" => doc = "read"
  /\ doc = "read" => exists

\* The comparisons: a slot is a hole as long as its source is to come or in
\* flight, and for good only once the context was cancelled.
ComparedInv ==
  at = "resolve" =>
    /\ slot \in [Sources -> Verdicts \cup {Hole}]
    /\ todo \subseteq Sources /\ busy \subseteq Sources
    /\ loop = "wait" => todo = {} \/ cancelled
    /\ \A n \in Sources :
         /\ slot[n] = Hole => n \in todo \cup busy \/ cancelled
         /\ slot[n] # Hole =>
              slot[n] = "error" \/ \E headFails \in BOOLEAN : slot[n] = Compare(n, headFails)

\* The inductive invariant.
DiffInv ==
  cmd = "diff" => /\ SidesInv
                  /\ exit = "running" => ComparedInv
                  /\ DiffVerdictHolds

DiffTypes == FanOutTypeOK /\ DiffTypeOK

\* What the sides hold of a name.
LEMMA SituationIs ==
  ASSUME DiffTypeOK, NEW n \in Name
  PROVE  /\ sit[n].other \in Bytes \cup {None}
         /\ sit[n].pub \in Bytes \cup {None}
         /\ sit[n].rec \in Bytes \cup {None, Unhashed}
         /\ sit[n].origin \in Bytes \cup {None, "blank"}
         /\ sit[n].sum \in BOOLEAN /\ sit[n].pubsum \in BOOLEAN
<1>1. sit[n] \in Situations
  BY DEF DiffTypeOK
<1>2. sit[n] \in [other : Bytes \cup {None}, sum : BOOLEAN, readable : BOOLEAN,
        pub : Bytes \cup {None}, pubsum : BOOLEAN, rec : Bytes \cup {None, Unhashed},
        origin : Bytes \cup {None, "blank"}]
  BY <1>1, DiffAssumption
<1> QED
  BY <1>2

\* What it takes for a hash of the source to be that of a published asset.
LEMMA AgainstSays ==
  ASSUME DiffTypeOK, listed = Published, NEW n \in Name, NEW from, NEW sha,
         sha \in Bytes \cup {None, Unhashed},
         from \in {"match(source)", "match(deep)", "match(origin)", "match(provenance)"}
  PROVE  LET c == Against(n, sha, from) IN
         /\ c \in {"added", "unknown", "changed", from}
         /\ c = "added" <=> n \notin Published
         /\ c = "unknown" => sha \in {None, Unhashed}
         /\ c = "changed" => sha \in Bytes /\ (sha # sit[n].pub \/ ~ sit[n].pubsum)
         /\ c = from => sha = sit[n].pub
BY SituationIs, DiffAssumption DEF Against, PubSHA

\* The match of n takes the word of an origin that is no proof of the hash.
WordOfOrigin(n) == sit[n].origin \in {"blank"} \cup (Bytes \ {sit[n].rec})

\* A published asset may be reported as changed although both sides are equal.
ChangedAnyway(n) == Misrecorded(n) \/ HashMissing(n)

\* Unverified, for a report v that is not out yet.
UnverifiedIn(v, n) ==
  /\ mode = "manifest"
  /\ n \in DOMAIN v
  /\ \/ v[n] \in {"unknown", "match(provenance)"}
     \/ v[n] = "match(origin)" /\ WordOfOrigin(n)

\* What exit codes 0 and 4 stand for.
ZeroSays(v) ==
  \A n \in Name : SameAt(n) \/ (n \in Published /\ (UnverifiedIn(v, n) \/ NoHash(n)))
FourSays(v) ==
  \/ \E n \in Name : ~ SameAt(n)
  \/ \E n \in DOMAIN v : v[n] = "drifted"
  \/ \E n \in DOMAIN v \cap Published : v[n] = "changed" /\ ChangedAnyway(n)

\* What comparing one source may say, and when.
LEMMA CompareSays ==
  ASSUME DiffTypeOK, listed = Published, mode = "manifest", NEW n \in Sources,
         NEW headFails \in BOOLEAN
  PROVE  /\ Compare(n, headFails) \in {"added", "unknown", "changed", "drifted", "match(source)",
                                       "match(deep)", "match(origin)", "match(provenance)"}
         /\ Compare(n, headFails) = "added" => n \notin Published
         /\ Compare(n, headFails) = "changed" =>
              n \in Published /\ (sit[n].other # sit[n].pub \/ ChangedAnyway(n))
         /\ Compare(n, headFails) \in {"match(source)", "match(deep)"} =>
              n \in Published /\ sit[n].other = sit[n].pub
         /\ Compare(n, headFails) = "match(origin)" =>
              n \in Published /\ (sit[n].other = sit[n].pub \/ WordOfOrigin(n))
         /\ Compare(n, headFails) \in {"unknown", "match(provenance)"} => n \in Published
<1> DEFINE c == Compare(n, headFails)
<1>0. /\ n \in Name /\ sit[n].other \in Bytes
      /\ sit[n].rec \in Bytes \cup {None, Unhashed}
      /\ sit[n].origin \in Bytes \cup {None, "blank"}
      /\ sit[n].sum \in BOOLEAN /\ sit[n].pubsum \in BOOLEAN
      /\ mode = "manifest"
  BY SituationIs DEF Sources
<1>1. CASE sit[n].sum
  <2>1. c = Against(n, sit[n].other, "match(source)")
    BY <1>1 DEF Compare
  <2> QED
    BY <1>0, <2>1, AgainstSays, DiffAssumption DEF ChangedAnyway, HashMissing
<1>2. CASE ~ sit[n].sum /\ deep
  <2>1. c = Against(n, sit[n].other, "match(deep)")
    BY <1>2 DEF Compare
  <2> QED
    BY <1>0, <2>1, AgainstSays, DiffAssumption DEF ChangedAnyway, HashMissing
<1>3. CASE ~ sit[n].sum /\ ~ deep /\ ProvOrigin(n) # None
  <2>1. c = IF headFails \/ ProvOrigin(n) \notin {"blank", sit[n].other}
              THEN IF n \in listed THEN "drifted" ELSE "added"
              ELSE Against(n, ProvSHA(n), "match(origin)")
    BY <1>3 DEF Compare
  <2>2. ProvOrigin(n) = sit[n].origin /\ ProvSHA(n) = sit[n].rec
    BY <1>3 DEF ProvOrigin, ProvSHA
  <2>3. CASE headFails \/ ProvOrigin(n) \notin {"blank", sit[n].other}
    BY <2>1, <2>3
  <2>4. CASE ~ headFails /\ ProvOrigin(n) \in {"blank", sit[n].other}
    <3>1. c = Against(n, sit[n].rec, "match(origin)")
      BY <2>1, <2>2, <2>4
    <3>2. sit[n].other = sit[n].rec \/ WordOfOrigin(n)
      BY <1>0, <2>2, <2>4 DEF WordOfOrigin
    <3> QED
      BY <1>0, <1>3, <3>1, <3>2, AgainstSays, DiffAssumption
         DEF ChangedAnyway, Misrecorded, HashMissing
  <2> QED
    BY <2>3, <2>4
<1>4. CASE ~ sit[n].sum /\ ~ deep /\ ProvOrigin(n) = None
  <2>1. c = Against(n, ProvSHA(n), "match(provenance)")
    BY <1>4 DEF Compare
  <2>2. ProvSHA(n) \in {None, sit[n].rec}
    BY DEF ProvSHA
  <2> QED
    BY <1>0, <1>4, <2>1, <2>2, AgainstSays, DiffAssumption
       DEF ChangedAnyway, Misrecorded, HashMissing
<1> QED
  BY <1>0, <1>1, <1>2, <1>3, <1>4

-----------------------------------------------------------------------------
(* The reports                                                             *)

\* What the exit code of a report says of its verdicts.
LEMMA ExitSays ==
  ASSUME NEW v, NEW code, code = ReportExit(v)
  PROVE  /\ code = "OK" => \A n \in DOMAIN v : v[n] \notin Drift \cup {"error"}
         /\ code = "Mismatch" => \E n \in DOMAIN v : v[n] \in Drift
BY DEF ReportExit

LEMMA ManifestReport ==
  ASSUME DiffTypeOK, SidesInv, ComparedInv, at = "resolve", Drained, NEW v, v = ManifestVerdict
  PROVE  /\ DOMAIN v \subseteq Name
         /\ \A n \in DOMAIN v : v[n] \in Verdicts
         /\ (ReportExit(v) = "OK" /\ ~ cancelled /\ exists) => ZeroSays(v)
         /\ (ReportExit(v) = "Mismatch" /\ ~ cancelled) => FourSays(v)
<1>1. /\ mode = "manifest" /\ listed = Published /\ DOMAIN v = Sources \cup Published
      /\ slot \in [Sources -> Verdicts \cup {Hole}]
  BY DEF SidesInv, ComparedInv, ManifestVerdict
<1>2. Sources \subseteq Name /\ Published \subseteq Name
  BY DEF Sources, Published
<1>3. \A n \in DOMAIN v : v[n] = IF n \in Sources /\ slot[n] # Hole THEN slot[n]
                                  ELSE IF n \in Published THEN "removed" ELSE "unknown"
  BY <1>1 DEF ManifestVerdict
<1>4. \A n \in DOMAIN v : v[n] \in Verdicts
  BY <1>1, <1>3 DEF Verdicts
<1>5. \A n \in Name : SameAt(n) <=> ((n \in Published \/ n \in Sources)
                                       => n \in Published /\ sit[n].other = sit[n].pub)
  BY <1>1 DEF SameAt
<1>6. ASSUME ~ cancelled, NEW n \in Sources
      PROVE  v[n] = "error" \/ \E headFails \in BOOLEAN : v[n] = Compare(n, headFails)
  <2>1. slot[n] # Hole
    BY <1>6 DEF ComparedInv, Drained
  <2> QED
    BY <1>1, <1>3, <2>1 DEF ComparedInv
<1>7. ASSUME NEW n \in Published, n \notin Sources
      PROVE  v[n] = "removed" /\ ~ SameAt(n)
  <2>1. v[n] = "removed"
    BY <1>1, <1>3, <1>7
  <2>2. sit[n].other = None /\ sit[n].pub # None /\ n \in Name
    BY <1>7 DEF Sources, Published
  <2> QED
    BY <1>5, <1>7, <2>1, <2>2
<1>8. ASSUME ReportExit(v) = "OK", ~ cancelled, exists, NEW n \in Name
      PROVE  SameAt(n) \/ (n \in Published /\ UnverifiedIn(v, n))
  <2>1. \A x \in DOMAIN v : v[x] \notin Drift \cup {"error"}
    BY <1>8, ExitSays
  <2>2. CASE n \notin Sources
    BY <1>1, <1>5, <1>7, <2>1, <2>2 DEF Drift
  <2>3. CASE n \in Sources
    <3>1. PICK headFails \in BOOLEAN : v[n] = Compare(n, headFails)
      BY <1>1, <1>6, <1>8, <2>1, <2>3
    <3>2. v[n] \notin {"added", "changed", "drifted"}
      BY <1>1, <2>1, <2>3 DEF Drift
    <3> QED
      BY <1>1, <1>5, <2>3, <3>1, <3>2, CompareSays DEF UnverifiedIn
  <2> QED
    BY <2>2, <2>3
<1>9. ASSUME ReportExit(v) = "Mismatch", ~ cancelled
      PROVE  FourSays(v)
  <2>1. PICK n \in DOMAIN v : v[n] \in Drift
    BY <1>9, ExitSays
  <2>2. CASE n \notin Sources
    BY <1>1, <1>2, <1>7, <2>2 DEF FourSays
  <2>3. CASE n \in Sources
    <3>1. PICK headFails \in BOOLEAN : v[n] = Compare(n, headFails)
      BY <1>6, <1>9, <2>1, <2>3 DEF Drift
    <3>2. v[n] \in {"added", "changed", "drifted"}
      BY <1>1, <2>1, <2>3, <3>1, CompareSays DEF Drift
    <3>3. v[n] = "added" => ~ SameAt(n)
      BY <1>1, <1>2, <1>5, <2>3, <3>1, CompareSays
    <3>4. v[n] = "changed" => n \in Published /\ (~ SameAt(n) \/ ChangedAnyway(n))
      BY <1>1, <1>2, <1>5, <2>3, <3>1, CompareSays
    <3> QED
      BY <1>2, <2>3, <3>2, <3>3, <3>4 DEF FourSays
  <2> QED
    BY <2>2, <2>3
<1> QED
  BY <1>1, <1>2, <1>4, <1>8, <1>9 DEF ZeroSays

LEMMA OtherReports ==
  ASSUME DiffTypeOK, SidesInv, at = "report", NEW v, v = VerdictOf
  PROVE  /\ DOMAIN v \subseteq Name
         /\ \A n \in DOMAIN v : v[n] \in Verdicts
         /\ (ReportExit(v) = "OK" /\ exists) => ZeroSays(v)
         /\ ReportExit(v) = "Mismatch" => FourSays(v)
<1>0. /\ Sources \subseteq Name /\ Published \subseteq Name /\ Recorded \subseteq Name
      /\ listed = Published /\ mode \in {"selfcheck", "directory", "versions"}
  BY DEF Sources, Published, Recorded, SidesInv, DiffTypeOK, Modes
<1>1. \A n \in Published : sit[n].pub \in Bytes /\ sit[n].pub # None
  BY SituationIs DEF Published
<1>2. \A n \in Name : /\ sit[n].rec \in Bytes \cup {None, Unhashed}
                      /\ sit[n].other \in Bytes \cup {None}
                      /\ n \in Recorded <=> sit[n].rec # None
                      /\ n \in Sources <=> sit[n].other # None
  BY SituationIs DEF Recorded, Sources
<1> USE <1>0, <1>1, <1>2, ExitSays, DiffAssumption
    DEF Drift, Verdicts, PubSHA, LeftSHA, ZeroSays, FourSays, NoHash, HashMissing, ChangedAnyway
<1>3. CASE mode = "selfcheck"
  <2>1. v = SelfCheckVerdict
    BY <1>3 DEF VerdictOf
  <2>2. /\ DOMAIN v = Recorded \cup Published
        /\ \A n \in DOMAIN v : v[n] = IF n \notin Recorded THEN "unknown"
                                      ELSE IF n \notin Published THEN "missing"
                                      ELSE IF sit[n].rec = PubSHA(n) THEN "match(provenance)"
                                      ELSE "changed"
    BY <2>1 DEF SelfCheckVerdict
  <2>3. \A n \in Name : SameAt(n) <=> (n \in Recorded => n \in Published /\ sit[n].rec = sit[n].pub)
    BY <1>3 DEF SameAt
  <2>4. (ReportExit(v) = "OK" /\ exists) => ZeroSays(v)
    BY <1>3, <2>2, <2>3
  <2>5. ReportExit(v) = "Mismatch" => FourSays(v)
    BY <2>2, <2>3
  <2> QED
    BY <2>2, <2>4, <2>5
<1>4. CASE mode = "directory"
  <2>1. v = DirectoryVerdict
    BY <1>4 DEF VerdictOf
  <2>2. /\ DOMAIN v = Published
        /\ \A n \in DOMAIN v : v[n] = IF ~ sit[n].readable THEN "error"
                                      ELSE IF sit[n].other = None THEN "missing"
                                      ELSE IF sit[n].other = PubSHA(n) THEN "same" ELSE "changed"
    BY <2>1 DEF DirectoryVerdict
  <2>3. \A n \in Name : SameAt(n) <=> (n \in Published => sit[n].other = sit[n].pub)
    BY <1>4 DEF SameAt
  <2>4. (ReportExit(v) = "OK" /\ exists) => ZeroSays(v)
    BY <2>2, <2>3
  <2>5. ReportExit(v) = "Mismatch" => FourSays(v)
    BY <2>2, <2>3
  <2> QED
    BY <2>2, <2>4, <2>5
<1>5. CASE mode = "versions"
  <2>1. v = VersionsVerdict
    BY <1>5 DEF VerdictOf
  <2>2. /\ DOMAIN v = Sources \cup Published
        /\ \A n \in DOMAIN v : v[n] = IF n \notin Sources THEN "added"
                                      ELSE IF n \notin Published THEN "removed"
                                      ELSE IF LeftSHA(n) = PubSHA(n) THEN "same" ELSE "changed"
    BY <2>1 DEF VersionsVerdict
  <2>3. \A n \in Name : SameAt(n) <=> ((n \in Published \/ n \in Sources)
                                         => n \in Published /\ sit[n].other = sit[n].pub)
    BY <1>5 DEF SameAt
  <2>4. (ReportExit(v) = "OK" /\ exists) => ZeroSays(v)
    BY <1>5, <2>2, <2>3
  <2>5. ReportExit(v) = "Mismatch" => FourSays(v)
    BY <1>5, <2>2, <2>3
  <2> QED
    BY <2>2, <2>4, <2>5
<1> QED
  BY <1>3, <1>4, <1>5

LEMMA ReportKeeps ==
  ASSUME DiffTypes, SidesInv, ComparedInv, Report
  PROVE  DiffTypes' /\ DiffInv'
<1>1. /\ verdict' = VerdictOf /\ exit' = ReportExit(VerdictOf)
      /\ UNCHANGED <<mode, deep, exists, sit, doc, listed, at, cmd, cancelled>>
      /\ (at = "resolve" /\ Drained /\ Done) \/ (at = "report" /\ UNCHANGED fanOut)
  BY DEF Report
<1> DEFINE v == VerdictOf
<1>2. /\ Name' = Name /\ Published' = Published /\ Sources' = Sources
      /\ \A n \in Name : SameAt(n)' = SameAt(n)
  BY <1>1 DEF SameAt, Published, Sources, Recorded
<1>3. FanOutTypeOK'
  BY <1>1, FanOutKept DEF DiffTypes
<1>4. /\ DOMAIN v \subseteq Name
      /\ \A n \in DOMAIN v : v[n] \in Verdicts
      /\ (ReportExit(v) = "OK" /\ ~ cancelled /\ exists) => ZeroSays(v)
      /\ (ReportExit(v) = "Mismatch" /\ ~ cancelled) => FourSays(v)
  <2>1. CASE at = "resolve"
    <3>1. v = ManifestVerdict
      BY <2>1 DEF SidesInv, VerdictOf
    <3> HIDE DEF v
    <3> QED
      BY <1>1, <2>1, <3>1, ManifestReport DEF DiffTypes
  <2>2. CASE at = "report"
    <3>1. v = VerdictOf
      OBVIOUS
    <3> HIDE DEF v
    <3> QED
      BY <2>2, <3>1, OtherReports DEF DiffTypes
  <2> QED
    BY <1>1, <2>1, <2>2
<1>5. verdict' = v /\ exit' = ReportExit(v)
  BY <1>1
<1> HIDE DEF v
<1>6. DiffTypeOK'
  BY <1>1, <1>2, <1>4, <1>5 DEF DiffTypes, DiffTypeOK
<1>7. SidesInv'
  BY <1>1, <1>2 DEF SidesInv
<1>8. exit' # "running"
  BY <1>5 DEF ReportExit
<1>9. DiffZeroAgrees'
  BY <1>1, <1>2, <1>4, <1>5
     DEF DiffZeroAgrees, ZeroSays, Unverified, UnverifiedIn, WordOfOrigin, NoHash
<1>10. DiffFourDiffers'
  BY <1>1, <1>2, <1>4, <1>5
     DEF DiffFourDiffers, FourSays, ChangedAnyway, Misrecorded, HashMissing
<1> QED
  BY <1>3, <1>6, <1>7, <1>8, <1>9, <1>10 DEF DiffTypes, DiffInv, DiffVerdictHolds

\* The comparisons, while the sides stay as they are.
LEMMA CompareKeeps ==
  ASSUME DiffTypes, SidesInv, ComparedInv, exit = "running",
         DiffCheck \/ DiffAcquire \/ CompareSource \/ CompareSourceFails
  PROVE  DiffTypes' /\ DiffInv'
<1>1. at = "resolve" /\ UNCHANGED <<diff, cmd, cancelled, exit>>
  BY DEF DiffCheck, DiffAcquire, CompareSource, CompareSourceFails
<1> USE DEF diff
<1>2. DiffTypes'
  <2>1. FanOutTypeOK'
    <3>1. \/ CheckContext(cancelled)
          \/ \E i \in todo : Acquire(i)
          \/ \E i \in busy : \E r : Finish(i, r)
      BY DEF DiffCheck, DiffAcquire, CompareSource, CompareSourceFails
    <3> QED
      BY <3>1, FanOutKept DEF DiffTypes
  <2> QED
    BY <1>1, <2>1 DEF DiffTypes, DiffTypeOK, Published
<1>3. SidesInv' /\ Sources' = Sources
  BY <1>1 DEF SidesInv, Published, Sources
<1>4. \A n, h : Compare(n, h)' = Compare(n, h)
  BY <1>1 DEF Compare, Against, PubSHA, ProvSHA, ProvOrigin
<1>5. ComparedInv'
  <2>1. CASE DiffCheck
    BY <1>1, <1>3, <1>4, <2>1 DEF ComparedInv, DiffCheck, CheckContext
  <2>2. CASE DiffAcquire
    <3>1. PICK i \in todo : Acquire(i)
      BY <2>2 DEF DiffAcquire
    <3> QED
      BY <1>1, <1>3, <1>4, <3>1 DEF ComparedInv, Acquire
  <2>3. CASE CompareSource \/ CompareSourceFails
    <3>1. PICK n \in busy, r \in Verdicts :
            Finish(n, r) /\ (r = "error" \/ \E h \in BOOLEAN : r = Compare(n, h))
      <4>1. CASE CompareSource
        <5>1. PICK n \in busy, h \in BOOLEAN : Finish(n, Compare(n, h))
          BY <4>1 DEF CompareSource
        <5>2. Compare(n, h) \in Verdicts
          <6>1. n \in Sources /\ listed = Published /\ mode = "manifest"
            BY <1>1 DEF ComparedInv, SidesInv
          <6> QED
            BY <6>1, CompareSays DEF DiffTypes, Verdicts
        <5> QED
          BY <5>1, <5>2
      <4>2. CASE CompareSourceFails
        BY <4>2 DEF CompareSourceFails, Verdicts
      <4> QED
        BY <2>3, <4>1, <4>2
    <3>2. r # Hole
      BY DiffAssumption
    <3> QED
      BY <1>1, <1>3, <1>4, <3>1, <3>2 DEF ComparedInv, Finish
  <2> QED
    BY <2>1, <2>2, <2>3
<1> QED
  BY <1>1, <1>2, <1>3, <1>5 DEF DiffInv, DiffVerdictHolds, DiffZeroAgrees, DiffFourDiffers

LEMMA DiffStepKeeps ==
  ASSUME DiffTypes, SidesInv, ComparedInv, cmd' = cmd, DiffStep
  PROVE  DiffTypes' /\ DiffInv'
<1> USE DEF diff, fanOut
<1>0. exit = "running"
  BY DEF DiffStep
<1>1. CASE DiffGivesUp
  <2>1. exit' = "Error" /\ UNCHANGED <<diff, fanOut>>
    BY <1>1 DEF DiffGivesUp
  <2>2. DiffTypes' /\ SidesInv'
    BY <2>1 DEF DiffTypes, FanOutTypeOK, DiffTypeOK, SidesInv, Published
  <2> QED
    BY <2>1, <2>2 DEF DiffInv, DiffVerdictHolds, DiffZeroAgrees, DiffFourDiffers
<1>2. CASE DiffFetchProvenance
  <2>1. /\ at = "document" /\ doc' \in {"read", "absent"} /\ (doc' = "read" => exists)
        /\ \/ mode = "selfcheck" /\ doc' = "absent" /\ exit' = "Error" /\ at' = at
           \/ ~ (mode = "selfcheck" /\ doc' = "absent") /\ exit' = exit /\ at' = "list"
        /\ UNCHANGED <<mode, deep, exists, sit, listed, verdict, fanOut>>
    BY <1>2 DEF DiffFetchProvenance
  <2>2. DiffTypes'
    BY <2>1 DEF DiffTypes, FanOutTypeOK, DiffTypeOK, Published
  <2>3. SidesInv' /\ at' # "resolve"
    BY <2>1 DEF SidesInv
  <2> QED
    BY <1>0, <2>1, <2>2, <2>3
       DEF DiffInv, ComparedInv, DiffVerdictHolds, DiffZeroAgrees, DiffFourDiffers
<1>3. CASE DiffListAssets
  <2>1. /\ at = "list" /\ listed' = Published
        /\ UNCHANGED <<mode, deep, exists, sit, doc, verdict, exit>>
        /\ \/ mode = "manifest" /\ at' = "resolve" /\ Begin(Sources)
           \/ mode # "manifest" /\ at' = "report" /\ UNCHANGED fanOut
    BY <1>3 DEF DiffListAssets
  <2>2. Published' = Published /\ Sources' = Sources
    BY <2>1 DEF Published, Sources
  <2>3. FanOutTypeOK'
    BY <2>1, FanOutKept DEF DiffTypes
  <2>4. DiffTypeOK'
    BY <2>1, <2>2 DEF DiffTypes, DiffTypeOK
  <2>5. SidesInv'
    BY <2>1, <2>2 DEF SidesInv
  <2>6. ComparedInv'
    BY <2>1, <2>2 DEF ComparedInv, Begin
  <2> QED
    BY <1>0, <2>1, <2>3, <2>4, <2>5, <2>6
       DEF DiffTypes, DiffInv, DiffVerdictHolds, DiffZeroAgrees, DiffFourDiffers
<1>4. CASE DiffCheck \/ DiffAcquire \/ CompareSource \/ CompareSourceFails
  BY <1>0, <1>4, CompareKeeps
<1>5. CASE Report
  BY <1>5, ReportKeeps
<1> QED
  BY <1>1, <1>2, <1>3, <1>4, <1>5 DEF DiffStep

-----------------------------------------------------------------------------
(* Types                                                                   *)

\* Nothing is known of the references before the document is read.
NothingYet == stage = "start" => got = {}

\* A step of a listing: what it may change, and the types of that.
LEMMA ListStepKeepsTypes ==
  ASSUME ListInv, ListingTypeOK, NothingYet, FanOutTypeOK, exit \in Exits, ListStep
  PROVE  /\ ListingTypeOK' /\ NothingYet' /\ FanOutTypeOK' /\ exit' \in Exits
         /\ UNCHANGED <<cmd, cancelled, world>>
<1> USE ListingAssumption DEF ListingTypeOK, NothingYet, world, fanOut
<1>1. cmd = "list" /\ exit = "running" /\ LookupInv /\ PagesInv
  BY DEF ListStep, ListInv
<1>2. Item' = Item /\ Pageable \subseteq Item
  BY DEF Pageable, Item
<1>3. ASSUME NEW r, NEW code \in Exits, EndWith(r, code), DOMAIN r \subseteq got
      PROVE  ListingTypeOK' /\ NothingYet' /\ exit' \in Exits /\ UNCHANGED <<cmd, cancelled, world>>
  BY <1>2, <1>3 DEF EndWith
<1>4. DOMAIN NoRows = {} /\ {"Error", "NotFound", "OK"} \subseteq Exits
  BY DEF NoRows, Exits
<1>5. CASE PageFails \/ PageNotFound \/ NoProbe
  <2>1. UNCHANGED fanOut /\ \E code \in Exits : EndWith(NoRows, code)
    BY <1>4, <1>5 DEF PageFails, PageNotFound, NoProbe
  <2> QED
    BY <1>3, <1>4, <2>1, FanOutKept
<1>6. CASE PageWithToken
  <2>1. UNCHANGED fanOut
    BY <1>6 DEF PageWithToken
  <2>2. CASE pages + 1 >= MaxPages
    BY <1>3, <1>4, <1>6, <2>1, <2>2, FanOutKept DEF PageWithToken
  <2>3. CASE ~ (pages + 1 >= MaxPages)
    <3>1. /\ got \subseteq got' /\ got' \subseteq Item /\ pages' = pages + 1
          /\ UNCHANGED <<kind, stage, rows, cmd, cancelled, exit, world>>
      BY <1>2, <1>6, <2>3 DEF PageWithToken
    <3>2. pages' \in 0 .. MaxPages
      BY <2>3, <3>1
    <3>3. DOMAIN rows' \subseteq got' /\ FanOutTypeOK'
      BY <2>1, <3>1, FanOutKept
    <3> QED
      BY <1>2, <1>6, <3>1, <3>2, <3>3 DEF PageWithToken
  <2> QED
    BY <2>2, <2>3
<1>7. CASE LastPage
  <2>1. /\ got \subseteq got' /\ got' \subseteq Item
        /\ UNCHANGED <<kind, pages, cmd, cancelled, world>>
        /\ \/ /\ stage' = "done" /\ exit' = IF got' = {} THEN "NotFound" ELSE "OK"
              /\ rows' = [i \in got' |-> "listed"] /\ UNCHANGED fanOut
           \/ stage' = "lookup" /\ Begin(got') /\ UNCHANGED <<rows, exit>>
    BY <1>2, <1>7 DEF LastPage
  <2>2. FanOutTypeOK'
    BY <2>1, FanOutKept
  <2> QED
    BY <1>2, <1>4, <2>1, <2>2
<1>8. CASE ProbeChainReferences
  <2>1. /\ got' \subseteq Item /\ stage' = "lookup" /\ Begin(got')
        /\ UNCHANGED <<kind, pages, rows, cmd, cancelled, exit, world>>
    BY <1>8 DEF ProbeChainReferences
  <2>2. DOMAIN rows = {}
    BY <1>8 DEF ProbeChainReferences
  <2> QED
    BY <1>2, <2>1, <2>2, FanOutKept
<1>9. CASE LookupCheck \/ LookupAcquire \/ Lookup
  <2>1. UNCHANGED <<listing, cmd, cancelled, exit, world>>
    BY <1>9 DEF LookupCheck, LookupAcquire, Lookup
  <2>2. FanOutTypeOK'
    <3>1. \/ CheckContext(cancelled)
          \/ \E i \in todo : Acquire(i)
          \/ \E i \in busy : \E r : Finish(i, r)
      BY <1>9 DEF LookupCheck, LookupAcquire, Lookup
    <3> QED
      BY <3>1, FanOutKept
  <2> QED
    BY <1>2, <2>1, <2>2 DEF listing
<1>10. CASE LookupsReturned
  <2>1. /\ EndWith(IF LookupsExit = "OK" THEN slot ELSE NoRows, LookupsExit)
        /\ Done /\ DOMAIN slot = got
    BY <1>1, <1>10 DEF LookupsReturned, LookupInv
  <2>2. LookupsExit \in Exits
    BY <1>4 DEF LookupsExit
  <2> QED
    BY <1>3, <1>4, <2>1, <2>2, FanOutKept
<1> QED
  BY <1>5, <1>6, <1>7, <1>8, <1>9, <1>10 DEF ListStep

\* A step of a session: what it may change, and the types of that.
LEMMA UseStepKeepsTypes ==
  ASSUME UseTypeOK, exit \in Exits, UseStep
  PROVE  UseTypeOK' /\ exit' \in Exits /\ UNCHANGED <<cmd, cancelled, world, fanOut>>
<1> USE UseAssumption DEF UseTypeOK, Elsewhere
<1>1. SessionInv
  BY DEF SessionInv, MaybeCoords
<1>2. /\ NoCoords \in MaybeCoords /\ Coords \subseteq MaybeCoords
      /\ MaybeCoords = Coords \cup {NoCoords}
  BY DEF MaybeCoords
<1>3. Counted => commands' \in 0 .. MaxCommands
  BY DEF Counted
<1>4. {"running", "OK", "Error"} \subseteq Exits
  BY DEF Exits
<1>5. CASE Cd
  BY <1>3, <1>5 DEF Cd
<1>6. CASE SetCurrentPackage
  <2>1. PICK c \in Coords : cobDirs' = cobDirs \cup {cwd} /\ pointer' = [pointer EXCEPT ![cwd] = c]
    BY <1>6 DEF SetCurrentPackage
  <2> QED
    BY <1>2, <1>3, <1>6, <2>1 DEF SetCurrentPackage
<1>7. CASE ClearCurrentPackage
  BY <1>2, <1>3, <1>7 DEF ClearCurrentPackage
<1>8. CASE SetGlobalPackage \/ ClearGlobalPackage
  BY <1>2, <1>3, <1>8 DEF SetGlobalPackage, ClearGlobalPackage
<1>9. ASSUME NEW c \in MaybeCoords, NEW from \in {"argument", CurrentSource}, Resolves(c, from)
      PROVE  UseTypeOK' /\ exit' \in Exits /\ UNCHANGED <<cmd, cancelled, world, fanOut>>
  <2>1. from \in {"none", "argument", "override", "directory", "home"}
    BY DEF CurrentSource
  <2> QED
    BY <1>2, <1>4, <1>9, <2>1 DEF Resolves
<1>10. /\ CurrentPackageIs \in MaybeCoords
       /\ CurrentSource # "none" => CurrentPackageIs \in Coords
  <2>1. CurrentSource # "none" => CurrentPackageIs # NoCoords
    BY DEF CurrentSource, CurrentPackageIs
  <2> QED
    BY <1>1, <1>2, <2>1, CurrentIsNearest
<1>11. CASE ResolveNothing
  BY <1>9, <1>10, <1>11 DEF ResolveNothing
<1>12. CASE ResolveVersion
  <2>1. PICK v \in Version :
          Resolves(IF CurrentSource = "none" THEN NoCoords ELSE [CurrentPackageIs EXCEPT !.ver = v],
                   CurrentSource)
    BY <1>12 DEF ResolveVersion
  <2>2. CASE CurrentSource = "none"
    BY <1>2, <1>9, <2>1, <2>2
  <2>3. CASE CurrentSource # "none"
    <3>1. [CurrentPackageIs EXCEPT !.ver = v] \in MaybeCoords
      BY <1>2, <1>10, <2>3 DEF Coords
    <3> QED
      BY <1>9, <2>1, <2>3, <3>1
  <2> QED
    BY <2>2, <2>3
<1>13. CASE ResolveShorthand
  <2>1. PICK p \in Package, v \in Version \cup {Absent} :
          Resolves(IF CurrentSource = "none" THEN NoCoords
                   ELSE [repo |-> CurrentPackageIs.repo, pkg |-> p, ver |-> v], CurrentSource)
    BY <1>13 DEF ResolveShorthand
  <2>2. CASE CurrentSource = "none"
    BY <1>2, <1>9, <2>1, <2>2
  <2>3. CASE CurrentSource # "none"
    <3>1. [repo |-> CurrentPackageIs.repo, pkg |-> p, ver |-> v] \in MaybeCoords
      BY <1>2, <1>10, <2>3 DEF Coords
    <3> QED
      BY <1>9, <2>1, <2>3, <3>1
  <2> QED
    BY <2>2, <2>3
<1>14. CASE ResolveFull
  BY <1>2, <1>9, <1>14 DEF ResolveFull
<1> QED
  BY <1>5, <1>6, <1>7, <1>8, <1>11, <1>12, <1>13, <1>14 DEF UseStep

-----------------------------------------------------------------------------
(* The theorems                                                            *)

\* The inductive invariant, next to that of the listings.
ReadInv == TypeOK /\ NothingYet /\ WalkInv /\ DiffInv

LEMMA TypesAre ==
  TypeOK <=> /\ cmd \in Commands /\ cancelled \in BOOLEAN /\ exit \in Exits
             /\ FanOutTypeOK /\ WorldTypeOK /\ ListingTypeOK
             /\ WalkTypeOK /\ DiffTypeOK /\ UseTypeOK
BY DEF TypeOK, FanOutTypeOK

LEMMA InitRead == Init => ReadInv
<1> SUFFICES ASSUME Init PROVE ReadInv
  OBVIOUS
<1>1. /\ Idle /\ cancelled = FALSE /\ exit = "running" /\ cmd \in Commands
      /\ WorldInit \/ WorldOff
      /\ ListInit \/ ListOff
      /\ (cmd = "walk" /\ WalkInit /\ WorldInit) \/ (cmd # "walk" /\ WalkOff)
      /\ (cmd = "diff" /\ DiffInit) \/ (cmd # "diff" /\ DiffOff)
      /\ UseInit \/ UseOff
  BY DEF Init, Commands
<1>2. FanOutTypeOK /\ exit \in Exits
  BY <1>1 DEF Idle, FanOutTypeOK, Loops, Exits
<1>3. WorldTypeOK /\ (WorldInit => Closed(stable))
  BY <1>1, EntryAssumption DEF WorldInit, WorldOff, WorldTypeOK, Closed
<1>4. ListingTypeOK /\ NothingYet
  BY <1>1, ListingAssumption DEF ListInit, ListOff, ListingTypeOK, NothingYet, Kinds
<1>5. WalkTypeOK /\ WalkInv
  <2>1. CASE cmd = "walk" /\ WalkInit /\ WorldInit
    BY <1>1, <1>3, <2>1 DEF WalkInit, WalkTypeOK, WalkInv, LevelsInv, NoneForgotten, Idle,
       WalkAccountsForEverything
  <2>2. CASE cmd # "walk" /\ WalkOff
    <3>1. flat \in BOOLEAN
      BY <2>2 DEF WalkOff
    <3>2. depth \in 0 .. 5
      BY <2>2 DEF WalkOff
    <3> QED
      BY <2>2, <3>1, <3>2 DEF WalkOff, WalkTypeOK, WalkInv
  <2> QED
    BY <1>1, <2>1, <2>2
<1>6. DiffTypeOK /\ DiffInv
  <2>1. CASE cmd = "diff" /\ DiffInit
    BY <1>1, <2>1 DEF DiffInit, DiffTypeOK, DiffInv, SidesInv, ComparedInv, DiffVerdictHolds,
       DiffZeroAgrees, DiffFourDiffers
  <2>2. CASE cmd # "diff" /\ DiffOff
    <3>1. deep \in BOOLEAN /\ exists \in BOOLEAN
      BY <2>2 DEF DiffOff
    <3>2. sit \in [Name -> Situations]
      BY <2>2, DiffAssumption DEF DiffOff
    <3>3. DOMAIN verdict = {}
      BY <2>2 DEF DiffOff
    <3> QED
      BY <2>2, <3>1, <3>2, <3>3 DEF DiffOff, DiffTypeOK, DiffInv, Modes
  <2> QED
    BY <1>1, <2>1, <2>2
<1>7. UseTypeOK
  BY <1>1, UseAssumption DEF UseInit, UseOff, UseTypeOK, Dirs
<1> QED
  BY <1>1, <1>2, <1>3, <1>4, <1>5, <1>6, <1>7, TypesAre DEF ReadInv

LEMMA NextRead == ReadInv /\ ListInv /\ [Next]_vars => ReadInv'
<1> SUFFICES ASSUME ReadInv, ListInv, [Next]_vars PROVE ReadInv'
  OBVIOUS
<1>0. TypeOK /\ NothingYet /\ WalkInv /\ DiffInv /\ cmd' = cmd
  BY CmdStays DEF ReadInv
<1>t. TypeOK' <=> (/\ cmd \in Commands /\ cancelled \in BOOLEAN /\ exit \in Exits
                   /\ FanOutTypeOK /\ WorldTypeOK /\ ListingTypeOK /\ WalkTypeOK /\ DiffTypeOK
                   /\ UseTypeOK)'
  BY DEF TypeOK, FanOutTypeOK
<1> USE <1>0, <1>t, TypesAre DEF ReadInv
<1>1. UNCHANGED world => (WorldTypeOK' /\ Closed(stable') <=> WorldTypeOK /\ Closed(stable))
  BY DEF world, WorldTypeOK
<1>2. UNCHANGED listing => ListingTypeOK' /\ NothingYet'
  BY DEF listing, ListingTypeOK, Item, NothingYet
<1>3. UNCHANGED walk => WalkTypeOK'
  BY DEF walk, WalkTypeOK
<1>4. UNCHANGED diff => DiffTypeOK'
  BY DEF diff, DiffTypeOK, Published
<1>5. UNCHANGED use => UseTypeOK'
  BY DEF use, UseTypeOK
<1>6. UNCHANGED fanOut => FanOutTypeOK'
  BY DEF fanOut, FanOutTypeOK
<1>7. UNCHANGED world => WorldTypeOK'
  BY DEF world, WorldTypeOK
<1>8. CASE ListStep /\ UNCHANGED <<walk, diff, use>>
  <2>1. cmd = "list"
    BY <1>8 DEF ListStep
  <2>2. /\ ListingTypeOK' /\ NothingYet' /\ FanOutTypeOK' /\ exit' \in Exits
        /\ UNCHANGED <<cmd, cancelled, world>>
    BY <1>8, ListStepKeepsTypes
  <2>3. WalkInv' /\ DiffInv'
    BY <2>1 DEF WalkInv, DiffInv
  <2> QED
    BY <1>3, <1>4, <1>5, <1>7, <1>8, <2>2, <2>3
<1>9. CASE WalkStep /\ UNCHANGED <<listing, diff, use>>
  <2>1. cmd = "walk" /\ exit = "running"
    BY <1>9 DEF WalkStep
  <2>2. exit' \in Exits /\ UNCHANGED cancelled
    BY <1>9, <2>1 DEF WalkStep, TooShallow, NoClient, WalkBegins, LevelBegins, LevelCheck,
       LevelAcquire, ExpandNode, ExpandNodeFails, LevelReturned, Render, Exits
  <2>3. WalkTypes' /\ WalkInv'
    BY <1>9, <2>1, WalkStepKeeps DEF WalkInv, WalkTypes
  <2>4. DiffInv'
    BY <2>1 DEF DiffInv
  <2> QED
    BY <1>2, <1>4, <1>5, <1>9, <2>2, <2>3, <2>4 DEF WalkTypes
<1>10. CASE DiffStep /\ UNCHANGED <<listing, walk, use>>
  <2>1. cmd = "diff" /\ exit = "running"
    BY <1>10 DEF DiffStep
  <2>2. exit' \in Exits /\ UNCHANGED <<cancelled, world>>
    BY <1>10, <2>1 DEF DiffStep, DiffGivesUp, DiffFetchProvenance, DiffListAssets, DiffCheck,
       DiffAcquire, CompareSource, CompareSourceFails, Report, ReportExit, Exits
  <2>3. DiffTypes' /\ DiffInv'
    BY <1>10, <2>1, DiffStepKeeps DEF DiffInv, DiffTypes
  <2>4. WalkInv'
    BY <2>1 DEF WalkInv
  <2> QED
    BY <1>2, <1>3, <1>5, <1>7, <1>10, <2>2, <2>3, <2>4 DEF DiffTypes
<1>11. CASE UseStep /\ UNCHANGED <<listing, walk, diff>>
  <2>1. cmd = "use"
    BY <1>11 DEF UseStep
  <2>2. UseTypeOK' /\ exit' \in Exits /\ UNCHANGED <<cmd, cancelled, world, fanOut>>
    BY <1>11, UseStepKeepsTypes
  <2>3. WalkInv' /\ DiffInv'
    BY <2>1 DEF WalkInv, DiffInv
  <2> QED
    BY <1>2, <1>3, <1>4, <1>6, <1>7, <1>11, <2>2, <2>3
<1>12. CASE Others
  <2>1. /\ cmd # "diff" /\ exit = "running" /\ OthersAct
        /\ UNCHANGED <<shared, listing, walk, diff, use>>
    BY <1>12 DEF Others
  <2>2. UNCHANGED <<loop, todo, busy, slot, cmd, cancelled, exit>>
    BY <2>1 DEF shared
  <2>3. WorldTypeOK' /\ (Closed(stable) => Closed(stable'))
    BY <2>1, OthersKeepClosed
  <2>4. WalkInv'
    <3> SUFFICES ASSUME cmd = "walk" PROVE WalkInv'
      BY DEF WalkInv
    <3>1. stable' \subseteq stable /\ ever \subseteq ever'
      BY <2>1 DEF OthersAct, Appear, Vanish
    <3>2. LevelsInv'
      BY <2>1, <2>2, <2>3, <3>1 DEF WalkInv, LevelsInv, Expandable, walk
    <3>3. \A n : (Pending(n) => Pending(n)') /\ (Accounted(n) => Accounted(n)')
      BY <2>1, <2>2, <3>1 DEF Pending, Accounted, Expandable, walk
    <3>4. NoneForgotten'
      BY <2>1, <2>2, <3>3 DEF WalkInv, NoneForgotten, walk
    <3> QED
      BY <2>1, <2>2, <3>2, <3>4 DEF WalkInv, WalkAccountsForEverything
  <2>5. DiffInv'
    BY <2>1 DEF DiffInv
  <2> QED
    BY <1>2, <1>3, <1>4, <1>5, <1>6, <2>1, <2>2, <2>3, <2>4, <2>5 DEF fanOut
<1>13. CASE Signal
  <2>1. /\ exit = "running" /\ exit' = exit /\ cancelled' = TRUE
        /\ UNCHANGED <<fanOut, world, listing, walk, diff, use>>
    BY <1>13 DEF Signal, Cancel
  <2>2. WalkInv'
    <3>1. LevelsInv => LevelsInv'
      BY <2>1 DEF LevelsInv, Expandable, walk, world, fanOut
    <3>2. NoneForgotten => NoneForgotten'
      BY <2>1 DEF NoneForgotten, walk, fanOut
    <3> QED
      BY <2>1, <3>1, <3>2 DEF WalkInv, WalkAccountsForEverything
  <2>3. DiffInv'
    <3>1. Published' = Published /\ Sources' = Sources /\ \A n, h : Compare(n, h)' = Compare(n, h)
      BY <2>1 DEF Published, Sources, Compare, Against, PubSHA, ProvSHA, ProvOrigin, diff
    <3>2. SidesInv => SidesInv'
      BY <2>1, <3>1 DEF SidesInv, diff
    <3>3. ComparedInv => ComparedInv'
      BY <2>1, <3>1 DEF ComparedInv, diff, fanOut
    <3> QED
      BY <2>1, <3>2, <3>3 DEF DiffInv, DiffVerdictHolds, DiffZeroAgrees, DiffFourDiffers
  <2> QED
    BY <1>2, <1>3, <1>4, <1>5, <1>6, <1>7, <2>1, <2>2, <2>3
<1>14. CASE UNCHANGED vars
  <2>1. UNCHANGED <<shared, world, listing, walk, diff, use>>
    BY <1>14 DEF vars
  <2>2. UNCHANGED <<loop, todo, busy, slot, cmd, cancelled, exit>>
    BY <2>1 DEF shared
  <2>3. WalkInv'
    BY <2>1, <2>2 DEF WalkInv, LevelsInv, NoneForgotten, Pending, Accounted, Expandable,
       WalkAccountsForEverything, walk, world
  <2>4. DiffInv'
    BY <2>1, <2>2 DEF DiffInv, SidesInv, ComparedInv, Compare, Against, PubSHA, ProvSHA,
       ProvOrigin, DiffVerdictHolds, DiffZeroAgrees, DiffFourDiffers, SameAt, Unverified, NoHash,
       HashMissing, Misrecorded, Published, Sources, Recorded, diff
  <2> QED
    BY <1>2, <1>3, <1>4, <1>5, <1>6, <1>7, <2>1, <2>2, <2>3, <2>4 DEF fanOut
<1> QED
  BY <1>8, <1>9, <1>10, <1>11, <1>12, <1>13, <1>14 DEF Next, Command

\* ReadInv: what the reading commands know of the registry and of their own
\* fan-out, at every step.
THEOREM ReadInvariantHolds == Spec => []ReadInv
<1> QED
  BY InitRead, NextRead, InvariantHolds, PTL DEF Spec

\* TypeOK of the commands that read.
THEOREM TypeCorrect == Spec => []TypeOK
<1>1. ReadInv => TypeOK
  BY DEF ReadInv
<1> QED
  BY <1>1, ReadInvariantHolds, PTL

\* WalkAccountsForEverything: tree and ls -R that were not cancelled show
\* everything that was there throughout, or the node above it that failed.
THEOREM WalkedIsWhole == Spec => []WalkAccountsForEverything
<1>1. ReadInv => WalkAccountsForEverything
  BY DEF ReadInv, WalkInv, WalkAccountsForEverything
<1> QED
  BY <1>1, ReadInvariantHolds, PTL

\* DiffVerdictHolds, whatever hashes and origins the sides, the listings and the
\* document know: diff exits 0 only where the sides agree, the report says that
\* it did not look, or no hash is known; 4 only where they differ or one side
\* cannot be told.
THEOREM VerdictIsRight == Spec => []DiffVerdictHolds
<1>1. ReadInv => DiffVerdictHolds
  BY DEF ReadInv, DiffInv, DiffVerdictHolds, DiffZeroAgrees, DiffFourDiffers
<1> QED
  BY <1>1, ReadInvariantHolds, PTL
=============================================================================
