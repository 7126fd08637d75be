--------------------------- MODULE CurrentPackage ---------------------------
(***************************************************************************)
(* cob use and what the reading commands make of it: pointer files in      *)
(* .cob directories along the path to the working directory and one at     *)
(* home, looked up from the inside out, and the merging of an argument     *)
(* with what is found.  A session of commands in one shell; directory 0 is *)
(* the root of the file system and each other one lies in the one before.  *)
(* A file that is empty or has several lines counts as none.               *)
(***************************************************************************)
EXTENDS ReadContext

CONSTANTS
  Deepest,     \* the deepest directory
  Repo,        \* values of domain/repo
  Package,     \* values of namespace/package
  Version,     \* versions
  Absent,      \* no coordinates, or no version in them
  MaxCommands  \* bound: commands of a session

ASSUME UseAssumption ==
  /\ Deepest \in Nat
  /\ MaxCommands \in Nat
  /\ Absent \notin Repo \cup Package \cup Version

VARIABLES
  cwd,       \* the working directory
  cobDirs,   \* directories with a .cob directory in them
  pointer,   \* .cob/current of each directory
  home,      \* ~/.config/cob/current
  override,  \* --package, or else COB_PACKAGE_COORDS
  resolved,  \* the target the last command resolved
  source,    \* where its notice says the current package came from
  commands   \* counts against MaxCommands

use == <<cwd, cobDirs, pointer, home, override, resolved, source, commands>>

-----------------------------------------------------------------------------
Dirs == 0 .. Deepest

Coords == [repo : Repo, pkg : Package, ver : Version \cup {Absent}]

NoCoords == [repo |-> Absent, pkg |-> Absent, ver |-> Absent]

UseInit ==
  /\ cwd \in Dirs
  /\ cobDirs = {}
  /\ pointer = [d \in Dirs |-> NoCoords]
  /\ home = NoCoords
  /\ override \in Coords \cup {NoCoords}
  /\ resolved = NoCoords
  /\ source = "none"
  /\ commands = 0

\* Mutant of FindCobDir: the walk begins at the other end.
FindCobDirOutermost ==
  {d \in cobDirs : d =< cwd /\ \A e \in cobDirs : d =< e}

\* findCobDir: the innermost .cob directory, with a current file or without.
FindCobDir ==
  {d \in cobDirs : d =< cwd /\ \A e \in cobDirs : e =< cwd => e =< d}

\* readCwdCurrent looks nowhere else once there is a .cob directory.
CwdCurrent ==
  IF FindCobDir = {} THEN NoCoords ELSE pointer[CHOOSE d \in FindCobDir : TRUE]

\* CurrentPackage and where it came from.
CurrentSource ==
  IF override # NoCoords THEN "override"
  ELSE IF CwdCurrent # NoCoords THEN "directory"
  ELSE IF home # NoCoords THEN "home" ELSE "none"

CurrentPackageIs ==
  CASE CurrentSource = "override"  -> override
    [] CurrentSource = "directory" -> CwdCurrent
    [] CurrentSource = "home"      -> home
    [] CurrentSource = "none"      -> NoCoords

Counted == commands < MaxCommands /\ commands' = commands + 1

Elsewhere == UNCHANGED <<override, resolved, source, cmd, cancelled, world, fanOut>>

Cd ==
  /\ Counted
  /\ cwd' \in Dirs \ {cwd}
  /\ UNCHANGED <<cobDirs, pointer, home, exit>> /\ Elsewhere

\* cob use: nothing is stored unless the coordinates name a package.
SetCurrentPackage ==
  /\ Counted
  /\ \E c \in Coords :
       /\ cobDirs' = cobDirs \cup {cwd}
       /\ pointer' = [pointer EXCEPT ![cwd] = c]
  /\ UNCHANGED <<cwd, home, exit>> /\ Elsewhere

SetGlobalPackage ==
  /\ Counted
  /\ home' \in Coords
  /\ UNCHANGED <<cwd, cobDirs, pointer, exit>> /\ Elsewhere

\* cob use --clear: the file goes, its directory stays.
ClearCurrentPackage ==
  /\ Counted
  /\ pointer' = [pointer EXCEPT ![cwd] = NoCoords]
  /\ UNCHANGED <<cwd, cobDirs, home, exit>> /\ Elsewhere

ClearGlobalPackage ==
  /\ Counted
  /\ home' = NoCoords
  /\ UNCHANGED <<cwd, cobDirs, pointer, exit>> /\ Elsewhere

\* ResolveTarget: what a reading command makes of its argument, which ends
\* the session.  Without a current package "@version" and no argument are
\* errors at once, and "namespace/package" is one when it is parsed.
Resolves(c, from) ==
  /\ resolved' = c
  /\ source' = from
  /\ exit' = IF c = NoCoords THEN "Error" ELSE "OK"
  /\ UNCHANGED <<cwd, cobDirs, pointer, home, override, commands, cmd, cancelled, world, fanOut>>

ResolveNothing == Resolves(CurrentPackageIs, CurrentSource)

ResolveVersion ==
  \E v \in Version :
    Resolves(IF CurrentSource = "none" THEN NoCoords
             ELSE [CurrentPackageIs EXCEPT !.ver = v], CurrentSource)

ResolveShorthand ==
  \E p \in Package, v \in Version \cup {Absent} :
    Resolves(IF CurrentSource = "none" THEN NoCoords
             ELSE [repo |-> CurrentPackageIs.repo, pkg |-> p, ver |-> v], CurrentSource)

ResolveFull == \E c \in Coords : Resolves(c, "argument")

UseStep ==
  /\ cmd = "use"
  /\ exit = "running"
  /\ \/ Cd \/ SetCurrentPackage \/ SetGlobalPackage \/ ClearCurrentPackage \/ ClearGlobalPackage
     \/ ResolveNothing \/ ResolveVersion \/ ResolveShorthand \/ ResolveFull

-----------------------------------------------------------------------------
UseTypeOK ==
  /\ cwd \in Dirs
  /\ cobDirs \subseteq Dirs
  /\ pointer \in [Dirs -> Coords \cup {NoCoords}]
  /\ \A d \in Dirs : pointer[d] # NoCoords => d \in cobDirs
  /\ home \in Coords \cup {NoCoords}
  /\ override \in Coords \cup {NoCoords}
  /\ resolved \in Coords \cup {NoCoords}
  /\ source \in {"none", "argument", "override", "directory", "home"}
  /\ commands \in 0 .. MaxCommands

\* The directories from cwd outwards that have a pointer.
Pointing == {d \in 0 .. cwd : pointer[d] # NoCoords}

\* A command is never sent to a repository by a pointer that a nearer one
\* overrides, whatever was set, cleared and left before: if its notice names
\* a directory the repository is that of the innermost pointer, if it names
\* the home file there is no pointer in the working directory itself, and
\* only a .cob directory left empty by --clear can hide those further out.
NearestPointerWins ==
  (cmd = "use" /\ exit # "running") =>
    /\ source = "directory" =>
         \E d \in Pointing : (\A e \in Pointing : e =< d) /\ resolved.repo = pointer[d].repo
    /\ source \in {"home", "none"} /\ Pointing # {} =>
         \E e \in cobDirs \ Pointing : e =< cwd /\ \A d \in Pointing : d < e
    /\ source = "home" => resolved.repo = home.repo
=============================================================================
