---------------------------- MODULE ReadContext -----------------------------
(***************************************************************************)
(* One invocation of a command that only reads: the context a signal       *)
(* cancels, the exit code, and the ForEach it fans out with.  Which command *)
(* it is is chosen before it starts; the modules that extend this one are  *)
(* the commands, each with variables of its own that the others leave be.  *)
(***************************************************************************)
EXTENDS Registry, ForEach

VARIABLES
  cmd,        \* the command that runs
  cancelled,  \* ctx.Err() != nil
  exit        \* "running", or the exit code by its name in types.go

shared == <<loop, todo, busy, slot, cmd, cancelled, exit>>

-----------------------------------------------------------------------------
Commands == {"list", "walk", "diff", "use"}

Exits == {"running", "OK", "Error", "NotFound", "Mismatch"}

\* ForEach is between calls.
fanOut == <<loop, todo, busy, slot>>

\* A signal, or the deadline of --timeout.
Cancel ==
  /\ exit = "running"
  /\ ~ cancelled
  /\ cancelled' = TRUE
  /\ UNCHANGED <<cmd, exit>>
=============================================================================
