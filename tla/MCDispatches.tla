---------------------------- MODULE MCDispatches ----------------------------
(***************************************************************************)
(* TLC instances of Dispatches.  Each set below is the commands one run's  *)
(* agents use; what the window, the user and the exit threads do, and how  *)
(* the process ends, is never restricted but by the bounds.                *)
(***************************************************************************)
EXTENDS Dispatches

\* A coordinator that hands ready tasks to agents already open, with failing
\* workers, the breaker and a gate.
HandingCommands ==
    {"create", "dispatch", "send", "update", "abandon", "breaker", "gate"}

\* Worker starts, their failures, retries and late sessions, among resets and
\* handed workers.
StartingCommands ==
    {"create", "start", "retry", "stop", "dispatch", "abandon", "reset"}

\* Everything that closes terminals, with both kinds of worker about.
ClosingCommands ==
    {"create", "start", "dispatch", "stop", "release", "retain"}

\* Workers that die, report and are stopped meanwhile.
ExitCommands == {"create", "dispatch", "start", "send", "stop", "show"}

\* Gates and dependencies without the commands that overrule them.
GateCommands == {"create", "dispatch", "send", "abandon", "gate"}
=============================================================================
