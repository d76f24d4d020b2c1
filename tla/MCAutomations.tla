--------------------------- MODULE MCAutomations ---------------------------
(***************************************************************************)
(* TLC instances of Automations.                                           *)
(***************************************************************************)
EXTENDS Automations

\* A timed automation that keeps its session and has a precheck, and one that
\* waits for events.
TimedAndEvent ==
    {[kind |-> "schedule", reuse |-> TRUE, check |-> TRUE],
     [kind |-> "event", reuse |-> TRUE, check |-> FALSE]}

EventOnly == {[kind |-> "event", reuse |-> FALSE, check |-> FALSE]}

\* Any four inputs: up to two automations, due times and Run nows, and one of
\* each other kind.  One run's pane starts, beside one of the user's.
AnyFour ==
    [i \in Inputs |-> CASE i = "all" -> 4
                        [] i \in {"create", "due", "manual"} -> 2
                        [] OTHER -> 1]

\* One Run now, a restart, and a turn of the user's own agent.
OwnTurn ==
    [i \in Inputs |-> CASE i = "all" -> 4
                        [] i \in {"create", "manual", "restart", "open", "pane"} -> 1
                        [] OTHER -> 0]
=============================================================================
