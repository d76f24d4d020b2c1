----------------------------- MODULE MCRequests -----------------------------
(***************************************************************************)
(* TLC instance of Requests: a send, a task-create, and three starts with  *)
(* the same flags, one of them without a retry id.                         *)
(***************************************************************************)
EXTENDS Requests

Sent(key, command, flags) == [key |-> key, command |-> command, flags |-> flags]

MCRequests ==
    {Sent("m", "send", "-"), Sent("t", "task-create", "-"),
     Sent("s", "worker-start", "f"), Sent("r", "worker-start", "f"),
     Sent("none", "worker-start", "f")}
=============================================================================
