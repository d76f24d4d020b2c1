----------------------------- MODULE MCMailbox -----------------------------
(***************************************************************************)
(* TLC instance of Mailbox: two agents, one of them the worker of a        *)
(* dispatch of Run 1.                                                      *)
(***************************************************************************)
EXTENDS Mailbox

MCWorkerOf == [d \in Dispatches |-> "w"]
MCRunOf == [d \in Dispatches |-> 1]
Letter(from, box, kind) == [from |-> from, box |-> box, kind |-> kind]

MCLetters ==
    {Letter("w", <<"run", 1>>, "status"), Letter("w", <<"term", "c">>, "question"),
     Letter("c", Group, "status"), Letter("c", <<"dispatch", "d">>, "status")}

Plain(p) == [pane |-> p, of |-> <<"term", p>>, mode |-> "next", types |-> Kinds]
OfRun(p, r) == [Plain(p) EXCEPT !.of = <<"run", r>>]
OfTypes(p, types) == [Plain(p) EXCEPT !.types = types]

MCChecks == {Plain("c"), Plain("w"), OfRun("w", 1), OfTypes("c", {"question"})}
=============================================================================
