----------------------------- MODULE MCPointing -----------------------------
(***************************************************************************)
(* TLC instance of Pointing: a coordinator that reads and joins Runs, and  *)
(* an agent that writes to it and to its Run.                              *)
(***************************************************************************)
EXTENDS Pointing

MCWorkerOf == [d \in Dispatches |-> "c"]
MCRunOf == [d \in Dispatches |-> 1]
Letter(from, box, kind) == [from |-> from, box |-> box, kind |-> kind]

MCLetters ==
    {Letter("w", <<"run", 1>>, "status"), Letter("w", <<"term", "c">>, "question")}

MCChecks == {[pane |-> "c", of |-> <<"term", "c">>, mode |-> "next", types |-> Kinds]}
=============================================================================
