--------------------------- MODULE MCTerminalLink ---------------------------
(***************************************************************************)
(* TLC instance of TerminalLink: one pane, which starts a second terminal  *)
(* when its first is gone, and three windows one after the other.  Some    *)
(* output of either terminal repeats, and some is a line break.            *)
(***************************************************************************)
EXTENDS TerminalLink

MCText == [x \in Terms \X Chunks |->
              <<<<"a", "a", "b">>, <<"line break", "line break", "a">>>>[x[1]][x[2]]]
=============================================================================
