----------------------------- MODULE MCSendOnce -----------------------------
(***************************************************************************)
(* TLC instance of SendOnce: a prompt, a draft with Ctrl+C before it and a *)
(* bare Enter from the command line, a caller with the opening prompt, and *)
(* the pointer.                                                            *)
(***************************************************************************)
EXTENDS SendOnce
=============================================================================
