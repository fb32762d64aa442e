----------------------------- MODULE MCChallenge -----------------------------
(***************************************************************************)
(* Challenge for TLC: one kind of corruption, so that one place of three   *)
(* is drawn.                                                               *)
(***************************************************************************)
EXTENDS Challenge

States == <<"valid", "inputs">>
=============================================================================
