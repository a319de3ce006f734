---------------------------- MODULE MCIzsNotify ----------------------------
(***************************************************************************)
(* Instances of IzsNotify for TLC: a queue of two events, two retry        *)
(* counts, one reset.                                                      *)
(***************************************************************************)
EXTENDS IzsNotify
=============================================================================
