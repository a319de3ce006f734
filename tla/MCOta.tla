------------------------------- MODULE MCOta -------------------------------
(***************************************************************************)
(* Instances of Ota for TLC.  Of two files one has optional header fields. *)
(* The server chooses blocks that hold the whole header, or split it in    *)
(* the fixed part or in the optional one.                                  *)
(***************************************************************************)
EXTENDS Ota

MCFiles == {[hl |-> 2, body |-> 3], [hl |-> 4, body |-> 2]}
MCBlocks == [a \in Apps |-> {1, 3, 4, 6}]

ASSUME MCOtaAssumption == HeaderSplits /\ CountIsExact
=============================================================================
