------------------------------ MODULE MCNvram ------------------------------
(***************************************************************************)
(* Instances of Nvram for TLC: two pages, one or two datasets, two time    *)
(* labels (interchangeable), records of two lengths.                       *)
(***************************************************************************)
EXTENDS Nvram, TLC

CONSTANTS g1, g2

MCGens == {g1, g2}
Relocating == {{"copy"}}
Gap == {{"gap"}}
Unruly == {{"interleave"},
           {"copy", "blind", "midway"},
           {"copy", "flashfail", "gap", "move", "deinit"}}
Symmetric == Permutations(MCGens)
=============================================================================
