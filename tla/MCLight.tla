------------------------------ MODULE MCLight ------------------------------
(***************************************************************************)
(* Instances of Light for TLC: two bulbs, and the worlds each property     *)
(* speaks of, a quiet one, one in which requests and joining fail, and one *)
(* in which two bulbs answer, late too.                                    *)
(***************************************************************************)
EXTENDS Light

CONSTANTS b1, b2, zero

World(n, h) == [near |-> n, happens |-> h]

MCWorlds == {World({b1}, {"cmdfail", "power"}),
             World({b1}, {"cmdfail", "power", "lost", "joinfail", "leave"}),
             World({b1, b2}, {"cmdfail", "late"})}
LateJoin == {World({b1}, {"joinfail"})}
=============================================================================
