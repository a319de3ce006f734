----------------------------- MODULE MCSimpleGw -----------------------------
(***************************************************************************)
(* Instances of SimpleGw for TLC: two slots; bulbs that have an On/Off     *)
(* server, sensors that have an IAS Zone server, and plain devices with    *)
(* neither.                                                                *)
(***************************************************************************)
EXTENDS SimpleGw

CONSTANTS zc, b1, b2, s1, p1
=============================================================================
