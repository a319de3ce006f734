----------------------------- MODULE MCSamples -----------------------------
(***************************************************************************)
(* The OTA clients, the light control, the zone sensor, the multi-endpoint *)
(* coordinator and the low-power glue for TLC.  They share nothing: a      *)
(* behaviour is that of one of them.                                       *)
(*                                                                         *)
(* The sensor has a queue of two events, which three events overflow, two  *)
(* retry counts and one reset.  Of the two devices of the coordinator one  *)
(* has two endpoints, of more clusters than the table takes, the other has *)
(* one of two clusters.                                                    *)
(***************************************************************************)
EXTENDS MCOta, MCLight, MCIzsNotify, MultiEp, LowPower

CONSTANTS d1, d2

VARIABLE program

MCEndpoints == [d \in Devices |-> IF d = d1 THEN <<3, 3>> ELSE <<2>>]

vars == <<program, otaVars, lightVars, zoneVars, multiVars, powerVars>>

Init ==
    /\ program \in {"ota", "light", "zone", "multi", "power"}
    /\ OtaInit /\ LightInit /\ ZoneInit /\ MultiInit /\ PowerInit
    /\ program # "ota" => app = "cli"
    /\ program # "light" => world = World({b1}, {"cmdfail", "power"})

Next ==
    /\ UNCHANGED program
    /\ \/ /\ program = "ota" /\ OtaNext
          /\ UNCHANGED <<lightVars, zoneVars, multiVars, powerVars>>
       \/ /\ program = "light" /\ LightNext
          /\ UNCHANGED <<otaVars, zoneVars, multiVars, powerVars>>
       \/ /\ program = "zone" /\ ZoneNext
          /\ UNCHANGED <<otaVars, lightVars, multiVars, powerVars>>
       \/ /\ program = "multi" /\ MultiNext
          /\ UNCHANGED <<otaVars, lightVars, zoneVars, powerVars>>
       \/ /\ program = "power" /\ PowerNext
          /\ UNCHANGED <<otaVars, lightVars, zoneVars, multiVars>>

Spec == Init /\ [][Next]_vars

(* ZoneFairness, of the sensor only.                                       *)
InZone(action) == program = "zone" /\ action

FairSpec ==
    /\ Spec
    /\ WF_zoneVars(InZone(RunCall)) /\ WF_zoneVars(InZone(ResendAlarm)) /\ WF_zoneVars(InZone(Ended))
    /\ SF_zoneVars(InZone(Acknowledged))
=============================================================================
