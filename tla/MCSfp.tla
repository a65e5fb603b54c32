-------------------------------- MODULE MCSfp --------------------------------
(***************************************************************************)
(* An instance of Sfp for TLC: two modes support a common type, and a      *)
(* third, on the same interface, another one.                              *)
(***************************************************************************)
EXTENDS Sfp

CONSTANTS dhcp, ppp, ae, gpon, ether, wan

MCModes == {dhcp, ppp, ae}
MCSupported ==
    [m \in MCModes |->
        CASE m = dhcp -> {gpon, ether} [] m = ppp -> {gpon} [] m = ae -> {ether}]
MCIntf == [m \in MCModes |-> {wan}]
=============================================================================
