-------------------------------- MODULE MCDns --------------------------------
(***************************************************************************)
(* An instance of Dns for TLC: a mode with two interfaces that both have   *)
(* servers, one with a single interface, and one whose second interface    *)
(* has no Logical. interface.                                              *)
(***************************************************************************)
EXTENDS Dns

CONSTANTS twoIntf, oneIntf, pathless, s1, s2, s3, s4

MCModes == {twoIntf, oneIntf, pathless}
MCServers == {s1, s2, s3, s4}
MCDNSServers ==
    [m \in MCModes |->
        CASE m = twoIntf -> << <<s1, s2>>, <<s3>> >>
          [] m = oneIntf -> << <<s4, s1>> >>
          [] m = pathless -> << <<s3>>, <<s2>> >>]
MCPathless == {<<pathless, 2>>}
MCDNSMode ==
    [m \in MCModes |->
        CASE m = twoIntf -> "Static" [] m = oneIntf -> "Dynamic" [] m = pathless -> None]
=============================================================================
