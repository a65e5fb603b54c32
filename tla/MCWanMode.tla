------------------------------ MODULE MCWanMode ------------------------------
(***************************************************************************)
(* Instances of WanMode for TLC: modes that share the Ethernet port, one   *)
(* on GPON, and one whose reference tells no physical type.                *)
(***************************************************************************)
EXTENDS WanMode

CONSTANTS
    gpon, wifi, eth, xpon,
    MaxNames   \* bound on the length of WANMode

MCPhysTypes == {eth, xpon}
MCphysical == [m \in Modes |-> CASE m = gpon -> xpon
                                 [] m = wifi -> NoType
                                 [] OTHER -> eth]

\* The unknown name comes last, alone or after other modes.
MCValues ==
    {list \in UNION {[1 .. n -> Names] : n \in 0 .. MaxNames} :
       \A i \in DOMAIN list : list[i] = Unknown => i = Len(list)}
=============================================================================
