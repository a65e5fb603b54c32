------------------------------- MODULE MCIpMode -------------------------------
(***************************************************************************)
(* An instance of IpMode for TLC: five interfaces, after the default       *)
(* configurations in odl/defaults.d and that of the tests.                 *)
(***************************************************************************)
EXTENDS IpMode

Plain ==
    [Type |-> "untagged", BridgeReference |-> None, IPv6AddressDelegate |-> None,
     IPv4Reference |-> "IP.2", IPv6Reference |-> "IP.2",
     DHCPv4Reference |-> None, DHCPv6Reference |-> None,
     PPPv4Reference |-> None, PPPv6Reference |-> None,
     NeighborDiscoveryReference |-> None, DSLiteReference |-> None,
     PCPReference |-> None, DefaultRouteReference |-> "Route.1",
     Name |-> "wan", DefaultRouter |-> None, UserName |-> None, Password |-> None]

\* One IP interface, one DHCPv6 client and one PPP interface for all modes.
Shared == [Plain EXCEPT !.Type = "vlan", !.DHCPv4Reference = "DHCPv4.1",
                        !.DHCPv6Reference = "DHCPv6.1"]

\* An IP interface for each version, unnumbered.
Separate == [Shared EXCEPT !.Type = "untagged", !.IPv6Reference = "IP.6",
                           !.IPv6AddressDelegate = "IP.3", !.UserName = "user"]

\* Static addresses of both versions, with routers.
Static == [Plain EXCEPT !.DefaultRouter = "router", !.DHCPv6Reference = "DHCPv6.1"]

Bridge == [Plain EXCEPT !.BridgeReference = "Bridge.1", !.DefaultRouteReference = None,
                        !.DHCPv4Reference = "DHCPv4.1"]

With(par, v4, v6) ==
    {par @@ [IPv4Mode |-> m4, IPv6Mode |-> m6] : m4 \in v4, m6 \in v6}

MCInterfaces ==
    With(Shared, {"dhcp4", "ppp4", "dslite"}, {"none", "dhcp6", "ppp6"})
    \cup With(Separate, {"static", "ppp4", "link"}, {"none", "ppp6"})
    \cup With(Plain, {"none", "3gpp-nas"}, {"none", "3gpp-nas"})
    \cup With(Static, {"none", "static"}, {"dhcp6", "static"})
    \cup With(Bridge, {"none", "dhcp4"}, {"none"})
=============================================================================
