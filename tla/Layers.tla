-------------------------------- MODULE Layers --------------------------------
(***************************************************************************)
(* What enabling or disabling one interface of a WAN mode writes to the    *)
(* other components: the layers of the IP modes (common_layers.c and the   *)
(* controllers), in the order of mode_ctrl.c, with the bridge or the VLAN  *)
(* around them (wan_mode_intf_enable in dm_wan_mode.c).                    *)
(*                                                                         *)
(* An interface is the record of its data model parameters.  A handler is  *)
(* the script of its writes.  It returns at the first write that fails;    *)
(* the loop over the layers goes on with the next handler.                 *)
(*                                                                         *)
(* "off" is FALSE or the empty string, "on" is TRUE or the presence of an  *)
(* object.  A reference is an object or None when it is empty.  Left out:  *)
(* the addresses and lifetimes that accompany AddressingType, Origin or    *)
(* Enable in one call.                                                     *)
(***************************************************************************)
EXTENDS Naturals, SequencesExt

CONSTANT None  \* an empty reference

IPv4Modes == {"none", "dhcp4", "ppp4", "static", "dslite", "3gpp-nas", "link"}
IPv6Modes == {"none", "dhcp6", "ppp6", "static", "3gpp-nas", "link"}

Set(object, name, value) ==
    [object |-> object, name |-> name, value |-> value, checked |-> TRUE]
Enable(object, value) == Set(object, "Enable", value)

\* A write whose result the handler does not look at.
Unchecked(write) == [write EXCEPT !.checked = FALSE]

At(write) == <<write.object, write.name>>

\* A write fails without an object or a value, or when it is refused.
component_set_params(write, refused) ==
    None \notin {write.object, write.value} /\ At(write) # refused

\* The positions of the writes of a script that take effect.
Performed(script, refused) ==
    LET done(i) == component_set_params(script[i], refused)
    IN  {i \in DOMAIN script :
            done(i) /\ \A j \in 1 .. (i - 1) : script[j].checked => done(j)}

Complete(script, refused) == Performed(script, refused) = DOMAIN script

\* An interface and what a turn works out for it.
Also(par, more) ==
    [x \in DOMAIN par \cup DOMAIN more |-> IF x \in DOMAIN more THEN more[x] ELSE par[x]]

\* A handler that checks its paths before its first write.
Given(paths, script) == IF None \in paths THEN << >> ELSE script

(***************************************************************************)
(* The parameters of an interface that the handlers read.                  *)
(***************************************************************************)
Parameters ==
    {"Type", "BridgeReference", "IPv6AddressDelegate", "IPv4Reference", "IPv6Reference",
     "DHCPv4Reference", "DHCPv6Reference", "PPPv4Reference", "PPPv6Reference",
     "NeighborDiscoveryReference", "DSLiteReference", "PCPReference",
     "DefaultRouteReference", "Name", "DefaultRouter", "UserName", "Password",
     "IPv4Mode", "IPv6Mode"}

IsInterface(par) ==
    /\ par = [x \in Parameters |-> par[x]]
    /\ par.IPv4Mode \in IPv4Modes
    /\ par.IPv6Mode \in IPv6Modes

(***************************************************************************)
(* Paths.  Those of PPP, NeighborDiscovery, DSLite and PCP fall back on a  *)
(* fixed object when the reference is empty.                               *)
(***************************************************************************)
get_ip_path(par, v) == IF v = 4 THEN par.IPv4Reference ELSE par.IPv6Reference
get_dhcp_path(par, v) ==
    IF v = 4 THEN par.DHCPv4Reference ELSE par.DHCPv6Reference
Default(reference, object) == IF reference = None THEN object ELSE reference
get_ppp_path(par, v) ==
    Default(IF v = 4 THEN par.PPPv4Reference ELSE par.PPPv6Reference, "PPP.1")
get_nd_path(par) == Default(par.NeighborDiscoveryReference, "ND.1")
get_dslite_path(par) == Default(par.DSLiteReference, "DSLite.1")
get_pcp_path(par) == Default(par.PCPReference, "PCP.1")

(***************************************************************************)
(* The layers.  mode is one IP mode of version v; on says whether it is    *)
(* enabled or disabled.                                                    *)
(***************************************************************************)
Lower(par, v) ==
    LET override == IF v = 4 THEN par.LowerLayersV4Override
                             ELSE par.LowerLayersV6Override
    IN  Default(override, par.LowerLayer)

\* The primary address of an IP interface belongs to the interface here.
ipv4_addr_toggle(ip, mode, on) ==
    IF on THEN << Set(ip, "AddressingType", mode), Set(ip, "AddressEnable", "on") >>
          ELSE << Set(ip, "AddressEnable", "off"), Set(ip, "AddressingType", mode) >>

ipv4_layer(mode, par, on) ==
    LET ip == get_ip_path(par, 4)
    IN  IF on
        THEN << Set(ip, "LowerLayers", Lower(par, 4)) >>
             \o ipv4_addr_toggle(ip, mode, TRUE)
             \o << Set(ip, "IPv4Enable", "on") >>
        ELSE << Set(ip, "IPv4Enable", "off") >>
             \o ipv4_addr_toggle(ip, mode, FALSE)
             \o << Set(ip, "LowerLayers", "off") >>

\* The static prefix, address and LAN prefix.  The calls that write a prefix or
\* an address switch it off first.
ipv6_prefix_toggle(ip, on) ==
    << Set(ip, "StaticPrefix", "off") >>
    \o (IF on THEN << Set(ip, "StaticPrefix", "on") >> ELSE << >>)

\* The address learned from router advertisements gives way to the static one.
ipv6_addr_toggle(ip, on) ==
    << Set(ip, "StaticAddress", "off") >>
    \o (IF on THEN << Set(ip, "StaticAddress", "on"), Set(ip, "NoGUA_RA", "on") >>
              ELSE << Set(ip, "NoGUA_RA", "off") >>)

ipv6_prefix_lan_toggle(on) ==
    << Set("LAN", "StaticPrefix", IF on THEN "on" ELSE "off") >>

ipv6_set_config(mode, par) ==
    LET ip == get_ip_path(par, 6)
        delegate == par.IPv6AddressDelegate
        address == IF delegate # None
                   THEN << Set(ip, "IPv6AddressDelegate", delegate) >>
                   ELSE IF mode = "ppp6"
                        THEN << Set(get_nd_path(par), "AutoConfEnable", "on") >>
                        ELSE << >>
        static == IF mode = "static"
                  THEN ipv6_prefix_toggle(ip, TRUE) \o ipv6_addr_toggle(ip, TRUE)
                       \o ipv6_prefix_lan_toggle(TRUE)
                  ELSE << >>
    IN  Given({ip},
            << Set(ip, "LowerLayers", Lower(par, 6)) >> \o address \o static
            \o << Set(ip, "IPv6Enable", "on") >>)

\* Faulty variant: IPv6AddressDelegate is not cleared.
ipv6_clear_config_keeps_delegate(mode, par) ==
    LET ip == get_ip_path(par, 6)
    IN  << Enable(ip, "off"),
           Set(ip, "IPv6Enable", "off"),
           Set(get_nd_path(par), "AutoConfEnable", "off"),
           Set(ip, "LowerLayers", "off") >>

ipv6_clear_config(mode, par) ==
    LET ip == get_ip_path(par, 6)
        static == IF mode = "static"
                  THEN ipv6_addr_toggle(ip, FALSE) \o ipv6_prefix_toggle(ip, FALSE)
                       \o ipv6_prefix_lan_toggle(FALSE)
                  ELSE << >>
    IN  << Enable(ip, "off") >> \o static
        \o << Set(ip, "IPv6Enable", "off"),
              Set(ip, "IPv6AddressDelegate", "off"),
              Set(get_nd_path(par), "AutoConfEnable", "off"),
              Set(ip, "LowerLayers", "off") >>

ipv6_layer(mode, par, on) ==
    IF on THEN ipv6_set_config(mode, par) ELSE ipv6_clear_config(mode, par)

ip_layer(mode, v, par, on) ==
    IF v = 4 THEN ipv4_layer(mode, par, on) ELSE ipv6_layer(mode, par, on)

ip_enable(v, par, value) == << Enable(get_ip_path(par, v), value) >>

\* link has no origin, so routing_default_route_set_origin fails.
get_routing_v4_origin(mode) ==
    CASE mode = "link" -> None [] mode = "dslite" -> "static" [] OTHER -> mode

routing_default_route_set_origin(route, ip, mode) ==
    << Set(route, "Origin", IF ip = None THEN None ELSE get_routing_v4_origin(mode)) >>

\* The entry of an IP interface in LowerLayers of the Logical interface.
Listed(ip, value) ==
    Given({ip}, << Set("Logical", ip, value) >>)

logical_layer(mode, v, par, on) ==
    LET ip == get_ip_path(par, v)
        route == par.DefaultRouteReference
        default == IF v = 6 \/ route = None THEN << >>
                   ELSE IF on THEN routing_default_route_set_origin(route, ip, mode)
                                   \o << Enable(route, "on") >>
                              ELSE << Enable(route, "off") >>
    IN  default \o Listed(ip, IF on THEN "on" ELSE "off")

(***************************************************************************)
(* The controllers.                                                        *)
(***************************************************************************)
PPP(mode) == mode \in {"ppp4", "ppp6"}

\* The credentials of the interface, those it has.
Credentials(ppp, par) ==
    Given({par.UserName}, << Set(ppp, "Username", par.UserName) >>)
    \o Given({par.Password}, << Set(ppp, "Password", par.Password) >>)

ppp_lower_layer(v, par, on) ==
    LET ppp == get_ppp_path(par, v)
        cp == IF v = 4 THEN "IPCPEnable" ELSE "IPv6CPEnable"
    IN  Given({get_ip_path(par, v)},
            IF on
            THEN << Set(ppp, "LowerLayers", par.LowerLayer) >>
                 \o Credentials(ppp, par)
                 \o << Set(ppp, cp, "on"), Enable(ppp, "on") >>
            ELSE << Enable(ppp, "off"),
                    Set(ppp, cp, "off"),
                    Set(ppp, "LowerLayers", "off") >>)

\* Once it has set the LowerLayers and the credentials of PPP, the lower layer
\* of PPP puts PPP below the IP interface: two writes from its end.
Overridden(par, modes, refused) ==
    LET set(script) ==
          script # << >> /\ 1 .. (Len(script) - 2) \subseteq Performed(script, refused)
        override(mode, v) ==
          IF PPP(mode) /\ set(ppp_lower_layer(v, par, TRUE)) THEN get_ppp_path(par, v)
                                                             ELSE None
    IN  Also(par, [LowerLayersV4Override |-> override(modes.IPv4Mode, 4),
                   LowerLayersV6Override |-> override(modes.IPv6Mode, 6)])

ppp_upper_layer(v, par, on) ==
    LET client == get_dhcp_path(par, 6)
        ip == get_ip_path(par, 6)
        nd == get_nd_path(par)
    IN  IF v = 4 THEN << >>
        ELSE Given({ip},
            IF on
            THEN << Enable(nd, "on"),
                    Set(client, "Interface", ip),
                    Set(client, "RequestPrefixes", "on"),
                    Enable(client, "on") >>
            ELSE << Enable(nd, "off"),
                    Enable(client, "off"),
                    Set(client, "Interface", "off") >>)

dhcp4_layer(par, on) ==
    LET client == get_dhcp_path(par, 4)
        ip == get_ip_path(par, 4)
    IN  Given({client, ip},
            IF on
            THEN << Set(client, "Interface", ip), Enable(client, "on") >>
            ELSE << Enable(client, "off"), Set(client, "Interface", "off") >>)

\* The client comes first when enabling and last when disabling.
dhcp6_layer(par, on) ==
    LET client == get_dhcp_path(par, 6)
        ip == get_ip_path(par, 6)
        nd == get_nd_path(par)
    IN  Given({ip},
            IF on
            THEN Given({client}, << Set(client, "Interface", ip),
                                    Enable(client, "on") >>)
                 \o << Enable(nd, "on") >>
            ELSE << Enable(nd, "off") >>
                 \o Given({client}, << Enable(client, "off"),
                                       Set(client, "Interface", "off") >>))

\* The default IPv6 route of the interface, an object that is added and deleted;
\* which one it is when there are several is module StaticRoutes'.
Route(value) == Set("Routing", "IPv6Forwarding", value)

\* static_enable checks the IPv6 reference, for IPv4 too.
static_enable(v, par) ==
    Given({get_ip_path(par, 6), par.Name},
        (IF v = 6 /\ par.DefaultRouter # None THEN << Route("on") >> ELSE << >>)
        \o (IF par.Name = "wan"
            THEN << Set("WANMode", IF v = 4 THEN "DNSMode" ELSE "IPv6DNSMode", "static") >>
            ELSE << >>))

static_disable(v, par) ==
    IF v = 4 THEN << >> ELSE Given({get_ip_path(par, 6)}, << Route("off") >>)

static_layer(v, par, on) == IF on THEN static_enable(v, par) ELSE static_disable(v, par)

\* Enabled with the IP type of the current modes of the interface.
get_cellular_ip_type(par) ==
    CASE par.IPv4Mode = "3gpp-nas" /\ par.IPv6Mode = "3gpp-nas" -> "ipv4v6"
      [] par.IPv4Mode = "3gpp-nas" -> "ipv4"
      [] par.IPv6Mode = "3gpp-nas" -> "ipv6"
      [] OTHER -> None

cellular_layer(par, on) ==
    IF on THEN << Set("AccessPoint", "IPType", get_cellular_ip_type(par)),
                  Enable("AccessPoint", "on") >>
          ELSE << Enable("AccessPoint", "off") >>

dslite_layer(par, on) ==
    LET client == get_dhcp_path(par, 6)
        dslite == get_dslite_path(par)
        pcp == get_pcp_path(par)
    IN  IF on
        THEN Given({get_ip_path(par, 4), client},
                << Enable("DSLite", "on"),
                   Enable(dslite, "on"),
                   Enable("PCP", "on"),
                   Enable(pcp, "on"),
                   Set(client, "Interface", "WANInterface"),
                   Enable(client, "on") >>)
        ELSE Given({client},
                << Unchecked(Enable(client, "off")),
                   Set(client, "Interface", "off"),
                   Enable(dslite, "off"),
                   Enable(pcp, "off") >>)

client_layer(mode, v, par, on) ==
    CASE mode = "dhcp4"    -> dhcp4_layer(par, on)
      [] mode = "dhcp6"    -> dhcp6_layer(par, on)
      [] PPP(mode)         -> ppp_upper_layer(v, par, on)
      [] mode = "static"   -> static_layer(v, par, on)
      [] mode = "3gpp-nas" -> cellular_layer(par, on)
      [] mode = "dslite"   -> dslite_layer(par, on)
      [] OTHER             -> << >>

\* The five layers of a mode, << >> where the table of mode_ctrl.c has NULL.
controllers(mode, v, par, on) ==
    LET own == mode \notin {"none", "link", "dslite"}
        only(cond, script) == IF cond THEN script ELSE << >>
    IN  << only(PPP(mode), ppp_lower_layer(v, par, on)),
           only(own, ip_layer(mode, v, par, on)),
           only(own, ip_enable(v, par, IF on THEN "on" ELSE "off")),
           client_layer(mode, v, par, on),
           only(mode # "none", logical_layer(mode, v, par, on)) >>

\* Layer by layer, upwards to enable and downwards to disable, IPv4 first.
mode_ctrl_action(modes, par, on) ==
    LET ordered(layers) == FlattenSeq(IF on THEN layers ELSE Reverse(layers))
    IN  ordered(Zip(controllers(modes.IPv4Mode, 4, par, on),
                    controllers(modes.IPv6Mode, 6, par, on)))

bridge_mode_ctrl_action(par, on) ==
    LET ip == get_ip_path(par, 4)
    IN  Given({ip},
            IF on
            THEN << Set(ip, "LowerLayers", par.LowerLayer), Enable(ip, "on") >>
                 \o Listed(ip, "on")
            ELSE Listed(ip, "off")
                 \o << Enable(ip, "off"), Set(ip, "LowerLayers", "off") >>)

(***************************************************************************)
(* An interface.  modes are the IP modes to act on: those of the interface *)
(* or, for one that was changed, the one it had before.                    *)
(***************************************************************************)
Bridged(par) == par.BridgeReference # None

\* manage_bridge and ethernet_vlan_set_enable; the VLAN termination exists.
Plug(par, on) ==
    LET value == IF on THEN "on" ELSE "off"
    IN  IF Bridged(par) THEN << Set(par.BridgeReference, "Port", value) >>
        ELSE IF par.Type = "vlan" THEN << Enable("VLAN", value) >>
        ELSE << >>

LowerLayer(par) ==
    IF Bridged(par) THEN "bridge" ELSE IF par.Type = "vlan" THEN "VLAN" ELSE "port"

NoIpMode(modes) == modes.IPv4Mode = "none" /\ modes.IPv6Mode = "none"

\* The IP modes, or the bridge alone.
mode_layers(par, modes, on, refused) ==
    LET full == Overridden(Also(par, [LowerLayer |-> LowerLayer(par)]), modes, refused)
    IN  IF NoIpMode(modes) /\ ~Bridged(par) THEN << >>
        ELSE IF NoIpMode(modes) THEN << bridge_mode_ctrl_action(full, on) >>
        ELSE mode_ctrl_action(modes, full, on)

\* The scripts that run, and the success that is reported.  The IP modes always
\* succeed; without an IP mode and a bridge nothing does.  Without its port, a
\* bridge is not enabled.
WithPlug(par, none, on, refused, plug, layers) ==
    LET plugged == ~Bridged(par) \/ Complete(plug, refused)
        complete == \A i \in DOMAIN layers : Complete(layers[i], refused)
        first == IF on THEN << plug >> ELSE << >>
        last == IF on THEN << >> ELSE << plug >>
    IN  [scripts |-> first \o (IF on /\ ~plugged THEN << >> ELSE layers) \o last,
         ok |-> /\ plugged
                /\ none => Bridged(par) /\ (on => layers[1] # << >> /\ complete)]

wan_mode_intf_enable(par, modes, on, refused) ==
    WithPlug(par, NoIpMode(modes), on, refused,
             Plug(par, on), mode_layers(par, modes, on, refused))

(***************************************************************************)
(* The effect on the parameters of the other components.  A position is    *)
(* that of a script and that of a write in it.  Of a setup, value holds    *)
(* the parameters we look at; unsure are those whose last write had no     *)
(* effect.                                                                 *)
(***************************************************************************)
WriteAt(scripts, at) == scripts[at[1]][at[2]]

Effective(scripts, refused) ==
    UNION {{i} \X Performed(scripts[i], refused) : i \in DOMAIN scripts}

Precedes(at, other) ==
    at[1] < other[1] \/ (at[1] = other[1] /\ at[2] < other[2])

EffectiveOn(p, scripts, refused) ==
    {at \in Effective(scripts, refused) : At(WriteAt(scripts, at)) = p}

LastOn(p, scripts, refused) ==
    LET on_p == EffectiveOn(p, scripts, refused)
    IN  CHOOSE at \in on_p : \A other \in on_p : ~Precedes(at, other)

Meant(scripts) == {At(w) : w \in UNION {Range(scripts[i]) : i \in DOMAIN scripts}}
Done(scripts, refused) == {At(WriteAt(scripts, at)) : at \in Effective(scripts, refused)}

Written(setup, scripts, refused) ==
    LET done == Done(scripts, refused)
    IN  [value |-> [p \in DOMAIN setup.value |->
                        IF p \in done
                        THEN WriteAt(scripts, LastOn(p, scripts, refused)).value
                        ELSE setup.value[p]],
         unsure |-> ((setup.unsure \cup Meant(scripts)) \cap DOMAIN setup.value) \ done]
=============================================================================
