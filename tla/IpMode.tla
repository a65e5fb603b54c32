-------------------------------- MODULE IpMode --------------------------------
(***************************************************************************)
(* The IP modes of one interface of one WAN mode, and what is set up for   *)
(* them in the other components (dm_wan-manager.c, dm_wan_mode.c).         *)
(*                                                                         *)
(* A write of IPv4Mode or IPv6Mode raises a change event with the old      *)
(* value.  Its handler disables the interface with the old value and       *)
(* enables it with the current ones.  WANMode has its own events, which    *)
(* enable and disable the interface with its current modes.                *)
(***************************************************************************)
EXTENDS Layers

CONSTANTS
    Interfaces,    \* the configurations of the interface: records of its parameters
    Disturbances,  \* liberties of the environment, a subset of AllDisturbances
    MaxEvents      \* bound on the queue of change events

AllDisturbances == {
    "Ignored",  \* an IP mode in use is changed when the handler ignores it
    "Switch"}   \* WANMode or OperationMode changes while such a change is queued

ASSUME InterfacesAssumption == \A par \in Interfaces : IsInterface(par)

\* The references of an interface are paths of different kinds: those of PPP,
\* NeighborDiscovery, DSLite and PCP by their validate actions, the others by
\* their documentation.  So the PCP client is nothing else, and no IP interface
\* has the name of a parameter (Listed writes it as one).
DistinctReferences(par) ==
    /\ get_pcp_path(par) \notin
          {get_ip_path(par, 4), get_ip_path(par, 6), get_dhcp_path(par, 4),
           get_dhcp_path(par, 6), get_ppp_path(par, 4), get_ppp_path(par, 6),
           get_nd_path(par), get_dslite_path(par), par.DefaultRouteReference,
           "DSLite", "PCP", "VLAN", "AccessPoint", "Logical"}
    /\ get_nd_path(par) \notin {"DSLite", "PCP"}
    /\ {get_ip_path(par, 4), get_ip_path(par, 6)} \cap
          {"LowerLayers", "Interface", "StaticPrefix", "StaticAddress",
           "IPv6AddressDelegate", "IPCPEnable", "IPv6CPEnable"} = {}

ASSUME ReferencesAssumption == \A par \in Interfaces : DistinctReferences(par)
ASSUME DisturbancesAssumption == Disturbances \subseteq AllDisturbances
ASSUME MaxEventsAssumption == MaxEvents \in Nat

VARIABLES
    intf,           \* the parameters of the interface
    OperationMode,  \* WANManager.OperationMode
    listed,         \* WANManager.WANMode: "no", "alone" or "shared" with another mode
    status,         \* Status of the WAN mode
    setup,          \* parameters of the other components, see Written
    events          \* queued change events, of IPv4Mode, IPv6Mode and WANMode

vars == <<intf, OperationMode, listed, status, setup, events>>

\* The writes of enabling and of disabling an interface.
WritesOf(par) ==
    LET of(act) == UNION {Range(act.scripts[i]) : i \in DOMAIN act.scripts}
    IN  UNION {of(wan_mode_intf_enable(par, par, on, None)) : on \in BOOLEAN}

Writes == UNION {WritesOf(par) : par \in Interfaces}

\* Settings, which are set to the needs of a mode and never switched off.  They
\* are written, and the write may fail, but their value is not kept.
Setting(p) ==
    \/ p[2] \in {"AddressingType", "Origin", "RequestPrefixes", "IPType", "DNSMode",
                "IPv6DNSMode", "Username", "Password"}
    \/ p \in {<<"DSLite", "Enable">>, <<"PCP", "Enable">>}

Written_to == {At(w) : w \in Writes}
Params == {p \in Written_to : ~Setting(p)}
Values == {w.value : w \in Writes} \cup {"off"}

\* The empty reference is neither a value nor a parameter.
ASSUME NoneAssumption == None \notin {"on", "off"} /\ None \notin Written_to

AllOff == [value |-> [p \in Params |-> "off"], unsure |-> {}]

\* The interface only ever has IP modes that the validate actions accept, and the
\* other components only hold values that some mode writes.
TypeOK ==
    /\ intf \in Interfaces
    /\ OperationMode \in {"Manual", "Automatic"}
    /\ listed \in {"no", "alone", "shared"}
    /\ status \in {"Enabled", "Disabled", "Error"}
    /\ setup.value \in [Params -> Values]
    /\ setup.unsure \subseteq Params
    /\ Len(events) <= MaxEvents

Init ==
    /\ intf \in Interfaces
    /\ OperationMode \in {"Manual", "Automatic"}
    /\ listed = "no"
    /\ status = "Disabled"
    /\ setup = AllOff
    /\ events = << >>

SameButModes(par, other) ==
    [par EXCEPT !.IPv4Mode = other.IPv4Mode, !.IPv6Mode = other.IPv6Mode] = other

\* What is written for an interface, whatever its IP modes.
Writable ==
    [par \in Interfaces |->
        {At(w) : w \in UNION {WritesOf(other) :
                     other \in {i \in Interfaces : SameButModes(par, i)}}}]

\* Another component may refuse one write of a turn; the next refusal comes
\* only after that write has been made good.  The route is module StaticRoutes'.
Refusals ==
    {None} \cup (IF setup.unsure = {} THEN Writable[intf] \ {At(Route("off"))} ELSE {})

(***************************************************************************)
(* Requests                                                                *)
(***************************************************************************)

\* The change is ignored in Automatic, and when WANMode is anything but the
\* name of the mode.
Ignored == OperationMode = "Automatic" \/ listed # "alone"

\* Faulty variant: any value is accepted.
set_intf_ip_mode_unchecked(version, mode) ==
    LET name == IF version = 4 THEN "IPv4Mode" ELSE "IPv6Mode"
    IN  /\ status = "Disabled" \/ ~Ignored \/ "Ignored" \in Disturbances
        /\ Len(events) < MaxEvents
        /\ mode # intf[name]
        /\ intf' = [intf EXCEPT ![name] = mode]
        /\ events' = Append(events, [of |-> name, from |-> intf[name]])
        /\ UNCHANGED <<OperationMode, listed, status, setup>>

\* _setIPv4Mode, _setIPv6Mode or a direct write of the parameter.  The validate
\* action refuses other values.
set_intf_ip_mode(version, mode) ==
    LET name == IF version = 4 THEN "IPv4Mode" ELSE "IPv6Mode"
    IN  /\ status = "Disabled" \/ ~Ignored \/ "Ignored" \in Disturbances
        /\ Len(events) < MaxEvents
        /\ mode # intf[name]
        /\ intf' = [intf EXCEPT ![name] = mode]
        /\ intf' \in Interfaces
        /\ events' = Append(events, [of |-> name, from |-> intf[name]])
        /\ UNCHANGED <<OperationMode, listed, status, setup>>

\* Requests that meet a queued event of WANMode are left to WanMode.
MaySwitch ==
    \A i \in DOMAIN events : events[i].of # "WANMode" /\ "Switch" \in Disturbances

_setWANMode(where) ==
    /\ MaySwitch
    /\ Len(events) < MaxEvents
    /\ where # listed
    /\ listed' = where
    /\ OperationMode' = "Manual"
    /\ events' = Append(events, [of |-> "WANMode", from |-> listed, to |-> where])
    /\ UNCHANGED <<intf, status, setup>>

WriteOperationMode(mode) ==
    /\ MaySwitch
    /\ mode # OperationMode
    /\ OperationMode' = mode
    /\ UNCHANGED <<intf, listed, status, setup, events>>

(***************************************************************************)
(* Turns that enable and disable the interface                             *)
(***************************************************************************)

\* wan_mode_enable, for a mode with this interface alone.
wan_mode_enable(on, refused) ==
    LET done(act) ==
          /\ setup' = Written(setup, act.scripts, refused)
          /\ status' = IF ~on THEN "Disabled"
                       ELSE IF act.ok THEN "Enabled" ELSE "Error"
    IN  done(wan_mode_intf_enable(intf, intf, on, refused))

\* wan_mode_set, as far as the WAN mode is concerned.
wan_mode_set(from, to, refused) ==
    IF (from = "no") = (to = "no")
    THEN UNCHANGED <<status, setup>>
    ELSE wan_mode_enable(from = "no", refused)

\* The autosensing module changes WANMode.  Its event is ignored in Automatic.
autosensing_set_wan_mode(where) ==
    /\ OperationMode = "Automatic"
    /\ MaySwitch
    /\ where # listed
    /\ listed' = where
    /\ \E refused \in Refusals : wan_mode_set(listed, where, refused)
    /\ UNCHANGED <<intf, OperationMode, events>>

\* Faulty variant: the interface is disabled with its current modes.
Before_is_current(event) == intf

\* The modes of the interface with the changed one replaced by what it was.
Before(event) == [intf EXCEPT ![event.of] = event.from]

\* Disabled first; enabled when that succeeds.
Toggled(disable, enable, refused) ==
    LET disabled == Written(setup, disable.scripts, refused)
    IN  /\ setup' = IF disable.ok THEN Written(disabled, enable.scripts, refused)
                                  ELSE disabled
        /\ status' = IF disable.ok /\ enable.ok THEN status ELSE "Error"

ip_mode_toggled(event, refused) ==
    \/ Ignored /\ UNCHANGED <<setup, status>>
    \/ /\ ~Ignored
       /\ Toggled(wan_mode_intf_enable(intf, Before(event), FALSE, refused),
                  wan_mode_intf_enable(intf, intf, TRUE, refused), refused)

HandleEvent ==
    /\ events # << >>
    /\ LET event == Head(events)
       IN  \E refused \in Refusals :
             \/ /\ event.of = "WANMode"
                /\ wan_mode_set(event.from, event.to, refused)
             \/ /\ event.of # "WANMode"
                /\ ip_mode_toggled(event, refused)
    /\ events' = Tail(events)
    /\ UNCHANGED <<intf, OperationMode, listed>>

Next ==
    \/ \E mode \in IPv4Modes : set_intf_ip_mode(4, mode)
    \/ \E mode \in IPv6Modes : set_intf_ip_mode(6, mode)
    \/ \E where \in {"no", "alone", "shared"} : _setWANMode(where)
    \/ \E mode \in {"Manual", "Automatic"} : WriteOperationMode(mode)
    \/ \E where \in {"no", "alone", "shared"} : autosensing_set_wan_mode(where)
    \/ HandleEvent

Spec == Init /\ [][Next]_vars

(***************************************************************************)
(* Properties                                                              *)
(***************************************************************************)
Settled == events = << >>

\* What enabling the current modes sets up from nothing.
Expected ==
    Written(AllOff, wan_mode_intf_enable(intf, intf, TRUE, None).scripts, None).value

\* Disable undoes enable: once the mode is out of WANMode and no event is queued,
\* everything its IP modes have switched on since is off, whatever changes of IP
\* modes came in between, how far the enabling got when a write was refused, and
\* although layers of both versions write the same parameters.  Parameters whose
\* own last write had no effect are excepted.
NothingLeft ==
    Settled /\ listed = "no" =>
        \A p \in Params \ setup.unsure : setup.value[p] = "off"

\* The interface follows its modes: when the queue is empty and Status says
\* Enabled, everything is as if the current modes had been enabled from nothing.
\* So no earlier mode left anything on, and disabling it took nothing away that
\* the current ones need.
FollowsModes ==
    Settled /\ listed # "no" /\ status = "Enabled" /\ setup.unsure = {} =>
        setup.value = Expected
=============================================================================
