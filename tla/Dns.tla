--------------------------------- MODULE Dns ---------------------------------
(***************************************************************************)
(* The static DNS servers of the active WAN modes (dns.c).  They are       *)
(* instances of DNS.Relay.Forwarding., created and deleted one at a time   *)
(* by calls of the DNS plug-in.  The WAN manager names them by a counter:  *)
(* the alias of an instance is its number, and dns_relay_forwarding_index  *)
(* is the highest number in use.                                           *)
(*                                                                         *)
(* dns_mode_set and dns_mode_unset block the event loop until they are     *)
(* done, but the calls they make fail or not one by one, so each call is a *)
(* step here; phase says where the turn is.                                *)
(***************************************************************************)
EXTENDS Naturals, Sequences

CONSTANTS
    Modes,           \* WAN modes
    Servers,         \* addresses of DNS servers
    None,            \* no address
    DNSServers,      \* the servers of each interface of a mode, in order
    Pathless,        \* <<mode, i>>: no Logical. interface belongs to interface i
    DNSMode,         \* DNSMode and IPv6DNSMode of a mode; None when both are empty
    DNSModes,        \* the values of the two parameters
    MaxForwardings,  \* instances that the relay can hold
    Faults           \* what may go wrong, a subset of AllFaults

AllFaults == {
    "Away",       \* the DNS plug-in is not on the bus
    "Refuse",     \* a call fails and changes nothing
    "LostReply",  \* a call takes effect and times out
    "Restart"}    \* the WAN manager restarts, the relay keeps its instances

ASSUME NoneAssumption == None \notin Servers
ASSUME DNSServersAssumption == DNSServers \in [Modes -> Seq(Seq(Servers))]
ASSUME PathlessAssumption == Pathless \subseteq Modes \X Nat
ASSUME DNSModeAssumption == DNSMode \in [Modes -> DNSModes \cup {None}]
ASSUME MaxForwardingsAssumption == MaxForwardings \in Nat
ASSUME FaultsAssumption == Faults \subseteq AllFaults

VARIABLES
    index,    \* dns_relay_forwarding_index
    relay,    \* DNS.Relay.Forwarding.: the server of each alias, or None
    config,   \* DNS.Relay.Config.1.: its [IPv6]DNSMode
    phase,    \* where the turn is
    mode,     \* the mode that is set
    intf,     \* the interface that add_static_dnsservers works on
    server,   \* the server that set_forwarding adds next
    result,   \* the last turn that ended, and how
    unsure    \* history: a reply or the counter has been lost

turn == <<phase, mode, intf, server>>
vars == <<index, relay, config, turn, result, unsure>>

Aliases == 1 .. MaxForwardings
Phases == {"idle", "intf", "clean", "path", "add", "unset"}
Results == {"none", "set", "unset", "failed"}

TypeOK ==
    /\ index \in 0 .. MaxForwardings
    /\ relay \in [Aliases -> Servers \cup {None}]
    /\ config \in DNSModes \cup {None}
    /\ phase \in Phases
    /\ mode \in Modes
    /\ intf \in Nat \ {0}
    /\ server \in Nat \ {0}
    /\ result \in Results
    /\ unsure \in BOOLEAN
    /\ phase \in {"clean", "path", "add"} => intf \in DOMAIN DNSServers[mode]

Init ==
    /\ index = 0
    /\ relay = [alias \in Aliases |-> None]
    /\ config = None
    /\ phase = "idle"
    /\ mode \in Modes
    /\ intf = 1
    /\ server = 1
    /\ result = "none"
    /\ unsure = FALSE

-----------------------------------------------------------------------------
(* dns_mode_set                                                            *)

End(outcome) == phase' = "idle" /\ result' = outcome

\* set_dnsmode comes first; a mode with neither parameter leaves config alone.
dns_mode_set(m) ==
    /\ phase = "idle"
    /\ mode' = m
    /\ intf' = 1
    /\ UNCHANGED <<index, relay, server, unsure>>
    /\ \/ /\ config' = IF DNSMode[m] = None THEN config ELSE DNSMode[m]
          /\ phase' = "intf"
          /\ UNCHANGED result
       \/ /\ \/ "Refuse" \in Faults /\ DNSMode[m] # None
             \/ "Away" \in Faults
          /\ End("failed")
          /\ UNCHANGED config
       \/ /\ "LostReply" \in Faults /\ DNSMode[m] # None
          /\ config' = DNSMode[m]
          /\ End("failed")

\* Faulty variant: one interface too many.
NextInterface_off_by_one ==
    /\ phase = "intf"
    /\ intf \in 1 .. Len(DNSServers[mode]) + 1
    /\ phase' = IF index > 0 THEN "clean" ELSE "path"
    /\ UNCHANGED <<index, relay, config, mode, intf, server, result, unsure>>

\* add_static_dnsservers of the next interface clears what is left first, and
\* then needs the path of the Logical. interface.
NextInterface ==
    /\ phase = "intf"
    /\ intf \in DOMAIN DNSServers[mode]
    /\ phase' = IF index > 0 THEN "clean" ELSE "path"
    /\ UNCHANGED <<index, relay, config, mode, intf, server, result, unsure>>

FindPath ==
    /\ phase = "path"
    /\ IF <<mode, intf>> \in Pathless
       THEN phase' = "intf" /\ intf' = intf + 1
       ELSE phase' = "add" /\ UNCHANGED intf
    /\ server' = 1
    /\ UNCHANGED <<index, relay, config, mode, result, unsure>>

\* No interface is left.
SetEnds ==
    /\ phase = "intf"
    /\ intf \notin DOMAIN DNSServers[mode]
    /\ End("set")
    /\ UNCHANGED <<index, relay, config, mode, intf, server, unsure>>

-----------------------------------------------------------------------------
(* Calls of the DNS plug-in (external).                                    *)

\* DeleteForwarding fails for an alias that the relay does not hold.
Deletable == relay[index] # None

\* SetForwarding creates the instance of an alias, or overwrites it.
Settable == index < MaxForwardings

\* Faulty variant: every server gets the same number.
set_forwarding_keeps_index ==
    /\ phase = "add"
    /\ server \in DOMAIN DNSServers[mode][intf]
    /\ Settable
    /\ relay' = [relay EXCEPT ![index + 1] = DNSServers[mode][intf][server]]
    /\ server' = server + 1
    /\ UNCHANGED <<index, config, phase, mode, intf, result, unsure>>

\* set_forwarding adds the next server; a failure ends dns_mode_set.
set_forwarding ==
    /\ phase = "add"
    /\ server \in DOMAIN DNSServers[mode][intf]
    /\ UNCHANGED <<config, mode, intf>>
    /\ \/ /\ Settable
          /\ relay' = [relay EXCEPT ![index + 1] = DNSServers[mode][intf][server]]
          /\ index' = index + 1
          /\ server' = server + 1
          /\ UNCHANGED <<phase, result, unsure>>
       \/ /\ "Refuse" \in Faults \/ ~Settable
          /\ End("failed")
          /\ UNCHANGED <<index, relay, server, unsure>>
       \/ /\ "LostReply" \in Faults /\ Settable
          /\ relay' = [relay EXCEPT ![index + 1] = DNSServers[mode][intf][server]]
          /\ End("failed")
          /\ unsure' = TRUE
          /\ UNCHANGED <<index, server>>

\* All servers of the interface are added.
InterfaceEnds ==
    /\ phase = "add"
    /\ server \notin DOMAIN DNSServers[mode][intf]
    /\ phase' = "intf"
    /\ intf' = intf + 1
    /\ UNCHANGED <<index, relay, config, mode, server, result, unsure>>

-----------------------------------------------------------------------------
(* remove_static_dnsservers, for dns_mode_unset and, its failures ignored, *)
(* for add_static_dnsservers.                                              *)

dns_mode_unset ==
    /\ phase = "idle"
    /\ \/ phase' = "unset" /\ UNCHANGED result
       \/ "Away" \in Faults /\ End("failed")
    /\ UNCHANGED <<index, relay, config, mode, intf, server, unsure>>

RemovalFails ==
    IF phase = "unset" THEN End("failed") ELSE phase' = "path" /\ UNCHANGED result

RemovalEnds ==
    /\ phase \in {"clean", "unset"}
    /\ index = 0
    /\ IF phase = "unset" THEN End("unset") ELSE phase' = "path" /\ UNCHANGED result
    /\ UNCHANGED <<index, relay, config, mode, intf, server, unsure>>

\* Faulty variant: a failure is skipped.
remove_static_dnsservers_continues ==
    /\ phase \in {"clean", "unset"}
    /\ index > 0
    /\ index' = index - 1
    /\ \/ relay' = [relay EXCEPT ![index] = None]
       \/ "Refuse" \in Faults /\ UNCHANGED relay
    /\ UNCHANGED <<config, mode, intf, server, phase, result, unsure>>

\* Faulty variant: the counter stays.
remove_static_dnsservers_keeps_index ==
    /\ phase \in {"clean", "unset"}
    /\ index > 0
    /\ relay' = [relay EXCEPT ![index] = None]
    /\ UNCHANGED <<index, config, mode, intf, server, phase, result, unsure>>

\* The highest number goes first; the first failure ends the loop.
remove_static_dnsservers ==
    /\ phase \in {"clean", "unset"}
    /\ index > 0
    /\ UNCHANGED <<config, mode, intf, server>>
    /\ \/ /\ Deletable
          /\ relay' = [relay EXCEPT ![index] = None]
          /\ index' = index - 1
          /\ UNCHANGED <<phase, result, unsure>>
       \/ /\ "Refuse" \in Faults \/ ~Deletable
          /\ RemovalFails
          /\ UNCHANGED <<index, relay, unsure>>
       \/ /\ "LostReply" \in Faults /\ Deletable
          /\ relay' = [relay EXCEPT ![index] = None]
          /\ RemovalFails
          /\ unsure' = TRUE
          /\ UNCHANGED index

-----------------------------------------------------------------------------
\* A static variable starts again at zero.
Restart ==
    /\ "Restart" \in Faults
    /\ index' = 0
    /\ End("none")
    /\ unsure' = TRUE
    /\ UNCHANGED <<relay, config, mode, intf, server>>

\* A step of the turn in progress.
Proceed ==
    \/ NextInterface
    \/ FindPath
    \/ SetEnds
    \/ set_forwarding
    \/ InterfaceEnds
    \/ remove_static_dnsservers
    \/ RemovalEnds

Next ==
    \/ \E m \in Modes : dns_mode_set(m)
    \/ dns_mode_unset
    \/ Proceed
    \/ Restart

Spec == Init /\ [][Next]_vars /\ WF_vars(Proceed)

-----------------------------------------------------------------------------
(* Properties.                                                             *)

\* As long as no reply and no counter is lost, every instance in the relay can
\* still be removed, in the middle of a turn too and whatever calls are refused.
\* That is why a removal does not continue after a failure, "otherwise those
\* instances will never be removed" (dns.c:135).
AllRemovable == ~unsure => \A alias \in Aliases : relay[alias] # None <=> alias <= index

\* A dns_mode_unset that reports success has then left no server of any mode.
UnsetEmpties ==
    ~unsure /\ result = "unset" /\ phase = "idle" =>
        \A alias \in Aliases : relay[alias] = None

\* The servers of interface i of mode m are in the relay.
Relayed(m, i) ==
    \A s \in DOMAIN DNSServers[m][i] :
        \E alias \in Aliases : relay[alias] = DNSServers[m][i][s]

\* A dns_mode_set that reports success has put all servers of the last
\* interface of the mode into the relay, refused removals notwithstanding.
LastInterfaceRelayed ==
    result = "set" /\ phase = "idle" /\ DNSServers[mode] # << >> =>
        LET last == Len(DNSServers[mode])
        IN  <<mode, last>> \in Pathless \/ Relayed(mode, last)

\* The event loop gets control back: neither loop of calls goes on for ever,
\* under any failure.
TurnsEnd == []<>(phase = "idle")

-----------------------------------------------------------------------------
(* What the documentation says and the code does not do.                   *)

\* "comma separated list of static IPv4 DNS Server addresses"
\* (wan-manager_WAN_Intf_definition.odl:250), of each interface of a mode: once
\* the mode is set, the relay holds the servers of every interface.
StaticServersRelayed ==
    result = "set" /\ phase = "idle" =>
        \A i \in DOMAIN DNSServers[mode] :
            <<mode, i>> \in Pathless \/ Relayed(mode, i)
=============================================================================
