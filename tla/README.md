# A TLA+ model of the WAN manager

The WAN manager is an Ambiorix plug-in, written in C. It keeps the data model
`WANManager.`, whose parameter `WANMode` is a comma separated list of the WAN
modes in use (DHCP on Ethernet, PPP on a VLAN, GPON, cellular, ...), and
configures the other components of the gateway for the modes of that list.
Nothing runs in parallel inside it: one event loop handles RPCs, parameter
writes, data model events, NetModel answers and calls of extension modules, one
at a time. Its difficulties are the order of these turns (a change of the data
model is handled in a later turn than the one that made it), handlers that stop
half-way, state that survives a restart next to state that does not, and several
owners of one parameter.

## Inventory

| Part | Source (src/src) | State | Operations | What makes it correct |
|---|---|---|---|---|
| Mode lists | dm_wan-manager.c, wan_manager_utils.c | none | validation, addition and removal of names, loops over a list | a list never holds two modes of one physical type (but see the first of the further disagreements) |
| WAN mode core | dm_wan-manager.c, dm_wan_mode.c | `WANMode`, `OperationMode`, `ApplyAtNextBoot`, Status per mode, what is set up, the event queue | setWANMode, WANModeEnable, WANModeDisable, Reset, parameter writes, the handlers of their events, the lower layer answer | what is set up follows the list; Status tells the truth; kept modes are left alone; events die out |
| Autosensing, core side | autosensing/autosensing.c, dm_wan_mode.c | `sensing_active`, `sensing_at_boot_finished`, policy, marks | start, stop, set-mode, isup-sensing-stop, policy and mark changes | runs when it should and only then, never in Manual, never beside a watched interface |
| NetModel queries | netmodel/nm_query.c | per mode: path, lower layer, physical query, `wan_mode_up`; per interface: IsUp queries and answers | opening, closing, answers | queries are open for the listed modes; no flag is stale |
| Upstream interfaces | upstream_intf.c | Enable of the port of each physical type | toggle | the port of an enabled mode is on |
| SFP | sfp/sfp.c | SFPType per mode | the report of the SFP module, read category | modes that hold one SFP agree; the transaction is all or nothing |
| Network selector | network-selector/network_selector.c | `network_selector_can_start` | start, set-wan-mode, SFPType events | a plugged SFP is detected, a removed one is not |
| DNS | dns/dns.c | `dns_relay_forwarding_index`, forwardings | set and unset the DNS mode | counter and relay stay in step whatever call fails; success means done |
| IP and layers | common_layers.c, wan_manager_utils.c | parameters of IP., Routing., Logical.; the counter `my_index` of default IPv6 routes | set, clear | what is set is cleared; a route belongs to its interface |
| Mode controllers | ctrl, dhcpc, ppp, staticc, cellular, dslite | parameters of the clients | enable, disable | disable undoes enable |
| Bridge, VLAN | bridge_mode.c, ethernet/ethernet.c | bridge ports, VLAN terminations | add, remove, enable | the port belongs to the mode in use |
| IP mode of an interface | dm_wan-manager.c, dm_wan_mode.c | IPv4Mode, IPv6Mode | setIPv4Mode, setIPv6Mode, their events | the interface follows its mode while its WAN mode is active |
| getWANMode, destructors, module loading | dm_wan-manager.c, component.c | none of interest | | |

How they interact: an RPC or a write changes the data model, which queues a
change event; its handler (`_set_wan_mode`, `_update_autosensing`) calls
`wan_mode_set`, which calls `wan_mode_enable` per mode, which calls the upstream
interface, the layers and controllers, DNS and the NetModel queries. NetModel
calls back with answers, at once and later. The autosensing module and the
network selector call `set-mode` and `set-wan-mode`, which go to `wan_mode_set`
without the event queue.

What is hard: events that carry old lists; several events in the queue; a
request while the lower layers are not known; a failure between two steps of
`wan_mode_set`; a restart between a write and its handler; the race of IsUp
answers with switches of the operation mode. PROJECT.json lists these hazards
with their lines and the properties about them.

## Modules

- **ModeList**: lists and what the code computes from them. A list is the
  sequence of its names; `Unknown` stands for a name without instance, `Values`
  for the lists that fit in the parameter (64 characters). A mode whose reference
  tells no physical type (`Device.Wifi.SSID.1.`) has the type `NoType`, which is
  physical_type_last; these modes are `Untyped`. `check_wan_mode` compares the
  names before the first of them (`Compared`), as the code does; `Consistent` is what
  it would say if it compared all, and `Overlooked` are the lists on which the two
  may differ. No variables.
- **WanMode** (EXTENDS ModeList): the core. One action is one turn of the event
  loop. `wanMode`, `opMode`, `apply`, `status` are the parameters; `configured`
  is the set of modes set up in the other components, `upstream` the physical
  types switched on, `monitored` the modes with open IsUp queries, `lowerLayer`
  the modes whose lower layer is known, `events` the queued change events, each
  with the old and the new list. `wan_mode_set` is one operator, with its two
  loops, its early exits and its failures; `_set_wan_mode`, `manipulate_mode`,
  `_Reset`, `wan_manager_found_ll` and the module functions call it as the code
  does. What happens inside one mode is reduced to its outcome: it fails when
  the lower layer is unknown, when an interface has nothing to set up
  (`Broken`), when Bridging refuses to add or to disable its port (for the modes of
  `Bridged`), or when the DNS plug-in is away. `Faults` is what may fail in one turn.
  A refused DisablePort comes after Status Disabled was written and before the rest of
  the tear down, so the mode stays set up. `silent` is the exit of wan_mode_set that
  an unknown name in the old list takes after a tear down: it reports success.
- **Manager**: what the core promises to a client that lets one request be carried
  out before it makes the next. `asked` is the set of modes in `WANMode`, `before`
  those that a pending request replaces, `inPlace` the modes set up, `shown` their
  Status. No lists, events, queries or lower layers. WanMode implements it:
  `M` in WanMode maps `asked` to the names in `wanMode`, `before` to those of the
  list that the queued event carries (`Replaced`; in Automatic the handler does
  nothing, so nothing is pending), `inPlace` to `configured` and `shown` to `status`.
  Ask is a write or RPC, CarryOut and Undo its handler, Switch a call of a module,
  Renew `_Reset`, Arrive a lower layer answer; everything else is a stutter.
- **Autosensing**: when the module is started and stopped. Here `WANMode` is the
  set `listed`; `open`, `result` and `wasUp` are the IsUp queries, their answers
  and the `wan_mode_up` flag; `physUp` the open physical queries; `path` and
  `layer` what is known of each mode. `wan_mode_set` is reduced to the queries it
  closes and opens, with every choice the core could make: which modes are torn
  down and set up is WanMode's matter. `SetOneMode` is what the two modules
  ask for: the autosensing module only while it runs, the network selector at any
  time (`network_selector_set_wan_mode`).
- **Dns**: the static servers of the modes. `dns_mode_set` and `dns_mode_unset`
  run to their end within a turn of the event loop, but make calls that fail one
  by one, so here a step is one call. `phase` is the place in the turn: `intf`
  at the loop over the interfaces, `clean` in the best-effort removal, `path` at
  the search of the Logical interface, `add` at the loop over the addresses,
  `unset` in the removal of dns_mode_unset. `index` is the static counter,
  `relay` the instances in the DNS plug-in. The servers of all addresses of an
  interface are one sequence. `unsure` is a history variable: a reply or the
  counter has been lost, which the code cannot notice.
- **Sfp**: SFPType of the modes, the events of its changes and the flag
  `network_selector_can_start`. A change event of SFPType says nothing to its
  handler, so the queue is a number. `detected` is what the last detect-network
  was given.
- **Layers**: what enabling or disabling one interface writes to the other
  components. A handler of a layer is the script of its writes; `controllers` is
  the table of mode_ctrl.c, `mode_ctrl_action` its loops, `wan_mode_intf_enable`
  adds the bridge or the VLAN, `static_enable` and the `ipv6_..._toggle` operators
  what IPv6Mode static adds. `Performed` are the positions of a script that are
  reached and not refused, and `Written` is their effect on the parameters: the last
  one on a parameter gives its value. `off` stands for false and the empty string.
  No variables.
- **IpMode** (EXTENDS Layers): the IP modes of one interface. `intf` is the record
  of its parameters, `setup` the parameters of the other components (their values,
  and which of them had a last write without effect), `listed` whether its WAN mode
  is in `WANMode`, alone or with others, `events` the queued changes of IPv4Mode,
  IPv6Mode and WANMode.
- **StaticRoutes**: the default IPv6 routes of the interfaces with IPv6Mode static.
  In Layers the route of an interface is one parameter; here it is an instance
  with an alias made from the counter `my_index`, which all interfaces share.
- **MCWanMode**, **MCAutosensing**, **MCDns**, **MCSfp**, **MCIpMode**: the
  instances TLC checks.
- **ManagerProofs**, **WanModeProofs**, **WanModeRefinement**, **AutosensingProofs**,
  **DnsProofs**, **SfpProofs**, **StaticRoutesProofs**, **IpModeProofs**: theorems.

WanMode, Autosensing, Dns, Sfp and IpMode do not share variables yet. They meet
where one component calls another: IpMode is the inside of one mode of WanMode,
whose `Broken` modes are those with an interface that has neither an IP mode nor a
bridge; WanMode has the failures of DNS (`DnsOutage`) and of check_sfp
(`SfpUnreadable`), the calls of the autosensing module and of the network selector;
StaticRoutes is the inside of one write of Layers (`Route`), which is why IpMode
never refuses its deletion; Autosensing has `SfpDetected` for the report that stops sensing.

Operators named `..._something` after "Faulty variant" are variants of the code
with a plausible bug. No specification uses them; each shows that a property can
tell the bug from the code.

### Assumptions about the environment

`Disturbances` of WanMode names what the environment may do:

| Disturbance | What it allows |
|---|---|
| SfpUnreadable, UpdateFails | `check_sfp` or `request-system-update` fails (benign: all properties hold with them) |
| Burst | a request while change events are queued |
| EarlyRequest | a request before the lower layers of the active modes are known |
| UnknownName | a direct write of a list with an unknown name |
| WriteInAutomatic | a direct write of `WANMode` while autosensing owns it |
| Rewire | a change of PhysicalType or PhysicalReference |
| SharedType | a list with two modes of a type behind a mode without type, which check_wan_mode accepts |
| DnsOutage | the DNS plug-in does not answer |
| PortRefused | Bridging refuses to add or to disable the port of a mode of `Bridged` |
| Crash | a restart that loses queued events |

Status Enabled is true under all of them, Status Disabled under all but PortRefused
(DisabledIsTornDown excepts the modes of `Bridged` then), and ApplyAtNextBoot is
cleared with cause. The other invariants are not kept: Burst,
EarlyRequest, UnknownName, DnsOutage and Crash each break
OnlyListedModesConfigured, OneModePerPhysicalType and UplinkOfEnabledModeIsOn;
WriteInAutomatic and Rewire break them too but not TornDownOnlyWhenDropped;
PortRefused breaks the first two, SharedType the last two. Modes without a type
are no disturbance: a well-behaved client may list them alone, among each other and
beside modes of distinct types, and MCWanMode has one.

`SingleAssumption` of ModeList says that every mode alone is a list the parameter
holds (an alias has at most 64 characters). `Switchable` are the physical types with
an entry in `upstream_toggle` (Ethernet, GPON and WWAN in the code); the others have
a function that does nothing, so UplinkOfEnabledModeIsOn is about the first.
`PhysicalAssumption` allows every mode any type or none, as get_physical_type may
return.

`Faults` of Autosensing does the same there: Reset in Automatic, a refused
request, an unreadable SFP, a reported SFP, a module that does not start or gives up,
a mode rewired while it is up, and the network selector setting a mode in Automatic (in
Manual it always may). NetModel answers a query from within the call that opens
it (test/mocks/mock_netmodel.c does, and the comment at nm_query.c:497 relies on
it). `Needed` gives every mode one interface and the IP versions it needs.
Assumed of the autosensing module, which is in another repository:
`autosensing-start` does not call back before it returns, `autosensing-stop`
succeeds, it calls set-mode only while the core believes it active, and under
Continuous it does not give up unless a mode cannot be set.

`Faults` of Dns: the plug-in is away (`dns_get_context` returns NULL), a call is
refused, a call takes effect and times out, the WAN manager restarts. MCDns checks
with all of them. Of the plug-in it is assumed that DeleteForwarding fails for an
alias it does not hold, and that SetForwarding with AddInstance creates or
overwrites; `MaxForwardings` is its limit, a refusal like any other.

`Faults` of Sfp: the transaction is refused, the WAN manager restarts with an
empty queue. MCSfp has one cage, as sfp.c:165 has ("Device.SFPs.Cage.1"). With two,
ModesAgree does not hold: a report for one cage empties SFPType of the modes of
the other. Types are atoms: strstr and strncmp are equality and membership for
the names in use, none of which is part of another.

`Disturbances` of IpMode are two, and MCIpMode allows neither, because each breaks
FollowsModes: `Ignored`, a change of an IP mode in use while autosensing owns
`WANMode` or while `WANMode` lists two modes, and `Switch`, a change of `WANMode` or
`OperationMode` while a change of an IP mode is queued. One write of a turn may be
refused; the next refusal comes after the parameter was written again. Assumed: the
build has SUPPORT_OLD_PATH_IMPL (an empty reference to PPP, NeighborDiscovery,
DSLite or PCP means a fixed object); the VLAN termination exists and the management
port of the bridge is found; the lower layer is known; the other modes of the list
and DNS succeed (WanMode has their failures). Settings such as AddressingType and
IPType, which a mode sets and nothing clears, are written and may be refused, but
their value is not kept. The static address and prefix instances that the code
looks up by alias exist.

Three assumptions say which configurations `Interfaces` may hold.
`InterfacesAssumption`: they have the parameters that the handlers read, with IP modes
that `check_enum` accepts. `ReferencesAssumption` (`DistinctReferences`): their
references are paths of different kinds. The validate actions of the references to
PPP, NeighborDiscovery, DSLite and PCP enforce it (`matches_regexp`), the
documentation of the others says what they refer to. It matters: were the PCP client
of an interface also its DSLite interface, two writes of one script would compete for
one Enable. `NoneAssumption`: the empty reference is no value and no parameter.

`Faults` of StaticRoutes: the routing manager refuses to add or to delete, the WAN
manager restarts. It refuses an alias in use by itself.

## Runs

In MCWanMode two modes share the Ethernet port, one is on GPON and one has no
physical type; that is the smallest instance with a change within a type, a change
between types, a list of two and a mode that ends the walk of check_wan_mode.
Lists have at most two names (`MaxNames`), a name may come twice, and an unknown name
comes last: two modes of different types, or one beside a mode without type,
are what one list may hold here, and longer lists add
only more of the same to the loops. The shortest list with two modes of one type has
three names (a mode without type and the two behind it), so SharedType in
MCWanModeLive is about lists that repeat a name; with lists of three names and SharedType,
OneModePerPhysicalType and UplinkOfEnabledModeIsOn fail, as the first of the further
disagreements says. MCWanModeLive has a mode on Ethernet with a bridge and one
without a type. The queue holds at most two events
(`MaxEvents`): the interesting case is one event behind another. With
the guards of a well-behaved environment it never holds more than one (CalmInv).
Autosensing is checked with a mode that needs IPv4 and one that needs both
versions, so that a mode can be half up.

The relay of MCDns holds four instances (`MaxForwardings`), one more than the
largest mode has servers, so that a removal that stops half-way leaves room for a
set that succeeds and for one that hits the limit. Its modes have two interfaces
with servers, one, and one without a Logical interface. MCSfp has three modes on
one interface, two of which share a type, and room for six events
(`MaxEvents`): two reports that change all modes, one behind the other.

MCIpMode has five interfaces, after the configurations in odl/defaults.d and in the
tests: a VLAN with one IP interface, one DHCPv6 client and one PPP interface for all
modes, an unnumbered one with an IP interface per version and PPP credentials, one
for cellular, one with static addresses and routers of both versions, and a bridge,
each with the IP modes that its references serve. A queue of two (`MaxEvents`) is
one change behind another.

Deadlock is checked in every run.

| Run | Distinct states | Shows |
|---|---|---|
| MCWanMode | 548 099 | the core's invariants and action properties with a well-behaved environment, and that it implements Manager |
| MCWanModeLive | 108 232 | change events die out: `[]<>(events = << >>)`; a refused direct write is rolled back; types and Status Disabled are right, with unknown names, early requests, rewiring, lists that check_wan_mode overlooks, refused bridge ports and DNS outages |
| MCAutosensing | 680 056 | Continuous sensing is never left idle; AtBoot sensing that found a mode is over until the next restart |
| MCAutosensingFaults | 698 816 | no sensing in Manual, none beside watched interfaces, no stale flag or query, Sticky sensing starts only on a loss or a lower layer answer, with the policies Continuous and Sticky |
| MCDns | 253 541 | counter and relay in step, success means done, every turn ends, under all faults |
| MCSfp | 162 | a plugged SFP reaches the network selector, the flag is right, modes agree |
| MCIpMode | 123 271 | what is set up follows the IP modes through changes, refused writes and changes of WANMode; disabling leaves nothing on |

The runs leave out what their size forbids and the theorems cover: Burst, Crash and
WriteInAutomatic (TypeCorrect, StatusIsTrue, DisabledLeavesNothing and
ApplyIsNotLost hold with every disturbance), and of the faults of Autosensing
SfpUnreadable, Rewire and the policy AtBoot (its theorems hold with every fault
and policy); and `Ignored` and `Switch` of IpMode (InterfaceTypeCorrect holds with both).

The other runs each find one disagreement between the code and what its
documentation says, listed under "findings" in PROJECT.json with the quoted
line:

| Run | The code |
|---|---|
| BootAppliesOneType | clears ApplyAtNextBoot after the first physical type |
| KeptModesLoseQueries | closes the IsUp queries of kept modes |
| StaticServersLost | removes the servers of one interface when it adds those of the next |
| KeptRouteLost | deletes the default IPv6 route of one interface when it disables another |
| RemovalDetects | detects a network when an SFP of two modes is taken out |

### Further disagreements

Met while modelling; the model follows the code, and no run is about them.

- `_check_wan_mode` accepts the whole list at the first mode that has no physical type
  (dm_wan-manager.c:438-439), such as one with the documented reference
  `Device.Wifi.SSID.i.` (wan-manager_WAN_definition.odl:44). Behind it two modes of one type
  pass, although there is a "limitation of one physical type at a time"
  (README.md:138); dropping one of them then switches off the port of the other.
- When Bridging refuses DisablePort, wan_mode_enable ends (dm_wan_mode.c:751) with
  Status Disabled written (dm_wan_mode.c:782) and the bridge port, the IsUp queries
  and the upstream interface as they were.
- wan_mode_set stops at an unknown name of the old list. After a successful tear down
  of another mode it reports success then, with nothing set up, the old list in
  `WANMode` and no Status Error (dm_wan_mode.c:582).
- A failed tear down ends wan_mode_set before the new list is written
  (dm_wan_mode.c:585). After a direct write the list is there already, so that the
  modes of the old list stay set up and are in no list.
- When only the removal of the DNS servers fails, the mode is down and Status is
  Disabled, yet wan_mode_set takes it as a failure (dm_wan_mode.c:803).
- wan_manager_found_ll looks no further than the first listed mode without a physical
  type (dm_wan_mode.c:346): modes behind it are not applied, and ApplyAtNextBoot stays.
- The network selector sets its mode whatever OperationMode is
  (network_selector.c:238). In Automatic this tears down the mode that sensing found,
  and nothing starts sensing again.
- wan_mode_set gives every mode of the new list Status Error when one of them
  cannot be set up, the kept ones too (dm_wan_mode.c:599), although
  WANModeEnable is "without touching other active WANModes" (README.md:149).
- `_Reset` tears every mode down and sets it up again; when one fails, those after
  it stay down.
- WANModeDisable with a list of two names removes nothing (wan_manager_utils.c:759).
- When the old list is empty, wan_mode_set reports success and sets nothing up
  (dm_wan_mode.c:534).
- An early request, before the lower layer of the active mode is known, cannot tear
  it down; two modes of one physical type can then be set up.
- physical_reference_used tells whether all active modes have the physical type of a
  reference, where its comment asks whether an active mode uses it
  (upstream_intf.c:249, 274): with modes of two types in `WANMode`, the module is told
  of changes of physical interfaces that are in use (nm_query.c:111).
- Continuous sensing is left idle by a request that the data model refuses after
  the module was stopped (dm_wan-manager.c:194), by Reset, and by a mode that is
  rewired while it is up (nm_query.c:368). This is why NeverIdle is checked without
  these faults and without NetworkSelector.
- With two changes of WANMode in the queue, the handler of the first writes its own
  value back, which raises a change behind the second, whose handler does the same
  (dm_wan-manager.c:398): WANMode alternates for ever although nobody asks for
  anything. This is why MCWanModeLive is without Burst.
- ip_mode_toggled fails when it disables an interface that had neither IP mode (nor a
  bridge), because wan_mode_intf_enable then does nothing and returns its initial
  error (dm_wan_mode.c:1026, 667). So an interface with both modes `none` is never
  enabled by setIPv4Mode, and its mode gets Status Error.
- A successful ip_mode_toggled does not clear a Status Error.
- A change of an IP mode that is ignored, or that is followed by a change of WANMode
  before it is handled, leaves the old IP mode set up.
- A bridged interface without IP modes, whose IPv4Mode is changed to `dslite` or `link`
  and whose IPv6Mode is changed before the first event is handled, keeps the bridge
  below its IPv4 interface: neither event remembers that both modes were `none`
  (dm_wan_mode.c:1007), `dslite` and `link` do not write the IPv4 interface, and IPv6
  may have another. This is why the theorems about IpMode assume `BridgedModes`: no
  bridged interface has these modes.
- mode_ctrl_action reports success whatever its layers return (mode_ctrl.c:158), so
  Status is Enabled when a layer failed.
- When NeighborDiscovery refuses to be disabled, the DHCPv6 client stays on
  (dhcpc_controller.c:197). So does everything after a refused write in any other
  handler, until the next change.
- A switch to AtBoot meets a mode without a lower layer and leaves the module running
  (dm_wan_mode.c:182), although sensing stops "If SensingPolicy is switched from
  Continuous to AtBoot" (README.md:127).
- Under AtBoot a switch from Manual to Automatic starts nothing (dm_wan_mode.c:400),
  although "Sensing will only start during the boot sequence or when switching from
  Manual to Automatic mode" (README.md:95). FixedAtBoot therefore says only that
  nothing starts once a mode was found.
- Under Sticky a lower layer answer starts sensing beside a mode that is up
  (dm_wan_mode.c:385), although it "will only start if the current WANMode is
  interrupted" (wan-manager_definition.odl:125). StickyWaits allows that turn.
- DeferredIPv6Instances has no effect: ip_parent_prefix_toggle gives up without an old
  reference (wan_manager_utils.c:609), and nothing ever sets
  `old_interface_parameters` (common_layers.c:200). So Layers has no prefixes of
  other interfaces.
- After a restart, after a refused deletion, or with three interfaces, default IPv6
  routes stay for good: nothing deletes "wan-mngr" again once `my_index` has passed it
  or another interface has taken the name (wan_manager_utils.c:693, 725).

### Fairness

- WanMode: `WF_vars(HandleEvent)`. The event loop delivers queued events. Nothing
  else is fair; clients, NetModel and modules may stop at any time.
- Dns: `WF_vars(Proceed)`. A turn in progress goes on: its calls are synchronous
  with a timeout of 5 seconds (`amxb_call(..., 5)`), so each returns.
- Sfp: `WF_vars(_update_network_selector)`, the event loop again.

Autosensing, IpMode and StaticRoutes have safety properties only and state no fairness.

## Proofs

All theorems hold for every set of modes, physical types and lists, and every
bound.

*WanModeProofs.* `TypeCorrect`, `StatusIsTrue`, `DisabledLeavesNothing` and
`ApplyIsNotLost` need no assumption on the environment. The invariant behind them is
StatusInv: Status is true, and a broken mode is never set up; without the last part
a broken mode that was set up would be torn down only in Status. A refused DisablePort
does just that, so DisabledIsTornDown excepts bridged modes where it may happen.
`OneEventWaits`, `ConfigurationFollowsList` and `TypesAreNotShared` are for a well-behaved environment
(`WellBehaved`: only benign disturbances, no broken mode; so neither SharedType nor
PortRefused, while modes without type are allowed). Their invariant is
CalmInv: at most one event is queued, it is the last word on `WANMode`, and until it
is handled everything set up belongs to its old or its new list, of which the old
one can be torn down (PendingInv). No list in play is one of `Overlooked`, so that what
check_wan_mode accepted is `Consistent`. OnlyListedModesConfigured says nothing while an
event is queued, so it is not inductive alone. The proof has one lemma per action.

*WanModeRefinement.* `KeepsPromise`: WanMode implements Manager when `WellBehaved`
holds. CalmInv and StatusInv make each step a step of Manager or a stutter:
because the one queued event is the last word, its handler finds `asked` in
`WANMode` and `before` in the event; because the old list can be torn down, a failure
of wan_mode_set can only come after everything dropped is gone (`SetOutcome`),
so that what is left is Success or Failure of Manager. `NothingElseTornDown` and
`UplinkStaysOn` come from the same outcome: for the second, a dropped mode cannot
share the type of a mode that is kept, and every switching off comes before the
first switching on.

*ManagerProofs.* `PromiseKept`: what a client may conclude from Manager, and so from
WanMode, without reading either.

*AutosensingProofs.* Every action changes the flags in one of four ways
(`FlagStep`) and the queries in one of three (`QueryStep`). What these preserve is
proved once, and each action is shown to be one of each; this gives types,
`SensingNeverClashes`, `UpFlagIsTrue` and `ManualStopsSensing` for all faults.
`ContinuousNeverIdle` is for `Faults = {}`, so with a network selector that sets modes in
Manual only. NeverIdle is not inductive: a handled
change to Manual stops the module when OperationMode may be Automatic again, so
StopIsUndone says that a queued start follows every queued stop; and the loss of a
mode restarts the module only through its flag, so UpIsFlagged says that the flag
of every up mode is set. The faults are exactly the ways to break these.
`BootSensingEnds` and `StickyStartsOnLoss` are for all faults: an up flag implies that
`sensing_at_boot_finished` is set until the next restart, so `Startable` is false for
AtBoot whenever FixedAtBoot asks; and of the actions that may start the module, all
but the loss of a mode and the lower layer answer ask for Continuous.

*DnsProofs.* All theorems are for every fault. TurnInv is TypeOK with what a turn
needs to stay inside its sequences: the interface worked on exists while the phase
is about one. RelayInv adds to AllRemovable that a successful unset
leaves the counter at zero (so that UnsetEmpties follows). SetInv says
that the servers before `server` are in the relay while an interface is being
added: they carry the numbers just below the counter, so a later SetForwarding
overwrites none of them; at the end of the interface this is LastInterfaceRelayed.

*SfpProofs.* The invariants are inductive once TypeOK is known. For
FlagMeansRemoved the point is that a report of no SFP updates every mode to the
empty string, whereas the early return of update_sfp_type, which leaves the flag
alone, needs a mode that holds the type. `SfpModesAgree` assumes one cage, without
which it is false.

*IpModeProofs.* The invariants are about what folds of writes over sequences leave
behind, so the module starts with what the prover lacks. The library's induction
theorems take an operator and cannot be used; `SetInduction` gets induction on the
numbers from the pigeonhole principle instead (a set that is closed under successor
and leaves out n would map 0 .. n one to one into itself without 0), and `Flatten`
and `LastIsLast` rest on it. `Effects` is the effect of a turn without CHOOSE.

`NothingStaysOn` is by LeftInv: what is on belongs to the current IP modes or to the
old mode of a queued change (`OnInv`); that alone is not inductive, since a WANMode
event must be the only one of its kind, first and up to date (`QueueInv`), and Status
must say Disabled exactly when nothing is set up (`StatusInv`). That a disable takes
back what an enable of the same mode did is shown handler by handler (`Undone`) and
joined over the table of mode_ctrl.c (`ModeUndone`). Disabling is by the old value of
one mode and the current value of the other, so a bridge without IP modes is left
over when both were none; BridgedModes covers that case.

`InterfaceTypeCorrect` has no hypothesis. `TypeInv` bounds the values in `setup` by
what enabling without a refusal writes; the point is the override of PPP, which a
refusal changes from one such value to another (`ValuesOn`).

`InterfaceFollowsItsModes` adds FollowsInv to LeftInv: FollowsModes for every state in
which no change of an IP mode waits. Handlers of both versions write the same
parameters, one write may be refused, and Status says Enabled whatever a handler
returns, so why are the values right when no parameter is unsure? Most scripts are
`Robust`: the parameters that take several values (LowerLayers, Interface, the static
prefix and address) come before every setting, so that a refusal either hits such a
parameter, which is then unsure, or comes too late to matter; all other parameters have
one value wherever they are written (`Usual`). Two scripts are not: PPP writes its
credentials before it puts itself below IP, and DS-Lite binds the DHCPv6 client after
it enabled DS-Lite and PCP. Each also writes a parameter that no other script writes,
a mark (IPCPEnable or IPv6CPEnable of PPP, Enable of the PCP client), which stays
unsure when the script is stopped before it (`SureOverride`, `SureSpecial`).

Both `NothingStaysOn` and `InterfaceFollowsItsModes` are for `Disturbances = {}`, as
MCIpMode checks them: each disturbance breaks both.

*StaticRoutesProofs.* `OneRouteFollows`: with one interface and no failure, the
route is there exactly while the static layer is enabled. KeptRouteLost shows that two
interfaces break it.

Only model-checked: the liveness properties EventsAreHandled, RefusedWriteIsUndone,
TurnsEnd and PluggedIsDetected (liveness is out of the prover's reach). Every safety
property of a passing run is stated by a theorem.

## Plan

Done: mode lists, the WAN mode core, its abstract specification and the refinement,
the core's side of autosensing, DNS, SFP and network selector, the layers of all IP
modes, the IP modes of an interface, the static IPv6 routes, the theorems above, and that
every mode disables what it enables. Left, in this order:

1. A composition of WanMode and Autosensing on a common list and common queries.
2. The creation of the VLAN termination and the search of the management port, with
   their failures.
3. The calls that tell the autosensing module of physical interfaces, with what it
   may do inside them.

Not modelled: getWANMode (reads only), the text of names and paths, memory
(destructors), the NetModel flags, module loading, the VLAN
termination before it exists, the C preprocessor's variants.
