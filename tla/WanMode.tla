-------------------------------- MODULE WanMode --------------------------------
(***************************************************************************)
(* The core of the WAN manager: the list of active WAN modes in the data   *)
(* model, the change events it raises, and the procedure that tears the    *)
(* dropped modes down and sets the added ones up.                          *)
(*                                                                         *)
(* The plug-in is single threaded.  An action below is one turn of its     *)
(* event loop: an RPC, a write of a parameter, a queued change event, a    *)
(* NetModel answer, or a call of an extension module.  A change of the     *)
(* data model raises an event that carries the old and the new value and   *)
(* is handled in a later turn, when the data model already holds the new   *)
(* value or a newer one.                                                   *)
(*                                                                         *)
(* Disturbances names what the environment may do beyond a well-behaved    *)
(* client; each guard that it lifts says so.                               *)
(***************************************************************************)
EXTENDS ModeList

CONSTANTS
    Broken,        \* modes with an interface that has no IP mode and no bridge
    Bridged,       \* modes with an interface in a bridge
    SkipDisable,   \* modes with SkipDisableUpstreamIntf
    Switchable,    \* physical types with an entry in upstream_toggle
    SystemModule,  \* mod-wanmgr-system is loaded
    Disturbances,  \* liberties of the environment, a subset of AllDisturbances
    MaxEvents      \* bound on the queue of change events

\* check_sfp or request-system-update fails: the properties of a well-behaved
\* environment survive these two.
Benign == {"SfpUnreadable", "UpdateFails"}

AllDisturbances == Benign \cup {
    "Burst",             \* a request while change events are queued
    "EarlyRequest",      \* a request before the active modes' lower layers are known
    "UnknownName",       \* a direct write of a list with an unknown name
    "WriteInAutomatic",  \* a direct write of WANMode while autosensing owns it
    "Rewire",            \* a change of PhysicalType or PhysicalReference
    "SharedType",        \* a list with two modes of a type behind one without type
    "DnsOutage",         \* the DNS plug-in does not answer
    "PortRefused",       \* Bridging refuses AddPort or DisablePort
    "Crash"}             \* a restart that loses queued change events

ASSUME BrokenAssumption == Broken \subseteq Modes
ASSUME BridgedAssumption == Bridged \subseteq Modes
ASSUME SkipDisableAssumption == SkipDisable \subseteq Modes
ASSUME SwitchableAssumption == Switchable \subseteq PhysTypes
ASSUME SystemModuleAssumption == SystemModule \in BOOLEAN
ASSUME DisturbancesAssumption == Disturbances \subseteq AllDisturbances
ASSUME MaxEventsAssumption == MaxEvents \in Nat \ {0}

VARIABLES
    wanMode,     \* WANManager.WANMode
    opMode,      \* WANManager.OperationMode
    apply,       \* WANManager.ApplyAtNextBoot
    status,      \* WAN.{i}.Status
    lowerLayer,  \* modes whose lower layer NetModel has told
    configured,  \* modes whose interfaces are set up
    upstream,    \* physical types whose upstream interface is switched on
    monitored,   \* modes whose IsUp queries are open
    sensing,     \* the autosensing module is running
    events       \* queued dm:object-changed events of WANManager.

dm == <<wanMode, opMode, apply>>
setup == <<status, configured, upstream, monitored>>
vars == <<wanMode, opMode, apply, status, lowerLayer, configured, upstream,
          monitored, sensing, events>>

OperationModes == {"Manual", "Automatic"}
Statuses == {"Enabled", "Disabled", "Error"}

\* op is "same" when the transaction left OperationMode alone; from = to when
\* it left WANMode alone.
Event == [from : Values, to : Values, op : OperationModes \cup {"same"}]

TypeOK ==
    /\ wanMode \in Values
    /\ opMode \in OperationModes
    /\ apply \in BOOLEAN
    /\ status \in [Modes -> Statuses]
    /\ lowerLayer \subseteq Modes
    /\ configured \subseteq Modes
    /\ upstream \subseteq PhysTypes
    /\ monitored \subseteq Modes
    /\ sensing \in BOOLEAN
    /\ events \in Seq(Event)

\* The types that toggle_upstream_intf switches: there is one port of each type,
\* and types without an entry have a dummy function.
TypesOf(modes) == {physical[m] : m \in modes} \cap Switchable

-----------------------------------------------------------------------------
(* Start.  WANMode, OperationMode, ApplyAtNextBoot and Status are          *)
(* persistent, and so is what the plug-in wrote in other components: any   *)
(* part of the stored list may be set up already.                          *)

Init ==
    /\ wanMode \in {list \in Accepted : Range(list) \subseteq Modes}
    /\ wanMode \notin Overlooked \/ "SharedType" \in Disturbances
    /\ opMode \in OperationModes
    /\ apply \in BOOLEAN
    /\ configured \in SUBSET (Range(wanMode) \ Broken)
    /\ status = [m \in Modes |->
          IF m \in configured THEN "Enabled" ELSE "Disabled"]
    /\ upstream = TypesOf(configured)
    /\ lowerLayer = {}
    /\ monitored = {}
    /\ sensing = FALSE
    /\ events = << >>

-----------------------------------------------------------------------------
(* Data model transactions.                                                *)

\* The event a transaction raises: none when no parameter changed.
Changed ==
    IF wanMode' = wanMode /\ opMode' = opMode
    THEN << >>
    ELSE << [from |-> wanMode, to |-> wanMode',
             op |-> IF opMode' = opMode THEN "same" ELSE opMode'] >>

\* wan_mode_dm_set refuses an invalid list and changes nothing then.
Settable == {list \in Accepted : is_valid_mode_list(list)}

wan_mode_dm_set(list, op) ==
    /\ wanMode' = IF list \in Settable THEN list ELSE wanMode
    /\ opMode' = IF list \in Settable THEN op ELSE opMode

-----------------------------------------------------------------------------
(* wan_mode_enable on several modes.                                       *)

\* What may fail in one turn: the bridge port of a mode is not disabled or not
\* added, the DNS plug-in or the system module reports an error.
Refusals == IF "PortRefused" \in Disturbances THEN SUBSET Bridged ELSE {{}}
DnsOutcomes == IF "DnsOutage" \in Disturbances THEN BOOLEAN ELSE {FALSE}
UpdateOutcomes == IF "UpdateFails" \in Disturbances THEN BOOLEAN ELSE {FALSE}
SfpOutcomes == IF "SfpUnreadable" \in Disturbances THEN BOOLEAN ELSE {TRUE}

Faults == [notDisabled : Refusals, notAdded : Refusals,
           dnsDown : DnsOutcomes, updateFails : UpdateOutcomes]

\* Faulty variant: an unknown lower layer goes unnoticed.
Unusable_without_layer(known, refused, dnsDown) ==
    Broken \cup refused \cup (IF dnsDown THEN Names ELSE {})

\* Modes that wan_mode_enable fails on: their lower layer is not known, an
\* interface has nothing to set up or its bridge port is refused, or the DNS
\* plug-in is away.
Unusable(known, refused, dnsDown) ==
    (Names \ known) \cup Broken \cup refused \cup (IF dnsDown THEN Names ELSE {})

\* Faulty variant: the set up comes first.
Switched_backwards(torn, powered) ==
    (upstream \cup TypesOf(powered)) \ TypesOf(torn \ SkipDisable)

\* Every tear down comes before the first set up.
Switched(torn, powered) ==
    (upstream \ TypesOf(torn \ SkipDisable)) \cup TypesOf(powered)

\* What is monitored once the queries of the listed modes are closed: the data
\* model tells which those are.
nm_close_sensing_queries == monitored \ KnownPrefix(wanMode)

\* Faulty variant: the missing instance goes unnoticed.
nm_query_mode_active_any_name(list) == Range(list)

\* The modes whose queries are opened when the data model holds list.
nm_query_mode_active(list) == KnownPrefix(list)

(***************************************************************************)
(* wan_mode_set(new, active): tear down what is only in active, write new, *)
(* set up what is only in new; everything when the lists are equal.  The   *)
(* first failure ends it, and then every mode of new gets Status Error;    *)
(* a name without instance that follows a tear down ends it as a success.  *)
(* Status Disabled is written before an interface is torn down, and only   *)
(* when all are, the queries of the modes that the data model lists at     *)
(* that moment are closed and the upstream interface is switched off, even *)
(* if the DNS plug-in is away.                                             *)
(***************************************************************************)
wan_mode_set(new, active, faults) ==
    LET notDown == Unusable(lowerLayer, faults.notDisabled, faults.dnsDown)
        notUp   == Unusable(lowerLayer, faults.notAdded, faults.dnsDown)
    IN  \E dropped \in {Reached(active, Rest(active, new), notDown)},
           added \in {Reached(new, Rest(new, active), notUp)} :
        LET disabled == dropped \cap lowerLayer
            torn     == disabled \ (Broken \cup faults.notDisabled)
            silent   == Unknown \in dropped /\ dropped # {Unknown}
            written  == dropped \cap notDown = {} /\ new \in Settable
            powered  == IF written THEN added \cap lowerLayer ELSE {}
            up       == powered \ (Broken \cup faults.notAdded)
            failed   == ~silent /\
                        \/ ~written
                        \/ added \cap notUp # {}
                        \/ /\ faults.updateFails /\ SystemModule
                           /\ wan_mode_different_physical_type(active, new)
        IN  IF new = << >> \/ active = << >>
            THEN UNCHANGED <<wanMode, setup>>
            ELSE /\ wanMode' = IF written THEN new ELSE wanMode
                 /\ configured' = (configured \ torn) \cup up
                 /\ upstream' = Switched(torn, powered)
                 /\ monitored' =
                      (IF torn = {} THEN monitored ELSE nm_close_sensing_queries)
                      \cup (IF up = {} THEN {} ELSE nm_query_mode_active(new))
                 /\ status' = [m \in Modes |->
                      IF failed /\ m \in Range(new) THEN "Error"
                      ELSE IF ~failed /\ m \in up THEN "Enabled"
                      ELSE IF m \in disabled THEN "Disabled" ELSE status[m]]

SetModes(new, active) ==
    \E faults \in Faults : wan_mode_set(new, active, faults)

-----------------------------------------------------------------------------
(* The queue of change events.                                             *)

\* Faulty variants: the list to tear down is read from the data model; the two
\* lists of the event are swapped; an invalid list is left in place.
_set_wan_mode_from_dm(event) ==
    IF event.from = event.to \/ opMode = "Automatic" \/ ~is_valid_mode_list(event.to)
    THEN UNCHANGED <<wanMode, setup>>
    ELSE SetModes(event.to, wanMode)

_set_wan_mode_swapped(event) ==
    IF event.from = event.to \/ opMode = "Automatic" \/ ~is_valid_mode_list(event.from)
    THEN UNCHANGED <<wanMode, setup>>
    ELSE SetModes(event.from, event.to)

_set_wan_mode_no_rollback(event) ==
    IF event.from = event.to \/ opMode = "Automatic" \/ ~is_valid_mode_list(event.to)
    THEN UNCHANGED <<wanMode, setup>>
    ELSE SetModes(event.to, event.from)

\* _set_wan_mode.  It is not called when the signal leaves WANMode alone.
_set_wan_mode(event) ==
    IF event.from = event.to \/ opMode = "Automatic"
    THEN UNCHANGED <<wanMode, setup>>
    ELSE IF is_valid_mode_list(event.to)
    THEN SetModes(event.to, event.from)
    ELSE /\ wan_mode_dm_set(event.from, opMode)
         /\ UNCHANGED setup

\* _update_autosensing, the second subscriber of the same signal.  A change
\* to Automatic starts the module or not, by policy and lower layers.
_update_autosensing(event) ==
    sensing' \in IF event.op = "Manual" THEN {FALSE}
                ELSE IF event.op = "Automatic" /\ opMode = "Automatic"
                THEN {sensing, TRUE}
                ELSE {sensing}

HandleEvent ==
    /\ events # << >>
    /\ _set_wan_mode(Head(events))
    /\ _update_autosensing(Head(events))
    /\ UNCHANGED <<opMode, apply, lowerLayer>>
    /\ events' = Tail(events) \o Changed

-----------------------------------------------------------------------------
(* Requests of clients.                                                    *)

\* A well-behaved requester lets queued events be handled first.
Calm == "Burst" \in Disturbances \/ events = << >>

\* It also waits until the lower layers of the active modes are known.
LayersKnown ==
    \/ "EarlyRequest" \in Disturbances
    \/ Range(wanMode) \cap Modes \subseteq lowerLayer

Request == Calm /\ Len(events) < MaxEvents

\* manipulate_mode without Autosensing, for a list that is not NULL: sensing
\* is stopped before the data model accepts or refuses the list.
manipulate_mode(list) ==
    /\ Request
    /\ LayersKnown
    /\ list \notin Overlooked \/ "SharedType" \in Disturbances
    /\ wan_mode_dm_set(list, "Manual")
    /\ sensing' = (sensing /\ opMode = "Manual")
    /\ UNCHANGED <<apply, setup, lowerLayer>>
    /\ events' = events \o Changed

_setWANMode(arg) ==
    arg # << >> /\ manipulate_mode(change_wan_mode_values(wanMode, arg, "SET_MODE"))

_WANModeEnable(arg) ==
    arg # << >> /\ manipulate_mode(change_wan_mode_values(wanMode, arg, "ADD_MODE"))

_WANModeDisable(arg) ==
    arg # << >> /\ manipulate_mode(change_wan_mode_values(wanMode, arg, "REM_MODE"))

\* The same functions with an empty list, or with Autosensing: OperationMode
\* alone is written.
SetOperationMode(op) ==
    /\ Request
    /\ opMode' = op
    /\ sensing' = (sensing /\ (op = "Automatic" \/ opMode = "Manual"))
    /\ UNCHANGED <<wanMode, apply, setup, lowerLayer>>
    /\ events' = events \o Changed

\* A write of the parameter; the validate actions alone guard it.
WriteWANMode(list) ==
    /\ Request
    /\ LayersKnown
    /\ opMode = "Manual" \/ "WriteInAutomatic" \in Disturbances
    /\ Range(list) \subseteq Modes \/ "UnknownName" \in Disturbances
    /\ list \notin Overlooked \/ "SharedType" \in Disturbances
    /\ list \in Accepted
    /\ wanMode' = list
    /\ UNCHANGED <<opMode, apply, setup, lowerLayer, sensing>>
    /\ events' = events \o Changed

\* A write of OperationMode: sensing goes on until the event is handled.
WriteOperationMode(op) ==
    /\ Request
    /\ opMode' = op
    /\ UNCHANGED <<wanMode, apply, setup, lowerLayer, sensing>>
    /\ events' = events \o Changed

WriteApplyAtNextBoot ==
    /\ Request
    /\ apply' = TRUE
    /\ UNCHANGED <<wanMode, opMode, setup, lowerLayer, sensing, events>>

_Reset ==
    /\ Request
    /\ LayersKnown
    /\ SetModes(wanMode, wanMode)
    /\ UNCHANGED <<opMode, apply, lowerLayer, sensing>>
    /\ events' = events \o Changed

-----------------------------------------------------------------------------
(* NetModel.                                                               *)

(***************************************************************************)
(* The lower layer query of mode m answers, for the first time or again:   *)
(* wan_manager_found_ll with the physical type of m.  sfpOk is the outcome *)
(* of check_sfp.  To apply the stored list, the modes of that type are     *)
(* enabled; the first unknown name or mode without type ends the function. *)
(***************************************************************************)
wan_manager_found_ll(m, sfpOk, refused, dnsDown) ==
    LET known     == lowerLayer \cup {m}
        typed     == Modes \ Untyped
        current   == Reached(wanMode, DOMAIN wanMode, Names \ typed) \cap typed
        matching  == {n \in current : physical[n] = physical[m]}
        powered   == matching \cap known
        up        == powered \ (Broken \cup refused)
        enabled   == matching \ Unusable(known, refused, dnsDown)
        manual    == sfpOk /\ opMode = "Manual"
        applies   == manual /\ apply
    IN  /\ lowerLayer' = known
        /\ configured' = configured \cup (IF applies THEN up ELSE {})
        /\ upstream' = upstream \cup (IF applies THEN TypesOf(powered) ELSE {})
        /\ monitored' = monitored \cup
             (IF manual /\ (apply => up # {})
              THEN nm_query_mode_active(wanMode) ELSE {})
        /\ status' = [n \in Modes |->
             IF applies /\ n \in matching
             THEN IF n \in enabled THEN "Enabled" ELSE "Error"
             ELSE status[n]]
        /\ apply' = (apply /\ ~(applies /\ enabled # {}
                                /\ Range(wanMode) \subseteq typed))
        /\ sensing' \in (IF sfpOk /\ opMode = "Automatic"
                         THEN {sensing, TRUE} ELSE {sensing})

LowerLayerFound(m) ==
    /\ \E sfpOk \in SfpOutcomes, refused \in Refusals, dnsDown \in DnsOutcomes :
          wan_manager_found_ll(m, sfpOk, refused, dnsDown)
    /\ UNCHANGED <<wanMode, opMode, events>>

\* A change of PhysicalType or PhysicalReference reopens the query, with no
\* answer yet (_dm_wan_manager_physical_type_changed).
Rewire(m) ==
    /\ "Rewire" \in Disturbances
    /\ lowerLayer' = lowerLayer \ {m}
    /\ UNCHANGED <<dm, setup, sensing, events>>

-----------------------------------------------------------------------------
(* Extension modules.                                                      *)

\* mod_autosensing_start refuses unless OperationMode is Automatic.
SensingStarts ==
    /\ opMode = "Automatic"
    /\ sensing' = TRUE
    /\ UNCHANGED <<dm, setup, lowerLayer, events>>

SensingStops ==
    /\ sensing' = FALSE
    /\ UNCHANGED <<dm, setup, lowerLayer, events>>

\* autosensing_set_wan_mode: the running module tries a mode.
SensingSetsMode(m) ==
    /\ sensing
    /\ Request
    /\ LayersKnown
    /\ SetModes(<<m>>, wanMode)
    /\ UNCHANGED <<opMode, apply, lowerLayer, sensing>>
    /\ events' = events \o Changed

\* autosensing_is_up_query_stop
SensingClosesQueries ==
    /\ sensing
    /\ monitored' = nm_close_sensing_queries
    /\ UNCHANGED <<dm, status, configured, upstream, lowerLayer, sensing, events>>

\* network_selector_set_wan_mode, for a mode it does not report as enabled:
\* it looks at no OperationMode.
NetworkSelectorSetsMode(m) ==
    /\ Request
    /\ LayersKnown
    /\ SetModes(<<m>>, wanMode)
    /\ UNCHANGED <<opMode, apply, lowerLayer, sensing>>
    /\ events' = events \o Changed

-----------------------------------------------------------------------------
\* Faulty variant: Status is not persistent.
Restart_forgets_status ==
    /\ Calm \/ "Crash" \in Disturbances
    /\ status' = [m \in Modes |-> "Disabled"]
    /\ lowerLayer' = {} /\ monitored' = {} /\ sensing' = FALSE /\ events' = << >>
    /\ UNCHANGED <<dm, configured, upstream>>

\* The process ends and starts again: what is not persistent is lost.
Restart ==
    /\ Calm \/ "Crash" \in Disturbances
    /\ lowerLayer' = {}
    /\ monitored' = {}
    /\ sensing' = FALSE
    /\ events' = << >>
    /\ UNCHANGED <<dm, status, configured, upstream>>

ClientStep ==
    \/ \E list \in Values :
          \/ _setWANMode(list)
          \/ _WANModeEnable(list)
          \/ _WANModeDisable(list)
          \/ WriteWANMode(list)
    \/ \E op \in OperationModes : SetOperationMode(op) \/ WriteOperationMode(op)
    \/ WriteApplyAtNextBoot
    \/ _Reset

NetModelStep == \E m \in Modes : LowerLayerFound(m) \/ Rewire(m)

ModuleStep ==
    \/ SensingStarts
    \/ SensingStops
    \/ SensingClosesQueries
    \/ \E m \in Modes : SensingSetsMode(m) \/ NetworkSelectorSetsMode(m)

Next == HandleEvent \/ ClientStep \/ NetModelStep \/ ModuleStep \/ Restart

Spec == Init /\ [][Next]_vars /\ WF_vars(HandleEvent)

-----------------------------------------------------------------------------
(* Properties that hold whatever the environment does.                     *)

\* A mode that Status shows as Enabled is set up: no handler announces a mode
\* it has not configured, and none takes the configuration away and leaves
\* the announcement (wan_mode_enable, wan_mode_set, wan_manager_found_ll).
EnabledIsConfigured ==
    \A m \in Modes : status[m] = "Enabled" => m \in configured

\* A mode that Status shows as Disabled has nothing left in place, although
\* wan_mode_enable writes the status before it tears anything down, unless its
\* bridge port was not disabled.
DisabledIsTornDown ==
    \A m \in Modes : status[m] = "Disabled" /\ m \in configured =>
        m \in Bridged /\ "PortRefused" \in Disturbances

-----------------------------------------------------------------------------
(* Properties under a well-behaved environment.                            *)

\* Once the change events are handled, only listed modes are set up: nothing
\* of a dropped mode is left behind (wan_mode_set is given the right list to
\* tear down whichever way the change was asked for).
OnlyListedModesConfigured ==
    events = << >> => configured \subseteq Range(wanMode)

\* "With the limitation of one physical type at a time" (README.md:138), of
\* the modes that are really set up and not only of the list.
OneModePerPhysicalType ==
    events = << >> =>
        \A m, n \in configured \ Untyped : physical[m] = physical[n] => m = n

\* The upstream interface of an enabled mode, of a type that can be switched, is
\* on: switching off the one of
\* a dropped mode never hits a mode that shares it and is kept or added.
UplinkOfEnabledModeIsOn ==
    \A m \in Modes :
        status[m] = "Enabled" /\ physical[m] \in Switchable => physical[m] \in upstream

\* A mode loses its configuration only when it is no longer listed: no
\* request on other modes and no answer of NetModel tears it down.
TornDownOnlyWhenDropped ==
    [][\A m \in configured \ configured' : m \notin Range(wanMode')]_vars

\* ApplyAtNextBoot is cleared only by a turn that enables a listed mode: the
\* request to apply the stored list is not lost by a turn that failed.
ClearedOnlyWhenApplied ==
    [][apply /\ ~apply' =>
         \E m \in Range(wanMode) \cap Modes :
             m \in configured' /\ status'[m] = "Enabled"]_vars

\* Change events do not breed: the rewrites of WANMode by their handlers die
\* out and the queue empties, again and again.
EventsAreHandled == []<>(events = << >>)

\* A direct write that names an unknown mode, or none, is undone: WANMode goes
\* back to the list it replaced.
RefusedWriteIsUndone ==
    \A list \in {l \in Values : is_valid_mode_list(l)} :
        /\ events # << >>
        /\ opMode = "Manual"
        /\ Head(events).from = list
        /\ ~is_valid_mode_list(wanMode)
        ~> wanMode = list

-----------------------------------------------------------------------------
(* The abstract specification.                                             *)

\* The list whose replacement is pending.  In Automatic the handler of a
\* change does nothing: whoever wrote the list has carried it out.
Replaced ==
    IF events = << >> \/ opMode = "Automatic" THEN wanMode ELSE Head(events).from

M == INSTANCE Manager WITH asked <- Range(wanMode), before <- Range(Replaced),
                           inPlace <- configured, shown <- status

\* Every turn of the event loop is a step of the promise to the client, or
\* none: a request is carried out once, whole or with an Error on all its
\* modes, common modes are left alone, dropped ones are gone although their
\* handler runs later.
ImplementsManager == M!Spec

-----------------------------------------------------------------------------
(* Inductive invariants.                                                   *)

\* Status tells the truth, and a broken mode is never set up.
StatusInv ==
    /\ EnabledIsConfigured
    /\ DisabledIsTornDown
    /\ configured \cap Broken = {}

\* A change event that is waiting for its handler is the last word on WANMode,
\* and what is set up belongs to its two lists; all of the old list can be torn
\* down.
PendingInv(e) ==
    /\ e.to = wanMode
    /\ Range(e.from) \subseteq Modes
    /\ Consistent(e.from)
    /\ configured \subseteq Range(e.from) \cup Range(wanMode)
    /\ opMode = "Automatic" => configured \subseteq Range(wanMode)
    /\ opMode = "Manual" /\ e.from # e.to => Range(e.from) \subseteq lowerLayer

\* At most one event waits, and without one only listed modes are set up.
CalmInv ==
    /\ Range(wanMode) \subseteq Modes
    /\ Consistent(wanMode)
    /\ OnlyListedModesConfigured
    /\ events # << >> => Len(events) = 1 /\ PendingInv(Head(events))

-----------------------------------------------------------------------------
(* What the documentation says and the code does not do.                   *)

\* "WANManager.WANModeEnable() and WANManager.WANModeDisable() can be used to
\* enable/disable a particular WANMode without touching other active WANModes"
\* (README.md:149): a mode in the old and in the new list stays monitored.
KeptModesStayMonitored ==
    [][HandleEvent =>
         Range(Head(events).from) \cap Range(Head(events).to) \cap monitored
           \subseteq monitored']_vars

\* A boot with nothing but answers of NetModel.
BootInit == Init /\ apply /\ opMode = "Manual" /\ configured = {}

BootSpec == BootInit /\ [][\E m \in Modes : LowerLayerFound(m)]_vars

\* "When this parameter is set to true, the wan mode will be applied at boot.
\* After applying the config, this parameter will be set to false."
\* (wan-manager_definition.odl:31): once the parameter is cleared and NetModel
\* has answered for every listed mode, all of them are set up.
AppliedAtBoot ==
    ~apply /\ Range(wanMode) \subseteq lowerLayer => Range(wanMode) \subseteq configured
=============================================================================
