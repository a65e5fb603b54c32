----------------------------- MODULE Autosensing -----------------------------
(***************************************************************************)
(* The core's side of autosensing: when the autosensing module is started  *)
(* and stopped, and which NetModel queries are open meanwhile.  WANMode    *)
(* and what wan_mode_set does to it are module WanMode's; here a list is   *)
(* the set of its modes, and of wan_mode_set only the effect on the        *)
(* queries is left.                                                        *)
(*                                                                         *)
(* NetModel answers a query from within the call that opens it, and again  *)
(* whenever the answer changes.  Every mode has one interface; Needed      *)
(* tells which IP versions must be up for the mode to be up.               *)
(***************************************************************************)
EXTENDS Naturals, Sequences

CONSTANTS
    Modes,     \* the instances of WANManager.WAN.
    Versions,  \* ipversion_t
    Needed,    \* ipv4_needed and ipv6_needed of every mode
    Policies,  \* values of SensingPolicy that clients write
    Faults,    \* what goes wrong or interferes, a subset of AllFaults
    MaxEvents  \* bound on the queue of change events

AllFaults == {
    "Reset",           \* WANManager.Reset() while OperationMode is Automatic
    "RefusedRequest",  \* an RPC with a list that the data model refuses
    "SfpUnreadable",   \* check_sfp fails
    "StartFails",      \* the module refuses to start
    "SfpDetected",     \* the SFP module reports an SFP, which stops sensing
    "SetFails",        \* the module gives up because it cannot set a mode
    "Rewire",          \* a mode that is up is wired to another interface
    "NetworkSelector"} \* the network selector sets a mode in Automatic

AllPolicies == {"AtBoot", "Continuous", "Sticky"}

ASSUME NeededAssumption == Needed \in [Modes -> (SUBSET Versions) \ {{}}]
ASSUME PoliciesAssumption == Policies \subseteq AllPolicies
ASSUME FaultsAssumption == Faults \subseteq AllFaults
ASSUME MaxSensingEventsAssumption == MaxEvents \in Nat \ {0}

VARIABLES
    opMode,        \* WANManager.OperationMode
    policy,        \* WANManager.SensingPolicy
    marked,        \* modes with EnableSensing
    listed,        \* the modes in WANManager.WANMode
    path,          \* modes whose upstream_intf_path is known
    layer,         \* modes whose lower_layer is known
    physUp,        \* modes whose q_phys_up is open
    open,          \* modes whose IsUp queries are open
    result,        \* ipv4_result and ipv6_result of every mode
    wasUp,         \* modes whose wan_mode_up flag is set
    bootFinished,  \* sensing_at_boot_finished
    sensing,       \* sensing_active
    events         \* queued dm:object-changed events

netmodel == <<path, layer>>
isUp == <<open, result, wasUp>>
flags == <<physUp, bootFinished, sensing>>
vars == <<opMode, policy, marked, listed, netmodel, isUp, flags, events>>

OperationModes == {"Manual", "Automatic"}

\* What a change event says: WANMode changed, OperationMode changed to Manual
\* or Automatic, both changed, or SensingPolicy, EnableSensing or
\* SensingPriority did.
SensingEvents == {"List", "Manual", "ListManual", "Automatic", "Update"}

\* A query of a physical interface refers to the path of its mode.
TypeOK ==
    /\ opMode \in OperationModes
    /\ policy \in AllPolicies
    /\ marked \subseteq Modes
    /\ listed \subseteq Modes
    /\ path \subseteq Modes
    /\ layer \subseteq Modes
    /\ physUp \subseteq path
    /\ open \subseteq Modes
    /\ result \in [Modes -> SUBSET Versions]
    /\ wasUp \subseteq Modes
    /\ bootFinished \in BOOLEAN
    /\ sensing \in BOOLEAN
    /\ events \in Seq(SensingEvents)

Init ==
    /\ opMode \in OperationModes
    /\ policy \in Policies
    /\ marked \in SUBSET Modes
    /\ listed \in SUBSET Modes
    /\ path = {} /\ layer = {} /\ physUp = {} /\ open = {} /\ wasUp = {}
    /\ result = [m \in Modes |-> {}]
    /\ bootFinished = FALSE
    /\ sensing = FALSE
    /\ events = << >>

-----------------------------------------------------------------------------
(* Starting and stopping the module.                                       *)

\* autosensing_can_start: every mode to be sensed has a lower layer.
autosensing_can_start(known) == marked \subseteq known

\* wan_mode_up
wan_mode_up(m, opened, answers) == m \in opened /\ Needed[m] \subseteq answers[m]

\* Faulty variant: OperationMode is not looked at.
Startable_in_manual == ~(policy = "AtBoot" /\ bootFinished) /\ ~sensing

\* mod_autosensing_start refuses in Manual, after AtBoot sensing, and when
\* already active.
Startable ==
    /\ opMode = "Automatic"
    /\ ~(policy = "AtBoot" /\ bootFinished)
    /\ ~sensing

\* Faulty variant: the physical queries stay open.
Started_keeps_queries ==
    /\ sensing' \in (IF "StartFails" \in Faults THEN BOOLEAN ELSE {TRUE})
    /\ UNCHANGED <<physUp, bootFinished>>

\* Its effect when it does not refuse: the physical queries are closed before
\* the module is asked.
Started ==
    /\ physUp' = {}
    /\ sensing' \in (IF "StartFails" \in Faults THEN BOOLEAN ELSE {TRUE})
    /\ UNCHANGED bootFinished

mod_autosensing_start == IF Startable THEN Started ELSE UNCHANGED flags

\* mod_autosensing_stop: the physical interface of every mode to be sensed is
\* watched from now on.
mod_autosensing_stop ==
    /\ physUp' = physUp \cup (marked \cap path)
    /\ sensing' = FALSE
    /\ UNCHANGED bootFinished

\* Faulty variant: only AtBoot remembers that a mode was found.
autosensing_found_mode_at_boot(watched) ==
    /\ physUp' = watched \cup (marked \cap path)
    /\ sensing' = FALSE
    /\ bootFinished' = (bootFinished \/ policy = "AtBoot")

\* autosensing_found_mode, and the stop that follows it.  watched are the modes
\* whose physical queries are open then.
autosensing_found_mode(watched) ==
    /\ physUp' = watched \cup (marked \cap path)
    /\ sensing' = FALSE
    /\ bootFinished' = TRUE

\* update_operation_mode.  override stands for a turn that found a lower layer.
update_operation_mode(op, override, known) ==
    CASE op = "Manual" -> mod_autosensing_stop
      [] /\ op = "Automatic"
         /\ autosensing_can_start(known)
         /\ override \/ policy = "Continuous" -> mod_autosensing_start
      [] OTHER -> UNCHANGED flags

\* Faulty variant: only AtBoot is told apart.
update_sensing_but_at_boot ==
    IF opMode = "Automatic" /\ autosensing_can_start(layer)
    THEN IF policy # "AtBoot" THEN Started ELSE mod_autosensing_stop
    ELSE UNCHANGED flags

\* update_sensing: stop, and start again when sensing is continuous.
update_sensing ==
    IF opMode = "Automatic" /\ autosensing_can_start(layer)
    THEN IF policy = "Continuous" THEN Started ELSE mod_autosensing_stop
    ELSE UNCHANGED flags

-----------------------------------------------------------------------------
(* IsUp queries.                                                           *)

\* Faulty variant: closing the queries leaves the wan_mode_up flag.
nm_query_mode_active_keeps_flag(list, closed) ==
    \E first \in [list -> SUBSET Versions] :
        /\ \A m \in list : first[m] \subseteq Needed[m]
        /\ open' = (open \ closed) \cup list
        /\ result' = [m \in Modes |->
             IF m \in list THEN first[m] ELSE IF m \in closed THEN {} ELSE result[m]]
        /\ wasUp' = (wasUp \ list) \cup {m \in list : wan_mode_up(m, open', result')}

\* nm_close_sensing_queries for the modes of closed, then nm_query_mode_active
\* for the modes of list: the new queries answer at once.
nm_query_mode_active(list, closed) ==
    \E first \in [list -> SUBSET Versions] :
        /\ \A m \in list : first[m] \subseteq Needed[m]
        /\ open' = (open \ closed) \cup list
        /\ result' = [m \in Modes |->
             IF m \in list THEN first[m] ELSE IF m \in closed THEN {} ELSE result[m]]
        /\ wasUp' = (wasUp \ (closed \cup list))
                       \cup {m \in list : wan_mode_up(m, open', result')}

\* An answer tells that a mode of list is up.
Found(list) == \E m \in list : wan_mode_up(m, open', result')

\* Modes of list whose wan_mode_up flag is still set when their queries open.
Reopened(list, closed) == (wasUp \ closed) \cap list

\* The first of several answers tells that such a mode is not up, and starts the
\* module.
StartedHalfway(list, closed) ==
    Startable /\ \E m \in Reopened(list, closed) : \A v \in Versions : Needed[m] # {v}

\* The same with what the answers start or stop.  A caller opens the queries of
\* several modes only in Manual or once the flags are cleared, and then only
\* the stop matters.
OpenQueries(list, closed) ==
    /\ nm_query_mode_active(list, closed)
    /\ IF Found(list)
       THEN autosensing_found_mode(IF StartedHalfway(list, closed) THEN {} ELSE physUp)
       ELSE IF Reopened(list, closed) # {} THEN mod_autosensing_start
       ELSE UNCHANGED flags

\* Tearing modes down closes the queries of all listed modes, if there is
\* anything to tear down.
Closings == {{}, listed}

\* The IsUp queries when wan_mode_set tears modes down and sets the modes of
\* up up.
wan_mode_set(closed, up) == OpenQueries(up, closed)

\* Faulty variant: a lost connection goes unnoticed.
nm_query_mode_active_handle_flags_up_only(m, version, active) ==
    /\ m \in open
    /\ result' = [result EXCEPT ![m] =
         IF active THEN @ \cup {version} ELSE @ \ {version}]
    /\ wasUp' = IF wan_mode_up(m, open, result') THEN wasUp \cup {m} ELSE wasUp \ {m}
    /\ IF m \in wasUp' THEN autosensing_found_mode(physUp) ELSE UNCHANGED flags
    /\ UNCHANGED <<opMode, policy, marked, listed, netmodel, open, events>>

\* nm_query_mode_active_handle_flags: an IsUp query of m answers.
nm_query_mode_active_handle_flags(m, version, active) ==
    /\ m \in open
    /\ result' = [result EXCEPT ![m] =
         IF active THEN @ \cup {version} ELSE @ \ {version}]
    /\ wasUp' = IF wan_mode_up(m, open, result') THEN wasUp \cup {m} ELSE wasUp \ {m}
    /\ IF m \in wasUp' THEN autosensing_found_mode(physUp)
       ELSE IF m \in wasUp THEN mod_autosensing_start
       ELSE UNCHANGED flags
    /\ UNCHANGED <<opMode, policy, marked, listed, netmodel, open, events>>
-----------------------------------------------------------------------------
(* Change events.                                                          *)

\* The queries that setting a part of the list up opens: all or none, and none
\* without a lower layer.
SetUps == {{}} \cup {list \in {listed} : list \cap layer # {}}

\* _set_wan_mode.  Which modes are torn down and set up is not modelled.
_set_wan_mode ==
    IF opMode = "Manual"
    THEN \E closed \in Closings, up \in SetUps : wan_mode_set(closed, up)
    ELSE UNCHANGED <<isUp, flags>>

\* _set_wan_mode, then _update_autosensing with Manual, for one signal.
ListThenManual ==
    /\ IF opMode = "Manual"
       THEN \E closed \in Closings, up \in SetUps :
               /\ nm_query_mode_active(up, closed)
               /\ bootFinished' = (bootFinished \/ Found(up))
       ELSE UNCHANGED <<isUp, bootFinished>>
    /\ physUp' = physUp \cup (marked \cap path)
    /\ sensing' = FALSE

HandleSensingEvent ==
    /\ events # << >>
    /\ events' = Tail(events)
    /\ CASE Head(events) = "List" -> _set_wan_mode
         [] Head(events) = "ListManual" -> ListThenManual
         [] Head(events) = "Update" -> update_sensing /\ UNCHANGED isUp
         [] OTHER -> update_operation_mode(Head(events), FALSE, layer) /\ UNCHANGED isUp
    /\ UNCHANGED <<opMode, policy, marked, listed, netmodel>>

-----------------------------------------------------------------------------
(* Requests of clients.                                                    *)

Room == Len(events) < MaxEvents

\* A write of OperationMode, and the RPCs with Autosensing.
WriteOperationMode(op) ==
    /\ Room
    /\ op # opMode
    /\ opMode' = op
    /\ events' = Append(events, op)
    /\ UNCHANGED <<policy, marked, listed, netmodel, isUp, flags>>

WriteSensingPolicy(p) ==
    /\ Room
    /\ p # policy
    /\ policy' = p
    /\ events' = Append(events, "Update")
    /\ UNCHANGED <<opMode, marked, listed, netmodel, isUp, flags>>

ToggleEnableSensing(m) ==
    /\ Room
    /\ marked' = IF m \in marked THEN marked \ {m} ELSE marked \cup {m}
    /\ events' = Append(events, "Update")
    /\ UNCHANGED <<opMode, policy, listed, netmodel, isUp, flags>>

ChangeSensingPriority ==
    /\ Room
    /\ events' = Append(events, "Update")
    /\ UNCHANGED <<opMode, policy, marked, listed, netmodel, isUp, flags>>

\* A write of WANMode.
WriteWANMode(list) ==
    /\ Room
    /\ list # listed
    /\ listed' = list
    /\ events' = Append(events, "List")
    /\ UNCHANGED <<opMode, policy, marked, netmodel, isUp, flags>>

\* manipulate_mode with a list: sensing stops before the list is looked at.
manipulate_mode(list, refused) ==
    /\ Room
    /\ refused => "RefusedRequest" \in Faults
    /\ IF opMode = "Automatic" THEN mod_autosensing_stop ELSE UNCHANGED flags
    /\ IF refused THEN UNCHANGED <<opMode, listed, events>>
       ELSE /\ opMode' = "Manual"
            /\ listed' = list
            /\ events' = events \o
                 CASE list # listed /\ opMode = "Automatic" -> <<"ListManual">>
                   [] list # listed /\ opMode = "Manual" -> <<"List">>
                   [] list = listed /\ opMode = "Automatic" -> <<"Manual">>
                   [] OTHER -> << >>
    /\ UNCHANGED <<policy, marked, netmodel, isUp>>

\* A list with an unknown lower layer is not torn down to the end.
_Reset ==
    /\ opMode = "Manual" \/ "Reset" \in Faults
    /\ IF listed \subseteq layer
       THEN wan_mode_set(listed, listed)
       ELSE \E closed \in Closings :
               /\ closed # {} => listed \cap layer # {}
               /\ wan_mode_set(closed, {})
    /\ UNCHANGED <<opMode, policy, marked, listed, netmodel, events>>

-----------------------------------------------------------------------------
(* NetModel and the autosensing module.                                    *)

\* nm_query_response_name_cb, or a PhysicalReference: the interface is known.
PathFound(m) ==
    /\ path' = path \cup {m}
    /\ UNCHANGED <<opMode, policy, marked, listed, layer, isUp, flags, events>>

\* nm_query_response_ll_cb and wan_manager_found_ll.
wan_manager_found_ll(m, sfpOk) ==
    /\ m \in path
    /\ sfpOk \/ "SfpUnreadable" \in Faults
    /\ layer' = layer \cup {m}
    /\ CASE sfpOk /\ opMode = "Automatic" ->
              update_operation_mode(opMode, TRUE, layer') /\ UNCHANGED isUp
         [] sfpOk /\ opMode = "Manual" ->
              \E up \in {{}, listed} : OpenQueries(up, {})
         [] OTHER -> UNCHANGED <<isUp, flags>>
    /\ UNCHANGED <<opMode, policy, marked, listed, path, events>>

\* Faulty variant: the query of the physical interface is not closed.
Rewire_keeps_query(m) ==
    /\ path' = path \ {m}
    /\ layer' = layer \ {m}
    /\ m \in wasUp => "Rewire" \in Faults
    /\ wasUp' = wasUp \ {m}
    /\ UNCHANGED <<opMode, policy, marked, listed, open, result, flags, events>>

\* PhysicalType or PhysicalReference changes: ll_queries_clean.
Rewire(m) ==
    /\ path' = path \ {m}
    /\ layer' = layer \ {m}
    /\ physUp' = physUp \ {m}
    /\ m \in wasUp => "Rewire" \in Faults
    /\ wasUp' = wasUp \ {m}
    /\ UNCHANGED <<opMode, policy, marked, listed, open, result, bootFinished,
                   sensing, events>>

IsUpAnswer ==
    \E m \in Modes : \E version \in Needed[m], active \in BOOLEAN :
        nm_query_mode_active_handle_flags(m, version, active)

\* wan_mode_set with a list of one mode, called by a module: the dropped modes
\* are torn down first, and the first that cannot be ends it.
SetOneMode(m) ==
    LET dropped == IF listed = {m} THEN {m} ELSE listed \ {m}
    IN  /\ Room
        /\ listed # {}
        /\ IF dropped \subseteq layer
           THEN /\ listed' = {m}
                /\ events' = IF listed = {m} THEN events ELSE Append(events, "List")
                /\ wan_mode_set(listed, IF m \in layer \ (listed \ dropped) THEN {m} ELSE {})
           ELSE /\ UNCHANGED <<listed, events>>
                /\ \E closed \in Closings :
                      /\ closed # {} => dropped \cap layer # {}
                      /\ wan_mode_set(closed, {})
        /\ UNCHANGED <<opMode, policy, marked, netmodel>>

\* The running module tries m.
autosensing_set_wan_mode(m) == sensing /\ SetOneMode(m)

\* The network selector sets m; the function looks at no OperationMode.
network_selector_set_wan_mode(m) ==
    /\ opMode = "Manual" \/ "NetworkSelector" \in Faults
    /\ SetOneMode(m)

\* The module ends without a mode: set-mode with no name.  It does not give up
\* under Continuous.
SensingEnds ==
    /\ sensing
    /\ policy # "Continuous" \/ "SetFails" \in Faults
    /\ mod_autosensing_stop
    /\ UNCHANGED <<opMode, policy, marked, listed, netmodel, isUp, events>>

\* update_sfp_type with a known SFPCategory; its other effects are module Sfp's.
SfpDetected ==
    /\ "SfpDetected" \in Faults
    /\ mod_autosensing_stop
    /\ UNCHANGED <<opMode, policy, marked, listed, netmodel, isUp, events>>

\* autosensing_is_up_query_stop
SensingClosesQueries ==
    /\ sensing
    /\ nm_query_mode_active({}, listed)
    /\ UNCHANGED <<opMode, policy, marked, listed, netmodel, flags, events>>

\* The process starts again: only the data model is left.
Restart ==
    /\ path' = {} /\ layer' = {} /\ physUp' = {} /\ open' = {} /\ wasUp' = {}
    /\ result' = [m \in Modes |-> {}]
    /\ bootFinished' = FALSE /\ sensing' = FALSE
    /\ events' = << >>
    /\ UNCHANGED <<opMode, policy, marked, listed>>

-----------------------------------------------------------------------------
ClientStep ==
    \/ \E op \in OperationModes : WriteOperationMode(op)
    \/ \E p \in Policies : WriteSensingPolicy(p)
    \/ \E m \in Modes : ToggleEnableSensing(m)
    \/ ChangeSensingPriority
    \/ \E list \in SUBSET Modes : WriteWANMode(list)
    \/ \E list \in SUBSET Modes \ {{}}, refused \in BOOLEAN : manipulate_mode(list, refused)
    \/ _Reset

NetModelStep ==
    \/ IsUpAnswer
    \/ \E m \in Modes :
          \/ PathFound(m)
          \/ Rewire(m)
          \/ \E sfpOk \in BOOLEAN : wan_manager_found_ll(m, sfpOk)

ModuleStep ==
    \/ \E m \in Modes : autosensing_set_wan_mode(m) \/ network_selector_set_wan_mode(m)
    \/ SensingEnds
    \/ SfpDetected
    \/ SensingClosesQueries

Next == HandleSensingEvent \/ ClientStep \/ NetModelStep \/ ModuleStep \/ Restart

Spec == Init /\ [][Next]_vars

-----------------------------------------------------------------------------
(* Properties.                                                             *)

\* "Manual: In this mode, autosensing will be disabled" (README.md:89): in
\* Manual the module runs at most until the queued change to Manual is handled,
\* whatever races with it.
NoSensingInManual ==
    opMode = "Manual" /\ sensing =>
        \E i \in DOMAIN events : events[i] \in {"Manual", "ListManual"}

\* "Continuous: Sensing will cycle through all eligible wan modes, it will only
\* stop when an active wan mode is found" (README.md:96): when there are modes
\* to sense, their lower layers are known and no mode is up, the module runs or
\* a queued event is going to start it.  Not so when the network selector sets a
\* mode in Automatic (NetworkSelector of AllFaults): it drops the mode that was
\* found and does not start the module.
NeverIdle ==
    /\ opMode = "Automatic"
    /\ policy = "Continuous"
    /\ marked # {} /\ marked \subseteq layer
    /\ ~sensing
    /\ \A m \in Modes : ~wan_mode_up(m, open, result)
    => \E i \in DOMAIN events : events[i] \in {"Automatic", "Update"}

\* No physical interface is watched while the module tries modes: setting them
\* "clashes with the phys_up query" (autosensing.c:267).
NoClash == sensing => physUp = {}

\* "WAN Sensing will be started at boot, once a WANMode is detected, it will be
\* set 'fixed'" (wan-manager_definition.odl:122): under AtBoot, a mode that is up
\* has ended sensing until the process restarts, under whatever policy and in
\* whatever operation mode it came up, and neither its loss, nor a lower layer,
\* nor a queued event starts it again.
FixedAtBoot ==
    [][policy = "AtBoot" /\ (wasUp # {} \/ bootFinished) /\ ~sensing => ~sensing']_vars

\* "WAN Sensing will only start if the current WANMode is interrupted"
\* (wan-manager_definition.odl:125): under Sticky, sensing starts only in a turn
\* that loses a mode or in one that finds a lower layer, never in a write, in the
\* handler of a change event, whatever policy queued it, or in a call of the
\* module.
StickyWaits ==
    [][policy = "Sticky" /\ ~sensing /\ sensing' =>
         \/ wasUp \ wasUp' # {}
         \/ \E m \in Modes : wan_manager_found_ll(m, TRUE)]_vars

\* The wan_mode_up flag of a mode, which decides whether an answer restarts
\* sensing, is set only while open queries say that the mode is up: it does not
\* survive a teardown, a reopening or a rewiring of the mode.
NoStaleUpFlag == \A m \in wasUp : wan_mode_up(m, open, result)
=============================================================================
