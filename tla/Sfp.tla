--------------------------------- MODULE Sfp ---------------------------------
(***************************************************************************)
(* The SFP type of the WAN modes (sfp.c) and the start of the network      *)
(* selector when it changes (network_selector.c).                          *)
(*                                                                         *)
(* mod-wanmgr-sfp reports the category of the plugged SFP.  SFPType of the *)
(* modes that support it is written in one transaction, which raises one   *)
(* change event for every mode whose SFPType changed.  Their handler, in   *)
(* later turns, asks mod-network-selector to detect the network, unless    *)
(* network_selector_can_start says that the SFP was taken out.             *)
(***************************************************************************)
EXTENDS Naturals, FiniteSets

CONSTANTS
    Modes,              \* the instances of WANManager.WAN.
    Types,              \* the categories of SFPs, other than SFP_UNKNOWN
    None,               \* the empty SFPType; as a category, SFP_UNKNOWN
    SupportedSFPTypes,  \* the types of each mode
    Intf,               \* the names of the interfaces of each mode
    Cages,              \* interface names that mod-wanmgr-sfp reports
    Faults,             \* what may go wrong, a subset of AllFaults
    MaxEvents           \* bound on the queue of change events

AllFaults == {
    "ApplyFails",  \* the data model refuses the transaction
    "Restart"}     \* the WAN manager restarts, with no event in the queue

ASSUME ModesAssumption == IsFiniteSet(Modes)
ASSUME NoneAssumption == None \notin Types
ASSUME SupportedAssumption == SupportedSFPTypes \in [Modes -> SUBSET Types]
ASSUME IntfAssumption == Intf \in [Modes -> SUBSET Cages]
ASSUME FaultsAssumption == Faults \subseteq AllFaults
ASSUME MaxEventsAssumption == MaxEvents \in Nat

VARIABLES
    opMode,    \* WANManager.OperationMode
    SFPType,   \* WANManager.WAN.{i}.SFPType
    canStart,  \* network_selector_can_start
    detected,  \* the SFPTypes that the last detect-network was told
    events     \* number of queued change events of SFPType

vars == <<opMode, SFPType, canStart, detected, events>>

OperationModes == {"Manual", "Automatic"}
NoTypes == [m \in Modes |-> None]

TypeOK ==
    /\ opMode \in OperationModes
    /\ SFPType \in [Modes -> Types \cup {None}]
    /\ \A m \in Modes : SFPType[m] \in SupportedSFPTypes[m] \cup {None}
    /\ canStart \in BOOLEAN
    /\ detected \in [Modes -> Types \cup {None}]
    /\ events \in 0 .. MaxEvents

Init ==
    /\ opMode \in OperationModes
    /\ SFPType = NoTypes
    /\ canStart = TRUE
    /\ detected = NoTypes
    /\ events = 0

-----------------------------------------------------------------------------
\* The mode has the SFP in one of its interfaces.
Holds(m, type, cage) == type \in SupportedSFPTypes[m] /\ cage \in Intf[m]

\* "SFPType is already updated": one such mode ends the turn, and what the
\* transaction holds for the others is dropped.
AlreadyUpdated(type, cage) ==
    \E m \in Modes : Holds(m, type, cage) /\ SFPType[m] = type

\* Faulty variants: SupportedSFPTypes is not looked at; a mode that does not
\* hold the SFP keeps its type.
Updated_unsupported(type, cage) ==
    [m \in Modes |-> IF cage \in Intf[m] THEN type ELSE None]

Updated_keeps_others(type, cage) ==
    [m \in Modes |-> IF Holds(m, type, cage) THEN type ELSE SFPType[m]]

\* One transaction: every mode gets the type or the empty string.
Updated(type, cage) ==
    [m \in Modes |-> IF Holds(m, type, cage) THEN type ELSE None]

Changed(new) == Cardinality({m \in Modes : new[m] # SFPType[m]})

\* Faulty variant: the flag is left alone when an SFP is plugged in.
CanStartAfter_removal_only(type) == IF type = None THEN FALSE ELSE canStart

\* False for SFP_UNKNOWN.
CanStartAfter(type) == type # None

update_sfp_type(type, cage) ==
    /\ UNCHANGED <<opMode, detected>>
    /\ \/ /\ AlreadyUpdated(type, cage)
          /\ UNCHANGED <<SFPType, canStart, events>>
       \/ /\ ~AlreadyUpdated(type, cage)
          /\ events + Changed(Updated(type, cage)) <= MaxEvents
          /\ SFPType' = Updated(type, cage)
          /\ events' = events + Changed(Updated(type, cage))
          /\ canStart' = CanStartAfter(type)
       \/ /\ "ApplyFails" \in Faults
          /\ UNCHANGED <<SFPType, canStart, events>>

-----------------------------------------------------------------------------
\* Faulty variant: the comparison is inverted.
network_selector_start_inverted ==
    detected' = IF opMode = "Automatic" THEN detected ELSE SFPType

\* The module is asked in Automatic only; it is given the SFPType of each mode.
network_selector_start ==
    detected' = IF opMode = "Automatic" THEN SFPType ELSE detected

\* The event does not say which mode or type it is about.  It is swallowed
\* when the flag is down, which raises the flag.
_update_network_selector ==
    /\ events > 0
    /\ events' = events - 1
    /\ IF canStart THEN network_selector_start ELSE UNCHANGED detected
    /\ canStart' = TRUE
    /\ UNCHANGED <<opMode, SFPType>>

WriteOperationMode(op) ==
    /\ opMode' = op
    /\ UNCHANGED <<SFPType, canStart, detected, events>>

\* SFPType is persistent, the flag is not.
Restart ==
    /\ "Restart" \in Faults
    /\ events = 0
    /\ canStart' = TRUE
    /\ detected' = NoTypes
    /\ UNCHANGED <<opMode, SFPType, events>>

Next ==
    \/ \E type \in Types \cup {None}, cage \in Cages : update_sfp_type(type, cage)
    \/ _update_network_selector
    \/ \E op \in OperationModes : WriteOperationMode(op)
    \/ Restart

Spec == Init /\ [][Next]_vars /\ WF_vars(_update_network_selector)

-----------------------------------------------------------------------------
(* Properties.                                                             *)

\* The flag is down only while no mode has an SFP: a plugged SFP never loses
\* its detection to the flag of an earlier removal, in whatever order reports
\* and events come.
FlagMeansRemoved == ~canStart => SFPType = NoTypes

\* Modes that hold the same SFP agree, when SFPs are reported for one cage: no
\* report leaves one of them with an older type, although one mode that is up
\* to date ends the turn for all.
ModesAgree ==
    \A m, n \in Modes, type \in Types :
        /\ SFPType[m] = type
        /\ \E cage \in Cages : Holds(m, type, cage) /\ Holds(n, type, cage)
        => SFPType[n] = type

\* A change to the types of a plugged SFP that is queued in Automatic reaches
\* the network selector, unless the SFP or the operation mode changes before.
PluggedIsDetected ==
    events > 0 /\ SFPType # NoTypes /\ opMode = "Automatic"
        ~> detected = SFPType \/ SFPType = NoTypes \/ opMode = "Manual"

-----------------------------------------------------------------------------
(* What the documentation says and the code does not do.                   *)

\* "network_selector_can_start is set to false when SFP removed or not present"
\* (sfp.c:203): no network is detected without an SFP.
NoDetectionWithoutSfp ==
    [][_update_network_selector /\ detected' # detected => SFPType # NoTypes]_vars
=============================================================================
