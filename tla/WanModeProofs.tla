----------------------------- MODULE WanModeProofs -----------------------------
(***************************************************************************)
(* Theorems about WanMode, for every value of its constants.               *)
(***************************************************************************)
EXTENDS WanMode, FiniteSetTheorems, SequenceTheorems, TLAPS

USE UnknownAssumption, NoTypeAssumption, PhysicalAssumption, ValuesAssumption DEF Names

-----------------------------------------------------------------------------
(* Lists and loops.                                                        *)

\* The names of a list that fits in WANMode are names.
LEMMA RangeOfValue ==
    ASSUME NEW list \in Values
    PROVE  Range(list) \subseteq Names
<1>1. list \in Seq(Names)
  OBVIOUS
<1>. QED
  BY <1>1 DEF Range

\* A loop comes to no name but those at the positions it goes through.
LEMMA ReachedIsBounded ==
    ASSUME NEW list, NEW at, NEW bad
    PROVE  Reached(list, at, bad) \subseteq {list[i] : i \in at}
BY DEF Reached

\* A loop without a bad name goes through all its positions.
LEMMA ReachedIsComplete ==
    ASSUME NEW list, NEW at, NEW bad, {list[i] : i \in at} \cap bad = {}
    PROVE  Reached(list, at, bad) = {list[i] : i \in at}
BY DEF Reached

LEMMA KnownPrefixIsBounded ==
    ASSUME NEW list
    PROVE  KnownPrefix(list) \subseteq Modes \cap Range(list)
BY ReachedIsBounded DEF KnownPrefix, Range

LEMMA RestIsBounded ==
    ASSUME NEW list, NEW other
    PROVE  {list[i] : i \in Rest(list, other)} \subseteq Range(list)
BY DEF Rest, Range

\* The names of list that are not in the other list; all of them when the two
\* are equal.
Left(list, other) ==
    IF list = other THEN Range(list) ELSE Range(list) \ Range(other)

\* They are what remains of a list without repetition when the names of another
\* one are taken out.
LEMMA RestIsLeft ==
    ASSUME NEW list \in Values, NEW other \in Values,
           Consistent(list), Consistent(other)
    PROVE  {list[i] : i \in Rest(list, other)} = Left(list, other)
<1>1. list \in Seq(Names) /\ other \in Seq(Names)
  OBVIOUS
<1>2. ASSUME NEW i \in DOMAIN list
      PROVE  Cardinality({j \in 1 .. i : list[j] = list[i]}) = 1
  <2>1. {j \in 1 .. i : list[j] = list[i]} = {i}
    BY <1>1, <1>2 DEF Consistent
  <2>. QED
    BY <2>1, FS_Singleton
<1>3. ASSUME NEW i \in DOMAIN list
      PROVE  Cardinality({j \in DOMAIN other : other[j] = list[i]})
               = IF list[i] \in Range(other) THEN 1 ELSE 0
  <2>1. CASE list[i] \in Range(other)
    <3>1. PICK k \in DOMAIN other : other[k] = list[i]
      BY <2>1 DEF Range
    <3>2. {j \in DOMAIN other : other[j] = list[i]} = {k}
      BY <3>1 DEF Consistent
    <3>. QED
      BY <2>1, <3>2, FS_Singleton
  <2>2. CASE list[i] \notin Range(other)
    <3>1. {j \in DOMAIN other : other[j] = list[i]} = {}
      BY <2>2 DEF Range
    <3>. QED
      BY <2>2, <3>1, FS_EmptySet
  <2>. QED
    BY <2>1, <2>2
<1>4. Rest(list, other) = {i \in DOMAIN list : list = other \/ list[i] \notin Range(other)}
  BY <1>2, <1>3 DEF Rest
<1>. QED
  BY <1>4 DEF Left, Range

\* A list that passes the validation is consistent unless it is overlooked.
LEMMA AcceptedIsConsistent ==
    ASSUME NEW list \in Accepted, list \notin Overlooked, Range(list) \subseteq Modes
    PROVE  Consistent(list)
<1>1. CASE Range(list) \cap Untyped # {}
  BY <1>1 DEF Overlooked, Accepted
<1>2. CASE Range(list) \cap Untyped = {}
  <2>1. list \in Seq(Names)
    BY DEF Accepted
  <2>2. Compared(list) = DOMAIN list
    <3>1. \A i \in DOMAIN list : \A k \in 1 .. i : k \in DOMAIN list
      BY <2>1
    <3>2. \A i \in DOMAIN list : list[i] \in Modes \ Untyped
      BY <1>2 DEF Range
    <3>. QED
      BY <3>1, <3>2 DEF Compared
  <2>3. \A i \in DOMAIN list : list[i] \in Modes
    BY DEF Range
  <2>. QED
    BY <2>2, <2>3 DEF Accepted, check_wan_mode, Consistent
<1>. QED
  BY <1>1, <1>2

\* A consistent list passes it.
LEMMA ConsistentIsAccepted ==
    ASSUME NEW list \in Values, Consistent(list)
    PROVE  list \in Accepted
<1>1. list \in Seq(Names)
  OBVIOUS
<1>2. \A i \in Compared(list) : i \in 1 .. i /\ list[i] \in Modes \ Untyped
  BY <1>1 DEF Compared
<1>. QED
  BY <1>2 DEF Accepted, check_wan_mode, Consistent, Compared

LEMMA SingleIsConsistent ==
    ASSUME NEW m \in Modes
    PROVE  << m >> \in Values /\ Consistent(<< m >>)
BY SingleAssumption DEF Consistent

LEMMA SwitchedIsTyped ==
    ASSUME upstream \subseteq PhysTypes, NEW torn, NEW powered \in SUBSET Modes
    PROVE  Switched(torn, powered) \subseteq PhysTypes
BY SwitchableAssumption DEF Switched, TypesOf

-----------------------------------------------------------------------------
(* Type correctness.                                                       *)

\* What wan_mode_set does to the types.
LEMMA WanModeSetTyped ==
    ASSUME TypeOK, NEW new, NEW active, NEW faults \in Faults,
           wan_mode_set(new, active, faults)
    PROVE  /\ wanMode' \in Values
           /\ status' \in [Modes -> Statuses]
           /\ configured' \subseteq Modes
           /\ upstream' \subseteq PhysTypes
           /\ monitored' \subseteq Modes
<1>1. CASE new = << >> \/ active = << >>
  BY <1>1 DEF wan_mode_set, setup, TypeOK
<1>2. CASE ~(new = << >> \/ active = << >>)
  <2>1. wanMode' \in Values
    BY <1>2 DEF wan_mode_set, TypeOK, Settable, Accepted
  <2>2. status' \in [Modes -> Statuses]
    BY <1>2 DEF wan_mode_set, TypeOK, Statuses
  <2>3. configured' \subseteq Modes
    BY <1>2 DEF wan_mode_set, TypeOK
  <2>4. upstream' \subseteq PhysTypes
    BY <1>2, SwitchedIsTyped DEF wan_mode_set, TypeOK
  <2>5. monitored' \subseteq Modes
    BY <1>2, KnownPrefixIsBounded DEF wan_mode_set, nm_close_sensing_queries,
       nm_query_mode_active, TypeOK
  <2>. QED
    BY <2>1, <2>2, <2>3, <2>4, <2>5
<1>. QED
  BY <1>1, <1>2

LEMMA SetModesTyped ==
    ASSUME TypeOK, NEW new, NEW active, SetModes(new, active)
    PROVE  /\ wanMode' \in Values
           /\ status' \in [Modes -> Statuses]
           /\ configured' \subseteq Modes
           /\ upstream' \subseteq PhysTypes
           /\ monitored' \subseteq Modes
BY WanModeSetTyped DEF SetModes

\* The event that a transaction raises is an event.
LEMMA ChangedTyped ==
    ASSUME wanMode \in Values, wanMode' \in Values, opMode' \in OperationModes
    PROVE  Changed \in Seq(Event)
<1>. DEFINE op == IF opMode' = opMode THEN "same" ELSE opMode'
            e == [from |-> wanMode, to |-> wanMode', op |-> op]
<1>1. e \in Event
  BY DEF Event
<1>2. << e >> \in Seq(Event) /\ << >> \in Seq(Event)
  <2>. HIDE DEF e
  <2>. QED
    BY <1>1
<1>3. Changed \in {<< e >>, << >>}
  BY DEF Changed
<1>. QED
  BY <1>2, <1>3

\* What a turn that queues its own change event does to the type of the queue.
LEMMA QueueTyped ==
    ASSUME TypeOK, wanMode' \in Values, opMode' \in OperationModes,
           \/ events' = events \o Changed
           \/ events # << >> /\ events' = Tail(events) \o Changed
    PROVE  events' \in Seq(Event)
<1>1. Changed \in Seq(Event) /\ events \in Seq(Event)
  BY ChangedTyped DEF TypeOK
<1>. HIDE DEF Event
<1>2. events # << >> => Tail(events) \in Seq(Event)
  BY <1>1, HeadTailProperties
<1>3. \A s, t \in Seq(Event) : s \o t \in Seq(Event)
  BY ConcatProperties
<1>. QED
  BY <1>1, <1>2, <1>3

LEMMA InitTyped == Init => TypeOK
<1>. SUFFICES ASSUME Init PROVE TypeOK
  OBVIOUS
<1>1. configured \subseteq Modes
  BY DEF Init
<1>2. upstream \subseteq PhysTypes
  BY <1>1, SwitchableAssumption DEF Init, TypesOf
<1>3. status \in [Modes -> Statuses]
  BY DEF Init, Statuses
<1>4. events \in Seq(Event)
  BY EmptySeq DEF Init
<1>. QED
  BY <1>1, <1>2, <1>3, <1>4 DEF Init, Accepted, TypeOK, OperationModes

LEMMA HandleEventTyped == TypeOK /\ HandleEvent => TypeOK'
<1>. SUFFICES ASSUME TypeOK, HandleEvent PROVE TypeOK'
  OBVIOUS
<1>. DEFINE e == Head(events)
<1>1. e \in Event
  BY DEF HandleEvent, TypeOK
<1>2. /\ wanMode' \in Values
      /\ status' \in [Modes -> Statuses]
      /\ configured' \subseteq Modes
      /\ upstream' \subseteq PhysTypes
      /\ monitored' \subseteq Modes
  <2>1. CASE UNCHANGED <<wanMode, setup>>
    BY <2>1 DEF setup, TypeOK
  <2>2. CASE SetModes(e.to, e.from)
    BY <2>2, SetModesTyped
  <2>3. CASE wan_mode_dm_set(e.from, opMode) /\ UNCHANGED setup
    BY <2>3, <1>1 DEF wan_mode_dm_set, setup, TypeOK, Event
  <2>. QED
    BY <2>1, <2>2, <2>3 DEF HandleEvent, _set_wan_mode
<1>3. sensing' \in BOOLEAN
  BY DEF HandleEvent, _update_autosensing, TypeOK
<1>4. events' \in Seq(Event)
  BY <1>2, QueueTyped DEF HandleEvent, TypeOK
<1>. QED
  BY <1>2, <1>3, <1>4 DEF HandleEvent, TypeOK

LEMMA ManipulateTyped ==
    ASSUME TypeOK, NEW list, manipulate_mode(list)
    PROVE  TypeOK'
<1>1. wanMode' \in Values /\ opMode' \in OperationModes
  BY DEF manipulate_mode, wan_mode_dm_set, Settable, Accepted, TypeOK, OperationModes
<1>2. sensing' \in BOOLEAN
  BY DEF manipulate_mode, TypeOK
<1>3. events' \in Seq(Event)
  BY <1>1, QueueTyped DEF manipulate_mode
<1>. QED
  BY <1>1, <1>2, <1>3 DEF manipulate_mode, setup, TypeOK

\* A turn that applies a list on behalf of _Reset or an extension module.
LEMMA ModuleSetTyped ==
    ASSUME TypeOK, NEW new, SetModes(new, wanMode),
           UNCHANGED <<opMode, apply, lowerLayer, sensing>>,
           events' = events \o Changed
    PROVE  TypeOK'
<1>1. /\ wanMode' \in Values
      /\ status' \in [Modes -> Statuses]
      /\ configured' \subseteq Modes
      /\ upstream' \subseteq PhysTypes
      /\ monitored' \subseteq Modes
  BY SetModesTyped
<1>2. events' \in Seq(Event)
  BY <1>1, QueueTyped DEF TypeOK
<1>. QED
  BY <1>1, <1>2 DEF TypeOK

LEMMA ClientStepTyped == TypeOK /\ ClientStep => TypeOK'
<1>. SUFFICES ASSUME TypeOK, ClientStep PROVE TypeOK'
  OBVIOUS
<1>1. CASE \E list \in Values :
              _setWANMode(list) \/ _WANModeEnable(list) \/ _WANModeDisable(list)
  BY <1>1, ManipulateTyped DEF _setWANMode, _WANModeEnable, _WANModeDisable
<1>2. ASSUME NEW list \in Values, WriteWANMode(list) PROVE TypeOK'
  <2>1. events' \in Seq(Event)
    BY <1>2, QueueTyped DEF WriteWANMode, TypeOK
  <2>. QED
    BY <1>2, <2>1 DEF WriteWANMode, setup, TypeOK
<1>3. ASSUME NEW op \in OperationModes, SetOperationMode(op) \/ WriteOperationMode(op)
      PROVE  TypeOK'
  <2>1. events' \in Seq(Event)
    BY <1>3, QueueTyped DEF SetOperationMode, WriteOperationMode, TypeOK
  <2>2. sensing' \in BOOLEAN
    BY <1>3 DEF SetOperationMode, WriteOperationMode, TypeOK
  <2>. QED
    BY <1>3, <2>1, <2>2 DEF SetOperationMode, WriteOperationMode, setup, TypeOK
<1>4. CASE WriteApplyAtNextBoot
  BY <1>4 DEF WriteApplyAtNextBoot, setup, TypeOK
<1>5. CASE _Reset
  BY <1>5, ModuleSetTyped DEF _Reset
<1>. QED
  BY <1>1, <1>2, <1>3, <1>4, <1>5 DEF ClientStep

LEMMA FoundTyped ==
    ASSUME TypeOK, NEW m \in Modes, LowerLayerFound(m)
    PROVE  TypeOK'
<1>1. PICK sfpOk \in SfpOutcomes, refused \in Refusals, dnsDown \in DnsOutcomes :
        wan_manager_found_ll(m, sfpOk, refused, dnsDown)
  BY DEF LowerLayerFound
<1>2. KnownPrefix(wanMode) \subseteq Modes
  BY KnownPrefixIsBounded
<1>3. lowerLayer' \subseteq Modes /\ configured' \subseteq Modes /\ monitored' \subseteq Modes
  BY <1>1, <1>2 DEF wan_manager_found_ll, nm_query_mode_active, TypeOK
<1>4. upstream' \subseteq PhysTypes
  BY <1>1, <1>2, SwitchableAssumption DEF wan_manager_found_ll, TypesOf, TypeOK
<1>5. status' \in [Modes -> Statuses]
  BY <1>1 DEF wan_manager_found_ll, TypeOK, Statuses
<1>6. apply' \in BOOLEAN
  BY <1>1 DEF wan_manager_found_ll, TypeOK
<1>7. sensing' \in BOOLEAN
  BY <1>1 DEF wan_manager_found_ll, TypeOK
<1>. QED
  BY <1>3, <1>4, <1>5, <1>6, <1>7 DEF LowerLayerFound, TypeOK

LEMMA NetModelStepTyped == TypeOK /\ NetModelStep => TypeOK'
<1>. SUFFICES ASSUME TypeOK, NEW m \in Modes, LowerLayerFound(m) \/ Rewire(m)
              PROVE  TypeOK'
  BY DEF NetModelStep
<1>. QED
  BY FoundTyped DEF Rewire, dm, setup, TypeOK

LEMMA ModuleStepTyped == TypeOK /\ ModuleStep => TypeOK'
<1>. SUFFICES ASSUME TypeOK, ModuleStep PROVE TypeOK'
  OBVIOUS
<1>1. CASE SensingStarts \/ SensingStops
  BY <1>1 DEF SensingStarts, SensingStops, dm, setup, TypeOK
<1>2. CASE SensingClosesQueries
  BY <1>2 DEF SensingClosesQueries, nm_close_sensing_queries, dm, TypeOK
<1>3. ASSUME NEW m \in Modes, SensingSetsMode(m) \/ NetworkSelectorSetsMode(m)
      PROVE  TypeOK'
  BY <1>3, ModuleSetTyped DEF SensingSetsMode, NetworkSelectorSetsMode
<1>. QED
  BY <1>1, <1>2, <1>3 DEF ModuleStep

LEMMA RestartTyped == TypeOK /\ Restart => TypeOK'
<1>. SUFFICES ASSUME TypeOK, Restart PROVE TypeOK'
  OBVIOUS
<1>1. events' \in Seq(Event)
  BY EmptySeq DEF Restart
<1>. QED
  BY <1>1 DEF Restart, dm, TypeOK

LEMMA StepTyped == TypeOK /\ [Next]_vars => TypeOK'
<1>1. TypeOK /\ UNCHANGED vars => TypeOK'
  BY DEF vars, TypeOK
<1>. QED
  BY <1>1, HandleEventTyped, ClientStepTyped, NetModelStepTyped,
     ModuleStepTyped, RestartTyped DEF Next

\* Every variable keeps its type, whatever the environment does.
THEOREM TypeCorrect == Spec => []TypeOK
BY InitTyped, StepTyped, PTL DEF Spec

-----------------------------------------------------------------------------
(* Status tells the truth.                                                 *)

\* wan_mode_set: an enabled mode was set up or left alone, a disabled one was
\* torn down or left alone.
LEMMA WanModeSetStatus ==
    ASSUME TypeOK, StatusInv, NEW new, NEW active, NEW faults \in Faults,
           wan_mode_set(new, active, faults)
    PROVE  StatusInv'
<1>1. CASE new = << >> \/ active = << >>
  BY <1>1 DEF wan_mode_set, setup, StatusInv, EnabledIsConfigured, DisabledIsTornDown
<1>2. CASE ~(new = << >> \/ active = << >>)
  <2>. DEFINE notDown  == Unusable(lowerLayer, faults.notDisabled, faults.dnsDown)
              notUp    == Unusable(lowerLayer, faults.notAdded, faults.dnsDown)
              dropped  == Reached(active, Rest(active, new), notDown)
              added    == Reached(new, Rest(new, active), notUp)
              disabled == dropped \cap lowerLayer
              torn     == disabled \ (Broken \cup faults.notDisabled)
              silent   == Unknown \in dropped /\ dropped # {Unknown}
              written  == dropped \cap notDown = {} /\ new \in Settable
              powered  == IF written THEN added \cap lowerLayer ELSE {}
              up       == powered \ (Broken \cup faults.notAdded)
              failed   == ~silent /\
                          \/ ~written
                          \/ added \cap notUp # {}
                          \/ /\ faults.updateFails /\ SystemModule
                             /\ wan_mode_different_physical_type(active, new)
  <2>1. configured' = (configured \ torn) \cup up
    BY <1>2 DEF wan_mode_set
  <2>2. status' = [m \in Modes |->
                     IF failed /\ m \in Range(new) THEN "Error"
                     ELSE IF ~failed /\ m \in up THEN "Enabled"
                     ELSE IF m \in disabled THEN "Disabled" ELSE status[m]]
    BY <1>2 DEF wan_mode_set
  <2>3. up \subseteq Range(new)
    BY ReachedIsBounded, RestIsBounded
  <2>4. torn = disabled \ (Broken \cup faults.notDisabled)
    OBVIOUS
  <2>5. up \cap Broken = {}
    OBVIOUS
  <2>6. faults.notDisabled \in SUBSET Bridged
        /\ (faults.notDisabled # {} => "PortRefused" \in Disturbances)
    BY DEF Faults, Refusals
  <2>. HIDE DEF notDown, notUp, dropped, added, disabled, torn, silent, written, powered,
                up, failed
  <2>7. EnabledIsConfigured'
    <3>1. SUFFICES ASSUME NEW m \in Modes, status'[m] = "Enabled"
                   PROVE  m \in configured'
      BY DEF EnabledIsConfigured
    <3>2. CASE m \in up
      BY <2>1, <3>2
    <3>3. CASE m \notin up
      <4>1. m \notin disabled /\ status[m] = "Enabled"
        BY <2>2, <3>1, <3>3
      <4>. QED
        BY <2>1, <2>4, <4>1 DEF StatusInv, EnabledIsConfigured
    <3>. QED
      BY <3>2, <3>3
  <2>8. DisabledIsTornDown'
    <3>1. SUFFICES ASSUME NEW m \in Modes, status'[m] = "Disabled", m \in configured'
                   PROVE  m \in Bridged /\ "PortRefused" \in Disturbances
      BY DEF DisabledIsTornDown
    <3>2. m \notin up
      <4>1. SUFFICES ASSUME m \in up PROVE FALSE
        OBVIOUS
      <4>2. m \in Range(new)
        BY <2>3, <4>1
      <4>3. status'[m] = IF failed THEN "Error" ELSE "Enabled"
        BY <2>2, <4>1, <4>2
      <4>. QED
        BY <3>1, <4>3
    <3>3. m \in configured /\ m \notin torn
      BY <2>1, <3>1, <3>2
    <3>4. CASE m \in disabled
      BY <2>4, <2>6, <3>3, <3>4 DEF StatusInv
    <3>5. CASE m \notin disabled
      <4>1. status[m] = "Disabled"
        BY <2>2, <3>1, <3>2, <3>5
      <4>. QED
        BY <3>3, <4>1 DEF StatusInv, DisabledIsTornDown
    <3>. QED
      BY <3>4, <3>5
  <2>9. configured' \cap Broken = {}
    BY <2>1, <2>5 DEF StatusInv
  <2>. QED
    BY <2>7, <2>8, <2>9 DEF StatusInv
<1>. QED
  BY <1>1, <1>2

LEMMA FoundStatus ==
    ASSUME TypeOK, StatusInv, NEW m \in Modes, LowerLayerFound(m)
    PROVE  StatusInv'
<1>1. PICK sfpOk \in SfpOutcomes, refused \in Refusals, dnsDown \in DnsOutcomes :
        wan_manager_found_ll(m, sfpOk, refused, dnsDown)
  BY DEF LowerLayerFound
<1>. DEFINE known    == lowerLayer \cup {m}
            current  == Reached(wanMode, DOMAIN wanMode, Names \ (Modes \ Untyped))
                          \cap (Modes \ Untyped)
            matching == {n \in current : physical[n] = physical[m]}
            up       == (matching \cap known) \ (Broken \cup refused)
            enabled  == matching \ Unusable(known, refused, dnsDown)
            applies  == (sfpOk /\ opMode = "Manual") /\ apply
<1>2. configured' = configured \cup (IF applies THEN up ELSE {})
  BY <1>1 DEF wan_manager_found_ll
<1>3. status' = [n \in Modes |->
                   IF applies /\ n \in matching
                   THEN IF n \in enabled THEN "Enabled" ELSE "Error"
                   ELSE status[n]]
  BY <1>1 DEF wan_manager_found_ll
<1>4. enabled \subseteq up
  <2>1. matching \subseteq Names
    OBVIOUS
  <2>. QED
    BY <2>1 DEF Unusable
<1>. HIDE DEF known, current, enabled, applies, matching
<1>5. EnabledIsConfigured'
  BY <1>2, <1>3, <1>4 DEF StatusInv, EnabledIsConfigured
<1>6. DisabledIsTornDown'
  BY <1>2, <1>3 DEF StatusInv, DisabledIsTornDown
<1>7. configured' \cap Broken = {}
  BY <1>2 DEF StatusInv
<1>. QED
  BY <1>5, <1>6, <1>7 DEF StatusInv

LEMMA StatusStep == TypeOK /\ StatusInv /\ [Next]_vars => StatusInv'
<1>. SUFFICES ASSUME TypeOK, StatusInv, [Next]_vars PROVE StatusInv'
  OBVIOUS
<1>1. CASE UNCHANGED <<status, configured>>
  BY <1>1 DEF StatusInv, EnabledIsConfigured, DisabledIsTornDown
<1>2. ASSUME NEW new, NEW active, SetModes(new, active) PROVE StatusInv'
  BY <1>2, WanModeSetStatus DEF SetModes
<1>3. CASE HandleEvent
  BY <1>1, <1>2, <1>3 DEF HandleEvent, _set_wan_mode, setup
<1>4. CASE ClientStep
  BY <1>1, <1>2, <1>4 DEF ClientStep, _setWANMode, _WANModeEnable, _WANModeDisable,
     manipulate_mode, WriteWANMode, SetOperationMode, WriteOperationMode,
     WriteApplyAtNextBoot, _Reset, setup
<1>5. CASE NetModelStep
  BY <1>1, <1>5, FoundStatus DEF NetModelStep, Rewire, setup
<1>6. CASE ModuleStep
  BY <1>1, <1>2, <1>6 DEF ModuleStep, SensingStarts, SensingStops,
     SensingClosesQueries, SensingSetsMode, NetworkSelectorSetsMode, setup
<1>7. CASE Restart
  BY <1>1, <1>7 DEF Restart
<1>8. CASE UNCHANGED vars
  BY <1>1, <1>8 DEF vars
<1>. QED
  BY <1>3, <1>4, <1>5, <1>6, <1>7, <1>8 DEF Next

LEMMA StatusInvHolds == Spec => []StatusInv
<1>1. Init => StatusInv
  BY DEF Init, StatusInv, EnabledIsConfigured, DisabledIsTornDown
<1>. QED
  BY <1>1, TypeCorrect, StatusStep, PTL DEF Spec

\* Whatever the environment does and whichever modes are broken, Status never
\* shows a mode as Enabled that is not set up.
THEOREM StatusIsTrue == Spec => []EnabledIsConfigured
<1>1. StatusInv => EnabledIsConfigured
  BY DEF StatusInv
<1>. QED
  BY <1>1, StatusInvHolds, PTL

\* Nor does it show a mode as Disabled of which something is left in place,
\* except for a bridge port that Bridging refused to disable.
THEOREM DisabledLeavesNothing == Spec => []DisabledIsTornDown
<1>1. StatusInv => DisabledIsTornDown
  BY DEF StatusInv
<1>. QED
  BY <1>1, StatusInvHolds, PTL

-----------------------------------------------------------------------------
(* The request to apply the stored list.                                   *)

\* wan_manager_found_ll clears it with an enabled mode in hand.
LEMMA FoundClears ==
    ASSUME NEW m \in Modes, LowerLayerFound(m), apply, ~apply'
    PROVE  \E n \in Range(wanMode) \cap Modes :
               n \in configured' /\ status'[n] = "Enabled"
<1>1. PICK sfpOk \in SfpOutcomes, refused \in Refusals, dnsDown \in DnsOutcomes :
        wan_manager_found_ll(m, sfpOk, refused, dnsDown)
  BY DEF LowerLayerFound
<1>. DEFINE known    == lowerLayer \cup {m}
            current  == Reached(wanMode, DOMAIN wanMode, Names \ (Modes \ Untyped))
                          \cap (Modes \ Untyped)
            matching == {n \in current : physical[n] = physical[m]}
            up       == (matching \cap known) \ (Broken \cup refused)
            enabled  == matching \ Unusable(known, refused, dnsDown)
            applies  == (sfpOk /\ opMode = "Manual") /\ apply
<1>2. applies /\ enabled # {}
  BY <1>1 DEF wan_manager_found_ll
<1>3. configured' = configured \cup up
  BY <1>1, <1>2 DEF wan_manager_found_ll
<1>4. status' = [n \in Modes |->
                   IF n \in matching
                   THEN IF n \in enabled THEN "Enabled" ELSE "Error"
                   ELSE status[n]]
  BY <1>1, <1>2 DEF wan_manager_found_ll
<1>5. /\ matching \subseteq Range(wanMode) \cap Modes
      /\ enabled \subseteq up
  BY ReachedIsBounded DEF Unusable, Range
<1>6. enabled \subseteq matching
  OBVIOUS
<1>. HIDE DEF known, current, matching, up, enabled, applies
<1>. QED
  BY <1>2, <1>3, <1>4, <1>5, <1>6

\* Whatever the environment does, ApplyAtNextBoot is cleared by nothing but a
\* turn that enables a listed mode.
THEOREM ApplyIsNotLost == Spec => ClearedOnlyWhenApplied
<1>. DEFINE A == apply /\ ~apply' => \E m \in Range(wanMode) \cap Modes :
                   m \in configured' /\ status'[m] = "Enabled"
<1>1. Next => A
  <2>1. UNCHANGED apply => A
    OBVIOUS
  <2>2. ASSUME NEW m \in Modes, LowerLayerFound(m) PROVE A
    BY <2>2, FoundClears
  <2>3. WriteApplyAtNextBoot => A
    BY DEF WriteApplyAtNextBoot
  <2>. HIDE DEF A
  <2>. QED
    BY <2>1, <2>2, <2>3 DEF Next, HandleEvent, ClientStep, _setWANMode, _WANModeEnable,
       _WANModeDisable, manipulate_mode, WriteWANMode, SetOperationMode,
       WriteOperationMode, _Reset, NetModelStep, Rewire, ModuleStep, SensingStarts,
       SensingStops, SensingClosesQueries, SensingSetsMode, NetworkSelectorSetsMode,
       Restart, dm
<1>. QED
  BY <1>1, PTL DEF Spec, ClearedOnlyWhenApplied

-----------------------------------------------------------------------------
(* A well-behaved environment and no broken mode: what is set up follows   *)
(* the list.                                                               *)

WellBehaved == Disturbances \subseteq Benign /\ Broken = {}

\* What the guards of the requests come to then.
LEMMA RequestIsCalm ==
    ASSUME WellBehaved, Request
    PROVE  events = << >>
BY DEF WellBehaved, Request, Calm, Benign

LEMMA LayersAreKnown ==
    ASSUME WellBehaved, LayersKnown
    PROVE  Range(wanMode) \cap Modes \subseteq lowerLayer
BY DEF WellBehaved, LayersKnown, Benign

LEMMA NothingIsRefused ==
    ASSUME WellBehaved, NEW faults \in Faults
    PROVE  faults.notDisabled = {} /\ faults.notAdded = {} /\ faults.dnsDown = FALSE
BY DEF WellBehaved, Faults, Refusals, DnsOutcomes, Benign

LEMMA NothingIsOverlooked ==
    ASSUME WellBehaved
    PROVE  "SharedType" \notin Disturbances
BY DEF WellBehaved, Benign

\* wan_mode_set when all of the active list can be torn down: either the new
\* list is written and nothing of the rest of the active one remains, or the
\* list stays and nothing is set up.
LEMMA CalmSet ==
    ASSUME TypeOK, WellBehaved, NEW new \in Values, NEW active \in Values,
           SetModes(new, active), Consistent(new), Consistent(active),
           new # << >>, active # << >>, Range(active) \subseteq lowerLayer
    PROVE  \/ /\ new \in Settable
              /\ wanMode' = new
              /\ configured' \subseteq (configured \ Left(active, new)) \cup Range(new)
           \/ /\ new \notin Settable
              /\ wanMode' = wanMode
              /\ configured' \subseteq configured
<1>1. PICK faults \in Faults : wan_mode_set(new, active, faults)
  BY DEF SetModes
<1>. DEFINE notDown  == Unusable(lowerLayer, faults.notDisabled, faults.dnsDown)
            notUp    == Unusable(lowerLayer, faults.notAdded, faults.dnsDown)
            dropped  == Reached(active, Rest(active, new), notDown)
            added    == Reached(new, Rest(new, active), notUp)
            torn     == (dropped \cap lowerLayer) \ (Broken \cup faults.notDisabled)
            written  == dropped \cap notDown = {} /\ new \in Settable
            powered  == IF written THEN added \cap lowerLayer ELSE {}
            up       == powered \ (Broken \cup faults.notAdded)
<1>2. /\ configured' = (configured \ torn) \cup up
      /\ wanMode' = IF written THEN new ELSE wanMode
  BY <1>1 DEF wan_mode_set
<1>3. {active[i] : i \in Rest(active, new)} = Left(active, new)
  BY RestIsLeft
<1>4. Left(active, new) \subseteq lowerLayer
  BY DEF Left
<1>5. Left(active, new) \cap notDown = {}
  BY <1>4, NothingIsRefused DEF Unusable, WellBehaved
<1>6. dropped = Left(active, new)
  BY <1>3, <1>5, ReachedIsComplete
<1>7. torn = Left(active, new) /\ dropped \cap notDown = {}
  BY <1>4, <1>5, <1>6, NothingIsRefused DEF WellBehaved
<1>8. up \subseteq Range(new)
  BY ReachedIsBounded, RestIsBounded
<1>9. ~written => up = {}
  OBVIOUS
<1>. HIDE DEF notDown, notUp, dropped, added, torn, powered, up
<1>. QED
  BY <1>2, <1>7, <1>8, <1>9

\* What is left of a well-listed configuration is in the new list.
LEMMA RestRemoved ==
    ASSUME NEW old, NEW new, NEW set, set \subseteq Range(old) \cup Range(new)
    PROVE  (set \ Left(old, new)) \cup Range(new) \subseteq Range(new)
BY DEF Left

\* The queue after a turn that found it empty, or held one event.
LEMMA CalmQueue ==
    ASSUME TypeOK, CalmInv, wanMode' \in Values, opMode' \in OperationModes,
           \/ events = << >> /\ events' = events \o Changed
           \/ events # << >> /\ events' = Tail(events) \o Changed
    PROVE  events' = Changed
<1>1. Changed \in Seq(Event) /\ events \in Seq(Event)
  BY ChangedTyped DEF TypeOK
<1>. HIDE DEF Event
<1>2. << >> \o Changed = Changed
  BY <1>1, ConcatEmptySeq
<1>3. events # << >> => Tail(events) = << >>
  <2>1. events # << >> => Len(events) = 1
    BY DEF CalmInv
  <2>2. events # << >> => Tail(events) \in Seq(Event) /\ Len(Tail(events)) = 0
    BY <1>1, <2>1, HeadTailProperties
  <2>. QED
    BY <2>2, EmptySeq
<1>. QED
  BY <1>2, <1>3

\* A turn that leaves at most its own change event keeps the invariant when
\* the new list is good and what is set up belongs to the two lists.
LEMMA CalmTurn ==
    ASSUME TypeOK, CalmInv, wanMode' \in Values, opMode' \in OperationModes,
           events' = Changed,
           Range(wanMode') \subseteq Modes,
           Consistent(wanMode'),
           configured' \subseteq Range(wanMode) \cup Range(wanMode'),
           opMode' = "Automatic" => configured' \subseteq Range(wanMode'),
           wanMode' # wanMode => Range(wanMode) \subseteq lowerLayer'
    PROVE  CalmInv'
<1>1. Consistent(wanMode)' <=> Consistent(wanMode')
  BY DEF Consistent
<1>2. CASE wanMode' = wanMode /\ opMode' = opMode
  <2>1. events' = << >>
    BY <1>2 DEF Changed
  <2>. QED
    BY <1>1, <1>2, <2>1 DEF CalmInv, OnlyListedModesConfigured
<1>3. CASE ~(wanMode' = wanMode /\ opMode' = opMode)
  <2>. DEFINE e == [from |-> wanMode, to |-> wanMode',
                    op |-> IF opMode' = opMode THEN "same" ELSE opMode']
  <2>1. events' = << e >>
    BY <1>3 DEF Changed
  <2>2. /\ events' # << >>
        /\ Len(events') = 1
        /\ Head(events') = e
    BY <2>1
  <2>3. PendingInv(Head(events))'
    BY <1>1, <2>2 DEF PendingInv, CalmInv, Consistent
  <2>. QED
    BY <1>1, <2>2, <2>3 DEF CalmInv, OnlyListedModesConfigured
<1>. QED
  BY <1>2, <1>3

\* A request that applies a list at once, on behalf of a module or of _Reset.
LEMMA CalmModuleSet ==
    ASSUME TypeOK, CalmInv, WellBehaved, Request, LayersKnown,
           NEW new \in Values, Consistent(new), new # << >>, SetModes(new, wanMode),
           UNCHANGED <<opMode, lowerLayer>>, events' = events \o Changed
    PROVE  CalmInv'
<1>1. events = << >>
  BY RequestIsCalm
<1>2. configured \subseteq Range(wanMode) /\ Range(wanMode) \subseteq lowerLayer
  BY <1>1, LayersAreKnown DEF CalmInv, OnlyListedModesConfigured
<1>3. wanMode' \in Values /\ opMode' \in OperationModes
  BY SetModesTyped DEF TypeOK
<1>4. events' = Changed
  BY <1>1, <1>3, CalmQueue
<1>5. CASE wanMode = << >>
  <2>1. UNCHANGED <<wanMode, configured>>
    BY <1>5 DEF SetModes, wan_mode_set, setup
  <2>. QED
    BY <1>2, <1>3, <1>4, <2>1, CalmTurn DEF CalmInv
<1>6. CASE wanMode # << >>
  <2>1. CASE /\ new \in Settable
             /\ wanMode' = new
             /\ configured' \subseteq (configured \ Left(wanMode, new)) \cup Range(new)
    <3>1. configured' \subseteq Range(wanMode')
      BY <1>2, <2>1, RestRemoved
    <3>2. Range(wanMode') \subseteq Modes /\ Consistent(wanMode')
      BY <2>1 DEF Settable, is_valid_mode_list
    <3>. QED
      BY <1>2, <1>3, <1>4, <3>1, <3>2, CalmTurn
  <2>2. CASE wanMode' = wanMode /\ configured' \subseteq configured
    BY <1>2, <1>3, <1>4, <2>2, CalmTurn DEF CalmInv
  <2>. QED
    BY <1>2, <1>6, <2>1, <2>2, CalmSet DEF TypeOK, CalmInv
<1>. QED
  BY <1>5, <1>6

LEMMA CalmHandleEvent ==
    ASSUME TypeOK, CalmInv, WellBehaved, HandleEvent
    PROVE  CalmInv'
<1>. DEFINE e == Head(events)
<1>1. events # << >> /\ PendingInv(e) /\ e \in Event
  BY DEF HandleEvent, CalmInv, TypeOK
<1>2. opMode' = opMode /\ lowerLayer' = lowerLayer /\ opMode' \in OperationModes
  BY DEF HandleEvent, TypeOK
<1>3. wanMode' \in Values
  BY HandleEventTyped DEF TypeOK
<1>4. events' = Changed
  BY <1>1, <1>2, <1>3, CalmQueue DEF HandleEvent
<1>. HIDE DEF e
<1>5. CASE e.from = e.to \/ opMode = "Automatic"
  <2>1. UNCHANGED <<wanMode, configured>>
    BY <1>5 DEF HandleEvent, _set_wan_mode, setup, e
  <2>2. configured \subseteq Range(wanMode)
    BY <1>1, <1>5 DEF PendingInv
  <2>. QED
    BY <1>2, <1>3, <1>4, <2>1, <2>2, CalmTurn DEF CalmInv
<1>6. CASE ~(e.from = e.to \/ opMode = "Automatic") /\ is_valid_mode_list(e.to)
  <2>1. SetModes(wanMode, e.from)
    BY <1>1, <1>6 DEF HandleEvent, _set_wan_mode, PendingInv, e
  <2>2. wanMode \in Settable /\ wanMode # << >>
    BY <1>1, <1>6, ConsistentIsAccepted
    DEF Settable, is_valid_mode_list, CalmInv, PendingInv, TypeOK
  <2>3. configured \subseteq Range(e.from) \cup Range(wanMode)
    BY <1>1 DEF PendingInv
  <2>4. wanMode' = wanMode /\ configured' \subseteq Range(wanMode)
    <3>1. CASE e.from = << >>
      <4>1. UNCHANGED <<wanMode, configured>>
        BY <2>1, <3>1 DEF SetModes, wan_mode_set, setup
      <4>2. Range(e.from) = {}
        BY <3>1 DEF Range
      <4>. QED
        BY <2>3, <4>1, <4>2
    <3>2. CASE e.from # << >>
      <4>1. Range(e.from) \subseteq lowerLayer
        BY <1>1, <1>6 DEF PendingInv, TypeOK, OperationModes
      <4>2. /\ wanMode' = wanMode
            /\ configured' \subseteq
                 (configured \ Left(e.from, wanMode)) \cup Range(wanMode)
        BY <1>1, <2>1, <2>2, <3>2, <4>1, CalmSet DEF TypeOK, CalmInv, PendingInv, Event
      <4>. QED
        BY <2>3, <4>2, RestRemoved
    <3>. QED
      BY <3>1, <3>2
  <2>. QED
    BY <1>2, <1>3, <1>4, <2>4, CalmTurn DEF CalmInv
<1>7. CASE ~(e.from = e.to \/ opMode = "Automatic") /\ ~is_valid_mode_list(e.to)
  <2>1. wan_mode_dm_set(e.from, opMode) /\ configured' = configured
    BY <1>7 DEF HandleEvent, _set_wan_mode, setup, e
  <2>2. wanMode = << >> /\ Range(wanMode) = {}
    BY <1>1, <1>7 DEF is_valid_mode_list, CalmInv, PendingInv, Range
  <2>3. e.from # << >> /\ Range(e.from) \subseteq Modes /\ Consistent(e.from)
    BY <1>1, <1>7, <2>2 DEF PendingInv
  <2>4. wanMode' = e.from
    BY <1>1, <2>1, <2>3, ConsistentIsAccepted
    DEF wan_mode_dm_set, Settable, is_valid_mode_list, Event
  <2>5. configured' \subseteq Range(wanMode')
    BY <1>1, <2>1, <2>2, <2>4 DEF PendingInv
  <2>. QED
    BY <1>2, <1>3, <1>4, <2>2, <2>3, <2>4, <2>5, CalmTurn
<1>. QED
  BY <1>5, <1>6, <1>7

LEMMA CalmClientStep ==
    ASSUME TypeOK, CalmInv, WellBehaved, ClientStep
    PROVE  CalmInv'
<1>1. ASSUME NEW list, manipulate_mode(list) PROVE CalmInv'
  <2>1. events = << >> /\ events' = events \o Changed
    BY <1>1, RequestIsCalm DEF manipulate_mode
  <2>2. configured \subseteq Range(wanMode) /\ Range(wanMode) \subseteq lowerLayer
    BY <1>1, <2>1, LayersAreKnown DEF manipulate_mode, CalmInv, OnlyListedModesConfigured
  <2>3. wanMode' \in Values /\ opMode' \in OperationModes
    BY <1>1, ManipulateTyped DEF TypeOK
  <2>4. events' = Changed
    BY <2>1, <2>3, CalmQueue
  <2>5. configured' = configured /\ lowerLayer' = lowerLayer
    BY <1>1 DEF manipulate_mode, setup
  <2>6. CASE list \in Settable
    <3>1. wanMode' = list /\ opMode' = "Manual"
      BY <1>1, <2>6 DEF manipulate_mode, wan_mode_dm_set
    <3>2. Range(wanMode') \subseteq Modes /\ Consistent(wanMode')
      BY <1>1, <2>6, <3>1, NothingIsOverlooked, AcceptedIsConsistent
      DEF manipulate_mode, Settable, is_valid_mode_list
    <3>. QED
      BY <2>2, <2>3, <2>4, <2>5, <3>1, <3>2, CalmTurn
  <2>7. CASE list \notin Settable
    <3>1. UNCHANGED <<wanMode, opMode>>
      BY <1>1, <2>7 DEF manipulate_mode, wan_mode_dm_set
    <3>. QED
      BY <2>2, <2>3, <2>4, <2>5, <3>1, CalmTurn DEF CalmInv
  <2>. QED
    BY <2>6, <2>7
<1>2. ASSUME NEW list \in Values, WriteWANMode(list) PROVE CalmInv'
  <2>1. events = << >> /\ events' = events \o Changed
    BY <1>2, RequestIsCalm DEF WriteWANMode
  <2>2. configured \subseteq Range(wanMode) /\ Range(wanMode) \subseteq lowerLayer
    BY <1>2, <2>1, LayersAreKnown DEF WriteWANMode, CalmInv, OnlyListedModesConfigured
  <2>3. /\ wanMode' = list /\ opMode' = "Manual"
        /\ Range(list) \subseteq Modes
        /\ list \in Accepted /\ list \notin Overlooked
        /\ UNCHANGED <<configured, lowerLayer>>
    BY <1>2, NothingIsOverlooked DEF WriteWANMode, WellBehaved, Benign, setup
  <2>5. Consistent(list)
    BY <2>3, AcceptedIsConsistent
  <2>4. events' = Changed
    BY <2>1, <2>3, CalmQueue DEF OperationModes
  <2>. QED
    BY <2>2, <2>3, <2>4, <2>5, CalmTurn DEF OperationModes
<1>3. ASSUME NEW op \in OperationModes, SetOperationMode(op) \/ WriteOperationMode(op)
      PROVE  CalmInv'
  <2>1. events = << >> /\ events' = events \o Changed
    BY <1>3, RequestIsCalm DEF SetOperationMode, WriteOperationMode
  <2>2. /\ UNCHANGED <<wanMode, configured, lowerLayer>>
        /\ opMode' = op
    BY <1>3 DEF SetOperationMode, WriteOperationMode, setup
  <2>3. wanMode' \in Values
    BY <2>2 DEF TypeOK
  <2>4. events' = Changed
    BY <2>1, <2>2, <2>3, CalmQueue
  <2>5. configured \subseteq Range(wanMode)
    BY <2>1 DEF CalmInv, OnlyListedModesConfigured
  <2>. QED
    BY <2>2, <2>3, <2>4, <2>5, CalmTurn DEF CalmInv
<1>4. CASE WriteApplyAtNextBoot
  BY <1>4 DEF WriteApplyAtNextBoot, setup, CalmInv, OnlyListedModesConfigured,
     PendingInv, Consistent
<1>5. CASE _Reset
  <2>1. CASE wanMode = << >>
    <3>1. events = << >>
      BY <1>5, RequestIsCalm DEF _Reset
    <3>2. UNCHANGED <<wanMode, configured, opMode, lowerLayer>>
      BY <1>5, <2>1 DEF _Reset, SetModes, wan_mode_set, setup
    <3>3. wanMode' \in Values /\ opMode' \in OperationModes
      BY <3>2 DEF TypeOK
    <3>4. events' = Changed
      BY <1>5, <3>1, <3>3, CalmQueue DEF _Reset
    <3>. QED
      BY <3>1, <3>2, <3>3, <3>4, CalmTurn DEF CalmInv, OnlyListedModesConfigured
  <2>2. CASE wanMode # << >>
    <3>1. wanMode \in Values /\ Consistent(wanMode)
      BY DEF TypeOK, CalmInv
    <3>. QED
      BY <1>5, <2>2, <3>1, CalmModuleSet DEF _Reset
  <2>. QED
    BY <2>1, <2>2
<1>. QED
  BY <1>1, <1>2, <1>3, <1>4, <1>5
  DEF ClientStep, _setWANMode, _WANModeEnable, _WANModeDisable

LEMMA CalmFound ==
    ASSUME TypeOK, CalmInv, NEW m \in Modes, LowerLayerFound(m)
    PROVE  CalmInv'
<1>1. /\ lowerLayer \subseteq lowerLayer'
      /\ configured' \subseteq configured \cup Range(wanMode)
      /\ UNCHANGED <<wanMode, opMode, events>>
  BY ReachedIsBounded DEF LowerLayerFound, wan_manager_found_ll, Range
<1>. QED
  BY <1>1 DEF CalmInv, OnlyListedModesConfigured, PendingInv, Consistent

LEMMA CalmStep == TypeOK /\ CalmInv /\ WellBehaved /\ [Next]_vars => CalmInv'
<1>. SUFFICES ASSUME TypeOK, CalmInv, WellBehaved, [Next]_vars PROVE CalmInv'
  OBVIOUS
<1>1. CASE UNCHANGED <<wanMode, opMode, lowerLayer, configured, events>>
  BY <1>1 DEF CalmInv, OnlyListedModesConfigured, PendingInv, Consistent
<1>2. CASE NetModelStep
  BY <1>2, CalmFound DEF NetModelStep, Rewire, WellBehaved, Benign
<1>3. CASE ModuleStep
  <2>1. ASSUME NEW m \in Modes, SensingSetsMode(m) \/ NetworkSelectorSetsMode(m)
        PROVE  CalmInv'
    <3>1. << m >> \in Values /\ Consistent(<< m >>) /\ << m >> # << >>
      BY SingleIsConsistent
    <3>. QED
      BY <2>1, <3>1, CalmModuleSet DEF SensingSetsMode, NetworkSelectorSetsMode
  <2>. QED
    BY <1>1, <1>3, <2>1 DEF ModuleStep, SensingStarts, SensingStops,
       SensingClosesQueries, dm, setup
<1>4. CASE Restart
  <2>1. events = << >> /\ events' = << >>
    BY <1>4 DEF Restart, Calm, WellBehaved, Benign
  <2>2. UNCHANGED <<wanMode, configured>>
    BY <1>4 DEF Restart, dm
  <2>. QED
    BY <2>1, <2>2 DEF CalmInv, OnlyListedModesConfigured, Consistent
<1>5. CASE UNCHANGED vars
  BY <1>1, <1>5 DEF vars
<1>. QED
  BY <1>2, <1>3, <1>4, <1>5, CalmHandleEvent, CalmClientStep DEF Next

\* A good list and what is set up according to it share no physical type.
LEMMA ListedModesShareNoType ==
    ASSUME CalmInv
    PROVE  OneModePerPhysicalType
<1>. SUFFICES ASSUME events = << >>, NEW m \in configured \ Untyped,
                     NEW n \in configured \ Untyped, physical[m] = physical[n]
              PROVE  m = n
  BY DEF OneModePerPhysicalType
<1>1. PICK i \in DOMAIN wanMode, j \in DOMAIN wanMode : m = wanMode[i] /\ n = wanMode[j]
  BY DEF CalmInv, OnlyListedModesConfigured, Range
<1>2. m \in Modes /\ n \in Modes
  BY DEF CalmInv, OnlyListedModesConfigured
<1>. QED
  BY <1>1, <1>2 DEF CalmInv, Consistent

LEMMA InitIsCalm ==
    ASSUME WellBehaved, Init
    PROVE  CalmInv
BY NothingIsOverlooked, AcceptedIsConsistent DEF Init, CalmInv, OnlyListedModesConfigured

\* With a well-behaved environment and no broken mode, at most one change event
\* waits, and it is the last word on WANMode.
THEOREM OneEventWaits ==
    ASSUME WellBehaved
    PROVE  Spec => []CalmInv
<1>1. Init => CalmInv
  BY InitIsCalm
<1>2. TypeOK /\ CalmInv /\ [Next]_vars => CalmInv'
  BY CalmStep
<1>. QED
  BY <1>1, <1>2, TypeCorrect, PTL DEF Spec

\* Once the change events are handled, only listed modes are set up.
THEOREM ConfigurationFollowsList ==
    ASSUME WellBehaved
    PROVE  Spec => []OnlyListedModesConfigured
<1>1. CalmInv => OnlyListedModesConfigured
  BY DEF CalmInv
<1>. QED
  BY <1>1, OneEventWaits, PTL

\* No two of them share a physical type.
THEOREM TypesAreNotShared ==
    ASSUME WellBehaved
    PROVE  Spec => []OneModePerPhysicalType
BY OneEventWaits, ListedModesShareNoType, PTL
=============================================================================
