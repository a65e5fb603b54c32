--------------------------- MODULE AutosensingProofs ---------------------------
(***************************************************************************)
(* Theorems of module Autosensing, for all sets of modes, policies and     *)
(* faults: type correctness, that the module does not run in Manual, that  *)
(* it never runs beside a watched physical interface, and that no          *)
(* wan_mode_up flag is stale.                                              *)
(*                                                                         *)
(* Every step changes the flags in one of few ways (FlagStep) and the IsUp *)
(* queries in one of few ways (QueryStep): what these preserve is proved   *)
(* once, and every action is then one of each.                             *)
(***************************************************************************)
EXTENDS Autosensing, SequenceTheorems, TLAPS

FlagStep ==
    \/ UNCHANGED flags
    \/ opMode = "Automatic" /\ Started
    \/ mod_autosensing_stop
    \/ \E watched \in {{}, physUp} : autosensing_found_mode(watched)

QueryStep ==
    \/ UNCHANGED isUp
    \/ \E list, closed \in SUBSET Modes : nm_query_mode_active(list, closed)
    \/ IsUpAnswer

\* A queued event is going to stop the module.
StopPending(queue) == \E i \in DOMAIN queue : queue[i] \in {"Manual", "ListManual"}

SensingInv == TypeOK /\ NoSensingInManual /\ NoClash /\ NoStaleUpFlag

FlagsOK == physUp \subseteq path /\ bootFinished \in BOOLEAN /\ sensing \in BOOLEAN
QueriesOK == open \subseteq Modes /\ result \in [Modes -> SUBSET Versions] /\ wasUp \subseteq Modes
SettingsOK ==
    /\ opMode \in OperationModes /\ policy \in AllPolicies
    /\ marked \subseteq Modes /\ listed \subseteq Modes
    /\ path \subseteq Modes /\ layer \subseteq Modes
    /\ events \in Seq(SensingEvents)

LEMMA TypeParts == TypeOK <=> FlagsOK /\ QueriesOK /\ SettingsOK
BY DEF TypeOK, FlagsOK, QueriesOK, SettingsOK

-----------------------------------------------------------------------------
(* The ways to change the flags.                                           *)

LEMMA FlagStepKeeps ==
    ASSUME FlagsOK, NoClash, FlagStep, UNCHANGED path
    PROVE  FlagsOK' /\ NoClash'
<1>1. CASE UNCHANGED flags
  BY <1>1 DEF flags, FlagsOK, NoClash
<1>2. CASE Started
  BY <1>2 DEF Started, FlagsOK, NoClash
<1>3. CASE mod_autosensing_stop
  BY <1>3 DEF mod_autosensing_stop, FlagsOK, NoClash
<1>4. CASE \E watched \in {{}, physUp} : autosensing_found_mode(watched)
  BY <1>4 DEF autosensing_found_mode, FlagsOK, NoClash
<1>. QED
  BY <1>1, <1>2, <1>3, <1>4 DEF FlagStep

\* In Manual, no flag step starts the module.
LEMMA FlagStepInManual ==
    ASSUME FlagStep, opMode = "Manual", sensing' = TRUE
    PROVE  sensing
BY DEF FlagStep, flags, mod_autosensing_stop, autosensing_found_mode

LEMMA StartIsFlagStep == mod_autosensing_start => FlagStep
BY DEF mod_autosensing_start, Startable, FlagStep

LEMMA UpdateIsFlagStep == update_sensing => FlagStep
BY DEF update_sensing, FlagStep

LEMMA OperationModeIsFlagStep ==
    ASSUME NEW op, NEW override, NEW known, update_operation_mode(op, override, known)
    PROVE  FlagStep
BY StartIsFlagStep DEF update_operation_mode, FlagStep

LEMMA SetIsBoth ==
    ASSUME NEW list \in SUBSET Modes, NEW closed \in SUBSET Modes,
           wan_mode_set(closed, list)
    PROVE  FlagStep /\ QueryStep
BY StartIsFlagStep DEF wan_mode_set, OpenQueries, FlagStep, QueryStep

-----------------------------------------------------------------------------
(* The ways to change the queries.                                         *)

LEMMA ReopeningKeeps ==
    ASSUME QueriesOK, NoStaleUpFlag,
           NEW list \in SUBSET Modes, NEW closed \in SUBSET Modes,
           nm_query_mode_active(list, closed)
    PROVE  QueriesOK' /\ NoStaleUpFlag'
<1>1. PICK first \in [list -> SUBSET Versions] :
        /\ open' = (open \ closed) \cup list
        /\ result' = [m \in Modes |->
             IF m \in list THEN first[m] ELSE IF m \in closed THEN {} ELSE result[m]]
        /\ wasUp' = (wasUp \ (closed \cup list))
                      \cup {m \in list : wan_mode_up(m, open', result')}
  BY DEF nm_query_mode_active
<1>2. open' \subseteq Modes /\ wasUp' \subseteq Modes
  BY <1>1 DEF QueriesOK
<1>3. ASSUME NEW m \in Modes
      PROVE  result'[m] \in SUBSET Versions
  BY <1>1, <1>3 DEF QueriesOK
<1>4. result' \in [Modes -> SUBSET Versions]
  BY <1>1, <1>3
<1>5. ASSUME NEW m \in wasUp'
      PROVE  wan_mode_up(m, open', result')
  <2>1. CASE m \in list /\ wan_mode_up(m, open', result')
    BY <2>1
  <2>2. CASE m \in wasUp \ (closed \cup list)
    <3>1. m \in Modes /\ m \in open /\ Needed[m] \subseteq result[m]
      BY <2>2 DEF QueriesOK, NoStaleUpFlag, wan_mode_up
    <3>2. m \in open' /\ result'[m] = result[m]
      BY <1>1, <2>2, <3>1
    <3>. QED
      BY <3>1, <3>2 DEF wan_mode_up
  <2>. QED
    BY <1>1, <1>5, <2>1, <2>2
<1>. QED
  BY <1>2, <1>4, <1>5 DEF QueriesOK, NoStaleUpFlag

LEMMA AnswerKeeps ==
    ASSUME QueriesOK, NoStaleUpFlag, IsUpAnswer
    PROVE  QueriesOK' /\ NoStaleUpFlag'
<1>0. PICK m \in Modes : \E version \in Needed[m], active \in BOOLEAN :
        nm_query_mode_active_handle_flags(m, version, active)
  BY DEF IsUpAnswer
<1>1. PICK version \in Needed[m], active \in BOOLEAN :
        nm_query_mode_active_handle_flags(m, version, active)
  BY <1>0
<1>2. /\ UNCHANGED open
      /\ result' = [result EXCEPT ![m] =
           IF active THEN @ \cup {version} ELSE @ \ {version}]
      /\ wasUp' = IF wan_mode_up(m, open, result') THEN wasUp \cup {m} ELSE wasUp \ {m}
  BY <1>1 DEF nm_query_mode_active_handle_flags
<1>3. version \in Versions
  BY NeededAssumption
<1>4. QueriesOK'
  BY <1>2, <1>3 DEF QueriesOK
<1>5. ASSUME NEW n \in wasUp'
      PROVE  wan_mode_up(n, open', result')
  <2>1. CASE n = m
    BY <1>2, <1>5, <2>1 DEF wan_mode_up
  <2>2. CASE n # m
    <3>1. n \in wasUp /\ n \in Modes
      BY <1>2, <1>5, <2>2 DEF QueriesOK
    <3>2. result'[n] = result[n]
      BY <1>2, <2>2, <3>1 DEF QueriesOK
    <3>. QED
      BY <1>2, <3>1, <3>2 DEF NoStaleUpFlag, wan_mode_up
  <2>. QED
    BY <2>1, <2>2
<1>. QED
  BY <1>4, <1>5 DEF NoStaleUpFlag

LEMMA QueryStepKeeps ==
    ASSUME QueriesOK, NoStaleUpFlag, QueryStep
    PROVE  QueriesOK' /\ NoStaleUpFlag'
<1>1. CASE UNCHANGED isUp
  BY <1>1 DEF isUp, QueriesOK, NoStaleUpFlag, wan_mode_up
<1>2. CASE \E list, closed \in SUBSET Modes : nm_query_mode_active(list, closed)
  BY <1>2, ReopeningKeeps
<1>. QED
  BY <1>1, <1>2, AnswerKeeps DEF QueryStep

-----------------------------------------------------------------------------
(* The queue.                                                              *)

LEMMA NothingQueued == << >> \in Seq(SensingEvents)
BY EmptySeq

LEMMA NothingAnswered == [m \in Modes |-> {}] \in [Modes -> SUBSET Versions]
<1>1. {} \in SUBSET Versions
  OBVIOUS
<1>. QED
  BY <1>1

LEMMA PendingGrows ==
    ASSUME NEW queue \in Seq(SensingEvents), NEW more \in Seq(SensingEvents),
           StopPending(queue)
    PROVE  StopPending(queue \o more)
<1>1. PICK i \in DOMAIN queue : queue[i] \in {"Manual", "ListManual"}
  BY DEF StopPending
<1>2. i \in DOMAIN (queue \o more) /\ (queue \o more)[i] = queue[i]
  BY <1>1, ConcatProperties
<1>. QED
  BY <1>1, <1>2 DEF StopPending

LEMMA PendingAppend ==
    ASSUME NEW queue \in Seq(SensingEvents), NEW e \in SensingEvents,
           StopPending(queue) \/ e \in {"Manual", "ListManual"}
    PROVE  StopPending(Append(queue, e))
<1>1. CASE StopPending(queue)
  BY <1>1, AppendProperties DEF StopPending
<1>2. CASE e \in {"Manual", "ListManual"}
  <2>1. Len(queue) + 1 \in DOMAIN Append(queue, e)
        /\ Append(queue, e)[Len(queue) + 1] = e
    BY AppendProperties
  <2>. QED
    BY <1>2, <2>1 DEF StopPending
<1>. QED
  BY <1>1, <1>2

LEMMA PendingTail ==
    ASSUME NEW queue \in Seq(SensingEvents), queue # << >>, StopPending(queue),
           Head(queue) \notin {"Manual", "ListManual"}
    PROVE  StopPending(Tail(queue))
<1>1. PICK i \in DOMAIN queue : queue[i] \in {"Manual", "ListManual"}
  BY DEF StopPending
<1>2. i # 1
  BY <1>1
<1>3. i - 1 \in DOMAIN Tail(queue) /\ Tail(queue)[i - 1] = queue[i]
  BY <1>1, <1>2, HeadTailProperties
<1>. QED
  BY <1>1, <1>3 DEF StopPending

-----------------------------------------------------------------------------
(* Steps.                                                                  *)

LEMMA StepKeeps ==
    ASSUME SensingInv, FlagStep, QueryStep, UNCHANGED path, SettingsOK',
           opMode' = "Manual" /\ sensing' => StopPending(events')
    PROVE  SensingInv'
<1>1. FlagsOK' /\ NoClash'
  BY FlagStepKeeps, TypeParts DEF SensingInv
<1>2. QueriesOK' /\ NoStaleUpFlag'
  BY QueryStepKeeps, TypeParts DEF SensingInv
<1>3. NoSensingInManual'
  BY DEF NoSensingInManual, StopPending
<1>4. TypeOK'
  BY <1>1, <1>2 DEF TypeOK, FlagsOK, QueriesOK, SettingsOK
<1>. QED
  BY <1>1, <1>2, <1>3, <1>4 DEF SensingInv

\* Steps that leave OperationMode and the queue alone.
LEMMA QuietStepKeeps ==
    ASSUME SensingInv, FlagStep, QueryStep,
           UNCHANGED <<opMode, policy, marked, path, events>>,
           listed' \subseteq Modes, layer' \subseteq Modes
    PROVE  SensingInv'
<1>1. SettingsOK'
  BY DEF SensingInv, TypeOK, SettingsOK
<1>2. ASSUME opMode' = "Manual", sensing' PROVE StopPending(events')
  <2>1. sensing \in BOOLEAN /\ sensing' \in BOOLEAN
    BY FlagStepKeeps, TypeParts DEF SensingInv, FlagsOK
  <2>2. sensing
    BY <1>2, <2>1, FlagStepInManual
  <2>. QED
    BY <1>2, <2>2 DEF SensingInv, NoSensingInManual, StopPending
<1>. QED
  BY <1>1, <1>2, StepKeeps

LEMMA ClosingsTyped == TypeOK => Closings \subseteq SUBSET Modes
BY DEF Closings, TypeOK

LEMMA SetUpsTyped == TypeOK => SetUps \subseteq SUBSET Modes
BY DEF SetUps, TypeOK

LEMMA HandleKeeps == SensingInv /\ HandleSensingEvent => SensingInv'
<1>. SUFFICES ASSUME SensingInv, HandleSensingEvent PROVE SensingInv'
  OBVIOUS
<1>. DEFINE e == Head(events)
<1>1. TypeOK /\ events \in Seq(SensingEvents) /\ events # << >>
  BY DEF SensingInv, TypeOK, HandleSensingEvent
<1>2. /\ UNCHANGED <<opMode, policy, marked, listed, path, layer>>
      /\ events' = Tail(events) /\ events' \in Seq(SensingEvents)
  BY <1>1, HeadTailProperties DEF HandleSensingEvent, netmodel
<1>3. SettingsOK'
  BY <1>1, <1>2 DEF TypeOK, SettingsOK
<1>4. CASE e = "ListManual"
  <2>1. ListThenManual
    BY <1>4 DEF HandleSensingEvent
  <2>2. physUp' = physUp \cup (marked \cap path) /\ sensing' = FALSE
    BY <2>1 DEF ListThenManual
  <2>3. bootFinished' \in BOOLEAN
    BY <1>1, <2>1 DEF ListThenManual, TypeOK
  <2>4. QueryStep
    BY <1>1, <2>1, ClosingsTyped, SetUpsTyped DEF ListThenManual, QueryStep
  <2>5. QueriesOK' /\ NoStaleUpFlag'
    BY <2>4, QueryStepKeeps, TypeParts DEF SensingInv
  <2>6. FlagsOK'
    BY <1>1, <1>2, <2>2, <2>3 DEF TypeOK, FlagsOK
  <2>7. TypeOK'
    BY <1>3, <2>5, <2>6 DEF TypeOK, FlagsOK, QueriesOK, SettingsOK
  <2>. QED
    BY <2>2, <2>5, <2>7 DEF SensingInv, NoClash, NoSensingInManual
<1>5. CASE e = "List"
  <2>1. _set_wan_mode
    BY <1>5 DEF HandleSensingEvent
  <2>2. FlagStep /\ QueryStep
    <3>1. CASE UNCHANGED <<isUp, flags>>
      BY <3>1 DEF FlagStep, QueryStep
    <3>2. CASE \E closed \in Closings, up \in SetUps : wan_mode_set(closed, up)
      BY <1>1, <3>2, ClosingsTyped, SetUpsTyped, SetIsBoth
    <3>. QED
      BY <2>1, <3>1, <3>2 DEF _set_wan_mode
  <2>3. opMode' = "Manual" /\ sensing' => StopPending(events')
    BY <1>1, <1>2, <1>5, <2>2, FlagStepInManual, PendingTail, FlagStepKeeps, TypeParts
       DEF SensingInv, NoSensingInManual, StopPending, FlagsOK
  <2>. QED
    BY <1>2, <1>3, <2>2, <2>3, StepKeeps
<1>6. CASE e = "Manual"
  <2>1. mod_autosensing_stop /\ UNCHANGED isUp
    BY <1>6 DEF HandleSensingEvent, update_operation_mode
  <2>2. FlagStep /\ QueryStep /\ sensing' = FALSE
    BY <2>1 DEF FlagStep, QueryStep, mod_autosensing_stop
  <2>. QED
    BY <1>2, <1>3, <2>2, StepKeeps
<1>7. CASE e \in {"Automatic", "Update"}
  <2>1. FlagStep
    BY <1>7, UpdateIsFlagStep, OperationModeIsFlagStep DEF HandleSensingEvent
  <2>2. QueryStep
    BY <1>7 DEF HandleSensingEvent, QueryStep
  <2>3. opMode' = "Manual" /\ sensing' => StopPending(events')
    BY <1>1, <1>2, <1>7, <2>1, FlagStepInManual, PendingTail, FlagStepKeeps, TypeParts
       DEF SensingInv, NoSensingInManual, StopPending, FlagsOK
  <2>. QED
    BY <1>2, <1>3, <2>1, <2>2, <2>3, StepKeeps
<1>8. e \in SensingEvents
  BY <1>1, HeadTailProperties
<1>. QED
  BY <1>4, <1>5, <1>6, <1>7, <1>8 DEF SensingEvents

\* A change of the data model that queues one event.
LEMMA WriteKeeps ==
    ASSUME SensingInv, NEW e \in SensingEvents, events' = Append(events, e),
           UNCHANGED <<path, layer, isUp, flags>>,
           opMode' = opMode \/ e = opMode',
           opMode' \in OperationModes, policy' \in AllPolicies,
           marked' \subseteq Modes, listed' \subseteq Modes
    PROVE  SensingInv'
<1>1. events \in Seq(SensingEvents)
  BY DEF SensingInv, TypeOK
<1>2. SettingsOK'
  BY <1>1, AppendProperties DEF SensingInv, TypeOK, SettingsOK
<1>3. FlagStep /\ QueryStep
  BY DEF FlagStep, QueryStep
<1>4. ASSUME opMode' = "Manual", sensing' PROVE StopPending(events')
  <2>1. sensing /\ (opMode = "Manual" \/ e = "Manual")
    BY <1>4 DEF flags
  <2>2. StopPending(events) \/ e = "Manual"
    BY <2>1 DEF SensingInv, NoSensingInManual, StopPending
  <2>. QED
    BY <1>1, <2>2, PendingAppend
<1>. QED
  BY <1>2, <1>3, <1>4, StepKeeps

LEMMA ManipulateKeeps ==
    ASSUME SensingInv, NEW list \in SUBSET Modes, NEW refused \in BOOLEAN,
           manipulate_mode(list, refused)
    PROVE  SensingInv'
<1>. DEFINE more == CASE list # listed /\ opMode = "Automatic" -> <<"ListManual">>
                      [] list # listed /\ opMode = "Manual" -> <<"List">>
                      [] list = listed /\ opMode = "Automatic" -> <<"Manual">>
                      [] OTHER -> << >>
<1>1. TypeOK /\ events \in Seq(SensingEvents) /\ opMode \in {"Manual", "Automatic"}
  BY DEF SensingInv, TypeOK, OperationModes
<1>2. /\ UNCHANGED <<policy, marked, path, layer>> /\ UNCHANGED isUp
      /\ IF opMode = "Automatic" THEN mod_autosensing_stop ELSE UNCHANGED flags
  BY DEF manipulate_mode, netmodel
<1>3. FlagStep /\ QueryStep
  BY <1>2 DEF FlagStep, QueryStep
<1>4. CASE refused
  BY <1>1, <1>2, <1>3, <1>4, QuietStepKeeps DEF manipulate_mode, TypeOK
<1>5. CASE ~refused
  <2>1. opMode' = "Manual" /\ listed' = list /\ events' = events \o more
    BY <1>5 DEF manipulate_mode
  <2>2. more \in Seq(SensingEvents)
    <3>1. more \in {<<"ListManual">>, <<"List">>, <<"Manual">>, << >>}
      OBVIOUS
    <3>2. {<<"ListManual">>, <<"List">>, <<"Manual">>, << >>} \subseteq Seq(SensingEvents)
      BY NothingQueued DEF SensingEvents
    <3>. QED
      BY <3>1, <3>2
  <2>. HIDE DEF more
  <2>3. SettingsOK'
    BY <1>1, <1>2, <2>1, <2>2, ConcatProperties DEF TypeOK, SettingsOK, OperationModes
  <2>4. ASSUME sensing' PROVE StopPending(events')
    <3>1. opMode = "Manual" /\ sensing
      BY <1>1, <1>2, <2>4 DEF mod_autosensing_stop, flags
    <3>2. StopPending(events)
      BY <3>1 DEF SensingInv, NoSensingInManual, StopPending
    <3>. QED
      BY <1>1, <2>1, <2>2, <3>2, PendingGrows
  <2>. QED
    BY <1>2, <1>3, <2>3, <2>4, StepKeeps
<1>. QED
  BY <1>4, <1>5

LEMMA ResetKeeps == SensingInv /\ _Reset => SensingInv'
<1>. SUFFICES ASSUME SensingInv, _Reset PROVE SensingInv'
  OBVIOUS
<1>1. TypeOK /\ listed \in SUBSET Modes /\ {} \in SUBSET Modes
  BY DEF SensingInv, TypeOK
<1>2. FlagStep /\ QueryStep
  <2>1. CASE wan_mode_set(listed, listed)
    BY <1>1, <2>1, SetIsBoth
  <2>2. CASE \E closed \in Closings : wan_mode_set(closed, {})
    BY <1>1, <2>2, ClosingsTyped, SetIsBoth
  <2>. QED
    BY <2>1, <2>2 DEF _Reset
<1>. QED
  BY <1>1, <1>2, QuietStepKeeps DEF _Reset, netmodel, TypeOK

LEMMA ClientKeeps == SensingInv /\ ClientStep => SensingInv'
<1>. SUFFICES ASSUME SensingInv, ClientStep PROVE SensingInv'
  OBVIOUS
<1>. USE DEF SensingEvents, OperationModes, netmodel
<1>1. TypeOK
  BY DEF SensingInv
<1>2. ASSUME NEW op \in OperationModes, WriteOperationMode(op) PROVE SensingInv'
  <2>1. op \in SensingEvents /\ op = opMode'
    BY <1>2 DEF WriteOperationMode
  <2>. QED
    BY <1>1, <1>2, <2>1, WriteKeeps DEF WriteOperationMode, TypeOK
<1>3. ASSUME NEW p \in Policies, WriteSensingPolicy(p) PROVE SensingInv'
  BY <1>1, <1>3, WriteKeeps, PoliciesAssumption DEF WriteSensingPolicy, TypeOK
<1>4. ASSUME NEW m \in Modes, ToggleEnableSensing(m) PROVE SensingInv'
  BY <1>1, <1>4, WriteKeeps DEF ToggleEnableSensing, TypeOK
<1>5. CASE ChangeSensingPriority
  BY <1>1, <1>5, WriteKeeps DEF ChangeSensingPriority, TypeOK
<1>6. ASSUME NEW list \in SUBSET Modes, WriteWANMode(list) PROVE SensingInv'
  BY <1>1, <1>6, WriteKeeps DEF WriteWANMode, TypeOK
<1>. QED
  BY <1>2, <1>3, <1>4, <1>5, <1>6, ManipulateKeeps, ResetKeeps DEF ClientStep

LEMMA FoundLayerKeeps ==
    ASSUME SensingInv, NEW m \in Modes, NEW sfpOk \in BOOLEAN,
           wan_manager_found_ll(m, sfpOk)
    PROVE  SensingInv'
<1>1. TypeOK /\ listed \in SUBSET Modes /\ {} \in SUBSET Modes
  BY DEF SensingInv, TypeOK
<1>2. FlagStep /\ QueryStep
  <2>1. CASE sfpOk /\ opMode = "Automatic"
    BY <2>1, OperationModeIsFlagStep DEF wan_manager_found_ll, QueryStep
  <2>2. CASE sfpOk /\ opMode = "Manual"
    <3>1. PICK up \in SUBSET Modes : OpenQueries(up, {})
      BY <1>1, <2>2 DEF wan_manager_found_ll
    <3>. QED
      BY <1>1, <3>1, SetIsBoth DEF wan_mode_set
  <2>3. CASE UNCHANGED <<isUp, flags>>
    BY <2>3 DEF FlagStep, QueryStep
  <2>4. opMode \in {"Manual", "Automatic"}
    BY <1>1 DEF TypeOK, OperationModes
  <2>. QED
    BY <2>1, <2>2, <2>3, <2>4 DEF wan_manager_found_ll
<1>. QED
  BY <1>1, <1>2, QuietStepKeeps DEF wan_manager_found_ll, TypeOK

LEMMA PathKeeps ==
    ASSUME SensingInv, NEW m \in Modes, PathFound(m)
    PROVE  SensingInv'
BY DEF SensingInv, PathFound, isUp, flags, TypeOK, NoSensingInManual, NoClash,
       NoStaleUpFlag, wan_mode_up

LEMMA RewireKeeps ==
    ASSUME SensingInv, NEW m \in Modes, Rewire(m)
    PROVE  SensingInv'
BY DEF SensingInv, Rewire, TypeOK, NoSensingInManual, NoClash, NoStaleUpFlag, wan_mode_up

LEMMA NetModelKeeps == SensingInv /\ NetModelStep => SensingInv'
<1>. SUFFICES ASSUME SensingInv, NetModelStep PROVE SensingInv'
  OBVIOUS
<1>1. CASE IsUpAnswer
  <2>1. PICK m \in Modes : \E version \in Needed[m], active \in BOOLEAN :
          nm_query_mode_active_handle_flags(m, version, active)
    BY <1>1 DEF IsUpAnswer
  <2>2. FlagStep /\ UNCHANGED <<opMode, policy, marked, listed, path, layer, events>>
    BY <2>1, StartIsFlagStep DEF nm_query_mode_active_handle_flags, FlagStep, netmodel
  <2>3. QueryStep
    BY <1>1 DEF QueryStep
  <2>. QED
    BY <2>2, <2>3, QuietStepKeeps DEF SensingInv, TypeOK
<1>. QED
  BY <1>1, FoundLayerKeeps, PathKeeps, RewireKeeps DEF NetModelStep

\* The module or the network selector sets a mode.
LEMMA SetOneModeSteps ==
    ASSUME TypeOK, NEW m \in Modes, SetOneMode(m)
    PROVE  /\ \E closed, up \in SUBSET Modes : wan_mode_set(closed, up)
           /\ FlagStep /\ QueryStep
           /\ listed' \subseteq Modes
           /\ UNCHANGED <<opMode, policy, marked, path, layer>>
           /\ events' = events \/ events' = Append(events, "List")
<1>1. PICK closed \in SUBSET Modes, up \in SUBSET Modes : wan_mode_set(closed, up)
  <2>1. listed \in SUBSET Modes /\ {m} \in SUBSET Modes /\ {} \in SUBSET Modes
    BY DEF TypeOK
  <2>. QED
    BY <2>1, ClosingsTyped DEF SetOneMode
<1>2. FlagStep /\ QueryStep
  BY <1>1, SetIsBoth
<1>3. /\ listed' \subseteq Modes
      /\ UNCHANGED <<opMode, policy, marked, path, layer>>
      /\ events' = events \/ events' = Append(events, "List")
  BY DEF SetOneMode, netmodel, TypeOK
<1>. QED
  BY <1>1, <1>2, <1>3

LEMMA SetOneModeKeeps ==
    ASSUME SensingInv, NEW m \in Modes, SetOneMode(m)
    PROVE  SensingInv'
<1>1. /\ FlagStep /\ QueryStep /\ listed' \subseteq Modes
      /\ UNCHANGED <<opMode, policy, marked, path, layer>>
  BY SetOneModeSteps DEF SensingInv
<1>2. TypeOK /\ events \in Seq(SensingEvents)
  BY DEF SensingInv, TypeOK
<1>3. CASE UNCHANGED events
  BY <1>1, <1>2, <1>3, QuietStepKeeps DEF TypeOK
<1>4. CASE events' = Append(events, "List")
  <2>1. "List" \in SensingEvents
    BY DEF SensingEvents
  <2>2. SettingsOK'
    BY <1>1, <1>2, <1>4, <2>1, AppendProperties DEF TypeOK, SettingsOK
  <2>3. ASSUME opMode' = "Manual", sensing' PROVE StopPending(events')
    <3>1. sensing \in BOOLEAN /\ sensing' \in BOOLEAN
      BY <1>1, FlagStepKeeps, TypeParts DEF SensingInv, FlagsOK
    <3>2. sensing
      BY <1>1, <2>3, <3>1, FlagStepInManual
    <3>3. StopPending(events)
      BY <1>1, <2>3, <3>2 DEF SensingInv, NoSensingInManual, StopPending
    <3>. QED
      BY <1>2, <1>4, <2>1, <3>3, PendingAppend
  <2>. QED
    BY <1>1, <2>2, <2>3, StepKeeps
<1>. QED
  BY <1>2, <1>3, <1>4, SetOneModeSteps

LEMMA ModuleKeeps == SensingInv /\ ModuleStep => SensingInv'
<1>. SUFFICES ASSUME SensingInv, ModuleStep PROVE SensingInv'
  OBVIOUS
<1>1. TypeOK
  BY DEF SensingInv
<1>2. ASSUME NEW m \in Modes, autosensing_set_wan_mode(m) \/ network_selector_set_wan_mode(m)
      PROVE  SensingInv'
  BY <1>2, SetOneModeKeeps DEF autosensing_set_wan_mode, network_selector_set_wan_mode
<1>3. CASE SensingEnds
  BY <1>1, <1>3, QuietStepKeeps DEF SensingEnds, FlagStep, QueryStep, netmodel, TypeOK
<1>4. CASE SensingClosesQueries
  BY <1>1, <1>4, QuietStepKeeps DEF SensingClosesQueries, FlagStep, QueryStep, netmodel, TypeOK
<1>5. CASE SfpDetected
  BY <1>1, <1>5, QuietStepKeeps DEF SfpDetected, FlagStep, QueryStep, netmodel, TypeOK
<1>. QED
  BY <1>2, <1>3, <1>4, <1>5 DEF ModuleStep

LEMMA RestartKeeps == SensingInv /\ Restart => SensingInv'
<1>. SUFFICES ASSUME SensingInv, Restart PROVE SensingInv'
  OBVIOUS
<1>1. TypeOK'
  <2>1. events' \in Seq(SensingEvents) /\ result' \in [Modes -> SUBSET Versions]
    BY NothingQueued, NothingAnswered DEF Restart
  <2>. QED
    BY <2>1 DEF SensingInv, Restart, TypeOK
<1>. QED
  BY <1>1 DEF SensingInv, Restart, NoSensingInManual, NoClash, NoStaleUpFlag

-----------------------------------------------------------------------------
(* Theorems.                                                               *)

LEMMA SensingInduction == Spec => []SensingInv
<1>1. Init => SensingInv
  <2>. SUFFICES ASSUME Init PROVE SensingInv
    OBVIOUS
  <2>1. events \in Seq(SensingEvents) /\ result \in [Modes -> SUBSET Versions]
    BY NothingQueued, NothingAnswered DEF Init
  <2>2. TypeOK
    BY <2>1, PoliciesAssumption DEF Init, TypeOK
  <2>. QED
    BY <2>2 DEF Init, SensingInv, NoSensingInManual, NoClash, NoStaleUpFlag
<1>2. SensingInv /\ [Next]_vars => SensingInv'
  <2>. SUFFICES ASSUME SensingInv, [Next]_vars PROVE SensingInv'
    OBVIOUS
  <2>1. CASE UNCHANGED vars
    BY <2>1 DEF vars, netmodel, isUp, flags, SensingInv, TypeOK, NoSensingInManual,
                NoClash, NoStaleUpFlag, wan_mode_up
  <2>. QED
    BY <2>1, HandleKeeps, ClientKeeps, NetModelKeeps, ModuleKeeps, RestartKeeps DEF Next
<1>. QED
  BY <1>1, <1>2, PTL DEF Spec

\* The state of the core's side of autosensing has its types, and every open
\* query of a physical interface belongs to a mode whose path is known.
THEOREM SensingTypeCorrect == Spec => []TypeOK
BY SensingInduction, PTL DEF SensingInv

\* In Manual the module runs at most until the queued change to Manual is
\* handled (autosensing.c:240-333 with the handlers that call it), for all
\* modes, policies and faults.
THEOREM ManualStopsSensing == Spec => []NoSensingInManual
BY SensingInduction, PTL DEF SensingInv

\* The module never runs while a physical interface is watched
\* (autosensing.c:266-271).
THEOREM SensingNeverClashes == Spec => []NoClash
BY SensingInduction, PTL DEF SensingInv

\* The wan_mode_up flag of a mode is never stale (nm_query.c:219-246, 540).
THEOREM UpFlagIsTrue == Spec => []NoStaleUpFlag
BY SensingInduction, PTL DEF SensingInv

-----------------------------------------------------------------------------
(* Continuous sensing is never left idle, when none of the faults occurs.  *)
(* NeverIdle is not inductive: handling a queued change to Manual stops    *)
(* the module although OperationMode may be Automatic again, and that a    *)
(* mode is lost restarts it only if its flag was set.                      *)

Busy == sensing \/ \E m \in Modes : wan_mode_up(m, open, result)

\* The module should run and does not.
Idle ==
    /\ opMode = "Automatic" /\ policy = "Continuous"
    /\ marked # {} /\ marked \subseteq layer
    /\ ~Busy

StartPending(queue) == \E i \in DOMAIN queue : queue[i] \in {"Automatic", "Update"}

\* In Automatic, every queued stop is followed by a queued start.
StopsUndone(queue) ==
    \A i \in DOMAIN queue : queue[i] \in {"Manual", "ListManual"} =>
        \E j \in DOMAIN queue : j > i /\ queue[j] = "Automatic"

StopIsUndone == opMode = "Automatic" => StopsUndone(events)

\* Every mode that is up has its flag set.
UpIsFlagged == \A m \in Modes : wan_mode_up(m, open, result) => m \in wasUp

IdleInv == NeverIdle /\ StopIsUndone /\ UpIsFlagged

LEMMA NeverIdleMeans == NeverIdle <=> (Idle => StartPending(events))
BY DEF NeverIdle, Idle, Busy, StartPending

LEMMA StartPendingAppend ==
    ASSUME NEW queue \in Seq(SensingEvents), NEW e \in SensingEvents,
           StartPending(queue) \/ e \in {"Automatic", "Update"}
    PROVE  StartPending(Append(queue, e))
<1>1. CASE StartPending(queue)
  BY <1>1, AppendProperties DEF StartPending
<1>2. CASE e \in {"Automatic", "Update"}
  <2>1. Len(queue) + 1 \in DOMAIN Append(queue, e)
        /\ Append(queue, e)[Len(queue) + 1] = e
    BY AppendProperties
  <2>. QED
    BY <1>2, <2>1 DEF StartPending
<1>. QED
  BY <1>1, <1>2

LEMMA StopsUndoneAppend ==
    ASSUME NEW queue \in Seq(SensingEvents), NEW e \in SensingEvents,
           e = "Automatic" \/ (StopsUndone(queue) /\ e \notin {"Manual", "ListManual"})
    PROVE  StopsUndone(Append(queue, e))
<1>. DEFINE longer == Append(queue, e)
<1>1. /\ DOMAIN longer = 1 .. Len(queue) + 1 /\ DOMAIN queue = 1 .. Len(queue)
      /\ longer[Len(queue) + 1] = e /\ Len(queue) \in Nat
      /\ \A i \in DOMAIN queue : longer[i] = queue[i]
  BY AppendProperties
<1>. HIDE DEF longer
<1>. SUFFICES ASSUME NEW i \in DOMAIN longer, longer[i] \in {"Manual", "ListManual"}
              PROVE  \E j \in DOMAIN longer : j > i /\ longer[j] = "Automatic"
  BY DEF StopsUndone, longer
<1>2. e \notin {"Manual", "ListManual"}
  OBVIOUS
<1>3. i \in DOMAIN queue /\ i < Len(queue) + 1
  BY <1>1, <1>2
<1>4. CASE e = "Automatic"
  BY <1>1, <1>3, <1>4
<1>5. CASE StopsUndone(queue)
  BY <1>1, <1>3, <1>5 DEF StopsUndone
<1>. QED
  BY <1>4, <1>5

LEMMA StopsUndoneTail ==
    ASSUME NEW queue \in Seq(SensingEvents), queue # << >>, StopsUndone(queue)
    PROVE  /\ StopsUndone(Tail(queue))
           /\ Head(queue) \in {"Manual", "ListManual"} => StartPending(Tail(queue))
<1>. DEFINE rest == Tail(queue)
<1>1. /\ DOMAIN queue = 1 .. Len(queue) /\ Len(queue) \in Nat /\ Len(queue) > 0
      /\ DOMAIN rest = 1 .. Len(queue) - 1
      /\ \A i \in DOMAIN rest : rest[i] = queue[i + 1]
      /\ Head(queue) = queue[1]
  BY HeadTailProperties
<1>. HIDE DEF rest
<1>2. ASSUME NEW i \in DOMAIN rest, rest[i] \in {"Manual", "ListManual"}
      PROVE  \E j \in DOMAIN rest : j > i /\ rest[j] = "Automatic"
  <2>1. PICK j \in DOMAIN queue : j > i + 1 /\ queue[j] = "Automatic"
    BY <1>1, <1>2 DEF StopsUndone
  <2>2. j - 1 \in DOMAIN rest /\ j - 1 > i /\ rest[j - 1] = "Automatic"
    BY <1>1, <2>1
  <2>. QED
    BY <2>2
<1>3. ASSUME Head(queue) \in {"Manual", "ListManual"}
      PROVE  StartPending(rest)
  <2>1. PICK j \in DOMAIN queue : j > 1 /\ queue[j] = "Automatic"
    BY <1>1, <1>3 DEF StopsUndone
  <2>2. j - 1 \in DOMAIN rest /\ rest[j - 1] = "Automatic"
    BY <1>1, <2>1
  <2>. QED
    BY <2>2 DEF StartPending
<1>. QED
  BY <1>2, <1>3 DEF StopsUndone, rest

LEMMA StartPendingTail ==
    ASSUME NEW queue \in Seq(SensingEvents), queue # << >>, StartPending(queue),
           Head(queue) \notin {"Automatic", "Update"}
    PROVE  StartPending(Tail(queue))
<1>1. PICK i \in DOMAIN queue : queue[i] \in {"Automatic", "Update"}
  BY DEF StartPending
<1>2. i # 1
  BY <1>1
<1>3. i - 1 \in DOMAIN Tail(queue) /\ Tail(queue)[i - 1] = queue[i]
  BY <1>1, <1>2, HeadTailProperties
<1>. QED
  BY <1>1, <1>3 DEF StartPending

LEMMA FlaggedKeeps ==
    ASSUME QueriesOK, UpIsFlagged, QueryStep
    PROVE  UpIsFlagged'
<1>. SUFFICES ASSUME NEW n \in Modes, wan_mode_up(n, open', result')
              PROVE  n \in wasUp'
  BY DEF UpIsFlagged
<1>1. CASE UNCHANGED isUp
  BY <1>1 DEF isUp, UpIsFlagged
<1>2. ASSUME NEW list \in SUBSET Modes, NEW closed \in SUBSET Modes,
             nm_query_mode_active(list, closed)
      PROVE  n \in wasUp'
  <2>1. PICK first \in [list -> SUBSET Versions] :
          /\ open' = (open \ closed) \cup list
          /\ result' = [m \in Modes |->
               IF m \in list THEN first[m] ELSE IF m \in closed THEN {} ELSE result[m]]
          /\ wasUp' = (wasUp \ (closed \cup list))
                        \cup {m \in list : wan_mode_up(m, open', result')}
    BY <1>2 DEF nm_query_mode_active
  <2>2. CASE n \in list
    BY <2>1, <2>2
  <2>3. CASE n \notin list
    <3>1. n \in open \ closed /\ result'[n] = result[n]
      BY <2>1, <2>3 DEF wan_mode_up
    <3>2. wan_mode_up(n, open, result)
      BY <3>1 DEF wan_mode_up
    <3>. QED
      BY <2>1, <2>3, <3>1, <3>2 DEF UpIsFlagged
  <2>. QED
    BY <2>2, <2>3
<1>3. CASE IsUpAnswer
  <2>1. PICK m \in Modes : \E version \in Needed[m], active \in BOOLEAN :
          nm_query_mode_active_handle_flags(m, version, active)
    BY <1>3 DEF IsUpAnswer
  <2>2. /\ UNCHANGED open
        /\ wasUp' = IF wan_mode_up(m, open, result') THEN wasUp \cup {m} ELSE wasUp \ {m}
    BY <2>1 DEF nm_query_mode_active_handle_flags
  <2>3. CASE n = m
    BY <2>2, <2>3
  <2>4. CASE n # m
    <3>1. result'[n] = result[n]
      BY <2>1, <2>4 DEF nm_query_mode_active_handle_flags, QueriesOK
    <3>. QED
      BY <2>2, <2>4, <3>1 DEF UpIsFlagged, wan_mode_up
  <2>. QED
    BY <2>3, <2>4
<1>. QED
  BY <1>1, <1>2, <1>3 DEF QueryStep

\* A step that leaves the settings and the queue alone and takes no work away.
LEMMA BusyStepKeeps ==
    ASSUME IdleInv, UpIsFlagged', UNCHANGED <<opMode, policy, marked, events>>,
           Idle' => layer' \subseteq layer,
           Idle' => ~Busy
    PROVE  IdleInv'
<1>1. NeverIdle'
  <2>. SUFFICES ASSUME Idle' PROVE StartPending(events')
    BY DEF NeverIdle, Idle, Busy, StartPending
  <2>1. Idle
    BY DEF Idle
  <2>. QED
    BY <2>1, NeverIdleMeans DEF IdleInv
<1>2. StopIsUndone'
  BY DEF IdleInv, StopIsUndone
<1>. QED
  BY <1>1, <1>2 DEF IdleInv

\* A change of the data model that queues one event.
LEMMA IdleWriteKeeps ==
    ASSUME SensingInv, IdleInv, NEW e \in SensingEvents, events' = Append(events, e),
           UNCHANGED <<layer, isUp, flags>>,
           \/ e \in {"Automatic", "Update"}
           \/ opMode' = "Manual"
           \/ e = "List" /\ UNCHANGED <<opMode, policy, marked>>,
           e = "Automatic" \/ opMode' = "Manual" \/ (opMode' = opMode /\ e # "Manual"),
           e # "ListManual"
    PROVE  IdleInv'
<1>1. events \in Seq(SensingEvents)
  BY DEF SensingInv, TypeOK
<1>2. UpIsFlagged'
  BY DEF IdleInv, UpIsFlagged, isUp, wan_mode_up
<1>3. StopIsUndone'
  BY <1>1, StopsUndoneAppend DEF IdleInv, StopIsUndone
<1>4. NeverIdle'
  <2>. SUFFICES ASSUME Idle' PROVE StartPending(events')
    BY DEF NeverIdle, Idle, Busy, StartPending
  <2>1. CASE e \in {"Automatic", "Update"}
    BY <1>1, <2>1, StartPendingAppend
  <2>2. CASE e = "List" /\ UNCHANGED <<opMode, policy, marked>>
    <3>1. Idle
      BY <2>2 DEF Idle, Busy, isUp, flags, wan_mode_up
    <3>. QED
      BY <1>1, <3>1, NeverIdleMeans, StartPendingAppend DEF IdleInv
  <2>3. opMode' = "Automatic"
    BY DEF Idle
  <2>. QED
    BY <2>1, <2>2, <2>3
<1>. QED
  BY <1>2, <1>3, <1>4 DEF IdleInv

\* Steps into or in Manual.
LEMMA ManualStepKeeps ==
    ASSUME UpIsFlagged', opMode' = "Manual"
    PROVE  IdleInv'
BY DEF IdleInv, NeverIdle, StopIsUndone

LEMMA IdleClientKeeps ==
    ASSUME Faults = {}, SensingInv, IdleInv, ClientStep
    PROVE  IdleInv'
<1>. USE DEF SensingEvents, OperationModes, netmodel
<1>1. TypeOK /\ QueriesOK
  BY TypeParts DEF SensingInv
<1>2. ASSUME NEW op \in OperationModes, WriteOperationMode(op) PROVE IdleInv'
  <2>1. op \in SensingEvents /\ op = opMode' /\ op # "ListManual"
        /\ op \in {"Manual", "Automatic"}
    BY <1>2 DEF WriteOperationMode
  <2>. QED
    BY <1>2, <2>1, IdleWriteKeeps DEF WriteOperationMode
<1>3. ASSUME NEW p \in Policies, WriteSensingPolicy(p) PROVE IdleInv'
  BY <1>3, IdleWriteKeeps DEF WriteSensingPolicy
<1>4. ASSUME NEW m \in Modes, ToggleEnableSensing(m) PROVE IdleInv'
  BY <1>4, IdleWriteKeeps DEF ToggleEnableSensing
<1>5. CASE ChangeSensingPriority
  BY <1>5, IdleWriteKeeps DEF ChangeSensingPriority
<1>6. ASSUME NEW list \in SUBSET Modes, WriteWANMode(list) PROVE IdleInv'
  BY <1>6, IdleWriteKeeps DEF WriteWANMode
<1>7. ASSUME NEW list \in SUBSET Modes, NEW refused \in BOOLEAN, manipulate_mode(list, refused)
      PROVE  IdleInv'
  <2>1. ~refused /\ opMode' = "Manual" /\ UNCHANGED isUp
    BY <1>7 DEF manipulate_mode
  <2>2. QueryStep
    BY <2>1 DEF QueryStep
  <2>. QED
    BY <1>1, <2>1, <2>2, FlaggedKeeps, ManualStepKeeps DEF IdleInv
<1>8. CASE _Reset
  <2>1. opMode' = "Manual"
    BY <1>8 DEF _Reset
  <2>2. listed \in SUBSET Modes /\ {} \in SUBSET Modes
    BY <1>1 DEF TypeOK
  <2>3. QueryStep
    <3>1. CASE wan_mode_set(listed, listed)
      BY <2>2, <3>1, SetIsBoth
    <3>2. CASE \E closed \in Closings : wan_mode_set(closed, {})
      BY <1>1, <2>2, <3>2, ClosingsTyped, SetIsBoth
    <3>. QED
      BY <1>8, <3>1, <3>2 DEF _Reset
  <2>. QED
    BY <1>1, <2>1, <2>3, FlaggedKeeps, ManualStepKeeps DEF IdleInv
<1>. QED
  BY <1>2, <1>3, <1>4, <1>5, <1>6, <1>7, <1>8 DEF ClientStep

\* Under Continuous a start is not refused, and what runs already goes on.
LEMMA StartMakesBusy ==
    ASSUME Faults = {}, TypeOK, opMode = "Automatic", policy = "Continuous",
           mod_autosensing_start
    PROVE  sensing'
<1>1. CASE Startable
  BY <1>1 DEF mod_autosensing_start, Started
<1>2. CASE ~Startable
  BY <1>2 DEF mod_autosensing_start, Startable, flags, TypeOK
<1>. QED
  BY <1>1, <1>2

LEMMA IdleHandleKeeps ==
    ASSUME Faults = {}, SensingInv, IdleInv, HandleSensingEvent, UpIsFlagged'
    PROVE  IdleInv'
<1>. DEFINE e == Head(events)
<1>1. /\ TypeOK /\ events \in Seq(SensingEvents) /\ events # << >>
      /\ e \in SensingEvents
  BY HeadTailProperties DEF SensingInv, TypeOK, HandleSensingEvent
<1>2. /\ UNCHANGED <<opMode, policy, marked, listed, path, layer>>
      /\ events' = Tail(events)
  BY DEF HandleSensingEvent, netmodel
<1>3. StopIsUndone'
  BY <1>1, <1>2, StopsUndoneTail DEF IdleInv, StopIsUndone
<1>4. ASSUME Idle' PROVE StartPending(events')
  <2>1. /\ opMode = "Automatic" /\ policy = "Continuous"
        /\ marked # {} /\ marked \subseteq layer
        /\ ~sensing'
    BY <1>2, <1>4 DEF Idle, Busy
  <2>2. CASE e \in {"Manual", "ListManual"}
    BY <1>1, <1>2, <2>1, <2>2, StopsUndoneTail DEF IdleInv, StopIsUndone
  <2>3. CASE e = "List"
    <3>1. UNCHANGED <<isUp, flags>>
      BY <2>1, <2>3 DEF HandleSensingEvent, _set_wan_mode
    <3>2. Idle
      BY <1>2, <1>4, <3>1 DEF Idle, Busy, isUp, flags, wan_mode_up
    <3>. QED
      BY <1>1, <1>2, <2>3, <3>2, NeverIdleMeans, StartPendingTail DEF IdleInv
  <2>4. e # "Automatic"
    <3>. SUFFICES ASSUME e = "Automatic" PROVE FALSE
      OBVIOUS
    <3>1. update_operation_mode("Automatic", FALSE, layer)
      BY DEF HandleSensingEvent
    <3>2. mod_autosensing_start
      BY <2>1, <3>1 DEF update_operation_mode, autosensing_can_start
    <3>. QED
      BY <1>1, <2>1, <3>2, StartMakesBusy
  <2>5. e # "Update"
    <3>. SUFFICES ASSUME e = "Update" PROVE FALSE
      OBVIOUS
    <3>1. Started
      BY <2>1 DEF HandleSensingEvent, update_sensing, autosensing_can_start
    <3>. QED
      BY <2>1, <3>1 DEF Started
  <2>. QED
    BY <1>1, <2>2, <2>3, <2>4, <2>5 DEF SensingEvents
<1>. QED
  BY <1>3, <1>4 DEF IdleInv, NeverIdle, Idle, Busy, StartPending

LEMMA IdleAnswerKeeps ==
    ASSUME Faults = {}, SensingInv, IdleInv, IsUpAnswer
    PROVE  IdleInv'
<1>1. TypeOK /\ QueriesOK
  BY TypeParts DEF SensingInv
<1>2. PICK m \in Modes : \E version \in Needed[m], active \in BOOLEAN :
        nm_query_mode_active_handle_flags(m, version, active)
  BY DEF IsUpAnswer
<1>3. /\ UNCHANGED <<opMode, policy, marked, listed, path, layer, open, events>>
      /\ wasUp' = IF wan_mode_up(m, open, result') THEN wasUp \cup {m} ELSE wasUp \ {m}
      /\ IF m \in wasUp' THEN autosensing_found_mode(physUp)
         ELSE IF m \in wasUp THEN mod_autosensing_start
         ELSE UNCHANGED flags
  BY <1>2 DEF nm_query_mode_active_handle_flags, netmodel
<1>4. UpIsFlagged'
  BY <1>1, FlaggedKeeps DEF IdleInv, QueryStep
<1>5. ASSUME Idle', Busy PROVE FALSE
  <2>1. opMode = "Automatic" /\ policy = "Continuous" /\ ~sensing'
        /\ \A n \in Modes : ~wan_mode_up(n, open', result')
    BY <1>3, <1>5 DEF Idle, Busy
  <2>2. m \notin wasUp'
    BY <1>3, <2>1
  <2>3. CASE m \in wasUp
    BY <1>1, <1>3, <2>1, <2>2, <2>3, StartMakesBusy
  <2>4. CASE m \notin wasUp
    <3>1. UNCHANGED flags
      BY <1>3, <2>2, <2>4
    <3>2. PICK n \in Modes : wan_mode_up(n, open, result)
      BY <1>5, <2>1, <3>1 DEF Busy, flags
    <3>3. n # m
      BY <2>4, <3>2 DEF IdleInv, UpIsFlagged
    <3>4. result'[n] = result[n]
      BY <1>2, <3>3 DEF nm_query_mode_active_handle_flags, QueriesOK
    <3>. QED
      BY <1>3, <2>1, <3>2, <3>4 DEF wan_mode_up
  <2>. QED
    BY <2>3, <2>4
<1>. QED
  BY <1>3, <1>4, <1>5, BusyStepKeeps

LEMMA IdleFoundLayerKeeps ==
    ASSUME Faults = {}, SensingInv, IdleInv, NEW m \in Modes, NEW sfpOk \in BOOLEAN,
           wan_manager_found_ll(m, sfpOk)
    PROVE  IdleInv'
<1>1. TypeOK /\ QueriesOK /\ listed \in SUBSET Modes /\ {} \in SUBSET Modes
  BY TypeParts DEF SensingInv, TypeOK
<1>2. sfpOk /\ UNCHANGED <<opMode, policy, marked, path, events>>
  BY DEF wan_manager_found_ll
<1>3. CASE opMode = "Automatic"
  <2>1. update_operation_mode("Automatic", TRUE, layer') /\ UNCHANGED isUp
    BY <1>2, <1>3 DEF wan_manager_found_ll
  <2>2. UpIsFlagged'
    BY <1>1, <2>1, FlaggedKeeps DEF IdleInv, QueryStep
  <2>3. ASSUME Idle' PROVE FALSE
    <3>1. policy = "Continuous" /\ marked \subseteq layer' /\ ~sensing'
      BY <1>2, <2>3 DEF Idle, Busy
    <3>2. mod_autosensing_start
      BY <2>1, <3>1 DEF update_operation_mode, autosensing_can_start
    <3>. QED
      BY <1>1, <1>3, <3>1, <3>2, StartMakesBusy
  <2>. QED
    BY <1>2, <2>2, <2>3, BusyStepKeeps
<1>4. CASE opMode = "Manual"
  <2>1. PICK up \in SUBSET Modes : OpenQueries(up, {})
    BY <1>1, <1>2, <1>4 DEF wan_manager_found_ll
  <2>2. QueryStep
    BY <1>1, <2>1, SetIsBoth DEF wan_mode_set
  <2>. QED
    BY <1>1, <1>2, <1>4, <2>2, FlaggedKeeps, ManualStepKeeps DEF IdleInv
<1>. QED
  BY <1>1, <1>3, <1>4 DEF TypeOK, OperationModes

LEMMA IdleNetModelKeeps ==
    ASSUME Faults = {}, SensingInv, IdleInv, NetModelStep
    PROVE  IdleInv'
<1>1. ASSUME NEW m \in Modes, PathFound(m) PROVE IdleInv'
  BY <1>1 DEF PathFound, IdleInv, NeverIdle, StopIsUndone, StopsUndone, UpIsFlagged,
              wan_mode_up, isUp, flags
<1>2. ASSUME NEW m \in Modes, Rewire(m) PROVE IdleInv'
  <2>1. /\ UNCHANGED <<opMode, policy, marked, events, open, result, sensing>>
        /\ layer' \subseteq layer /\ wasUp' = wasUp
    BY <1>2 DEF Rewire
  <2>2. UpIsFlagged'
    BY <2>1 DEF IdleInv, UpIsFlagged, wan_mode_up
  <2>3. Idle' => ~Busy
    BY <2>1 DEF Idle, Busy, wan_mode_up
  <2>. QED
    BY <2>1, <2>2, <2>3, BusyStepKeeps
<1>. QED
  BY <1>1, <1>2, IdleAnswerKeeps, IdleFoundLayerKeeps DEF NetModelStep

LEMMA IdleModuleKeeps ==
    ASSUME Faults = {}, SensingInv, IdleInv, ModuleStep
    PROVE  IdleInv'
<1>1. TypeOK /\ QueriesOK /\ listed \in SUBSET Modes /\ {} \in SUBSET Modes
  BY TypeParts DEF SensingInv, TypeOK
<1>2. ASSUME NEW m \in Modes, autosensing_set_wan_mode(m) PROVE IdleInv'
  <2>1. PICK closed \in SUBSET Modes, up \in SUBSET Modes : wan_mode_set(closed, up)
    BY <1>1, <1>2, SetOneModeSteps DEF autosensing_set_wan_mode
  <2>2. /\ sensing /\ UNCHANGED opMode
        /\ QueryStep
        /\ events' = events \/ events' = Append(events, "List")
    BY <1>1, <1>2, SetOneModeSteps DEF autosensing_set_wan_mode
  <2>3. UpIsFlagged'
    BY <1>1, <2>2, FlaggedKeeps DEF IdleInv
  <2>4. Busy'
    BY <2>1, <2>2 DEF wan_mode_set, OpenQueries, mod_autosensing_start, Startable, Found,
                      Busy, flags
  <2>5. StopIsUndone'
    <3>1. events \in Seq(SensingEvents) /\ "List" \in SensingEvents
      BY <1>1 DEF TypeOK, SensingEvents
    <3>. QED
      BY <2>2, <3>1, StopsUndoneAppend DEF IdleInv, StopIsUndone
  <2>. QED
    BY <2>3, <2>4, <2>5 DEF IdleInv, NeverIdle, Busy
\* With no faults the network selector sets modes in Manual only.
<1>6. ASSUME NEW m \in Modes, network_selector_set_wan_mode(m) PROVE IdleInv'
  <2>1. opMode' = "Manual" /\ QueryStep
    BY <1>1, <1>6, SetOneModeSteps DEF network_selector_set_wan_mode
  <2>. QED
    BY <1>1, <2>1, FlaggedKeeps, ManualStepKeeps DEF IdleInv
<1>3. CASE SensingEnds
  <2>1. policy' # "Continuous" /\ UNCHANGED <<opMode, policy, marked, layer, events, isUp>>
    BY <1>3 DEF SensingEnds, netmodel
  <2>2. UpIsFlagged'
    BY <1>1, <2>1, FlaggedKeeps DEF IdleInv, QueryStep
  <2>. QED
    BY <2>1, <2>2, BusyStepKeeps DEF Idle
<1>4. CASE SensingClosesQueries
  <2>1. /\ UNCHANGED <<opMode, policy, marked, layer, events, sensing>> /\ sensing
        /\ nm_query_mode_active({}, listed)
    BY <1>4 DEF SensingClosesQueries, netmodel, flags
  <2>2. UpIsFlagged'
    BY <1>1, <2>1, FlaggedKeeps DEF IdleInv, QueryStep
  <2>. QED
    BY <2>1, <2>2, BusyStepKeeps DEF Idle, Busy
<1>5. CASE SfpDetected
  BY <1>5 DEF SfpDetected
<1>. QED
  BY <1>2, <1>3, <1>4, <1>5, <1>6 DEF ModuleStep

LEMMA IdleRestartKeeps ==
    ASSUME Restart
    PROVE  IdleInv'
BY DEF Restart, IdleInv, NeverIdle, StopIsUndone, StopsUndone, UpIsFlagged, wan_mode_up

\* The query steps of a handled event.
LEMMA HandleFlagged ==
    ASSUME SensingInv, IdleInv, HandleSensingEvent
    PROVE  UpIsFlagged'
<1>1. TypeOK /\ QueriesOK
  BY TypeParts DEF SensingInv
<1>2. QueryStep
  <2>1. CASE UNCHANGED isUp
    BY <2>1 DEF QueryStep
  <2>2. CASE \E closed \in Closings, up \in SetUps :
               wan_mode_set(closed, up) \/ nm_query_mode_active(up, closed)
    BY <1>1, <2>2, ClosingsTyped, SetUpsTyped, SetIsBoth DEF QueryStep
  <2>3. CASE _set_wan_mode
    BY <2>1, <2>2, <2>3 DEF _set_wan_mode
  <2>4. CASE ListThenManual
    BY <2>1, <2>2, <2>4 DEF ListThenManual
  <2>. QED
    BY <2>1, <2>3, <2>4 DEF HandleSensingEvent
<1>. QED
  BY <1>1, <1>2, FlaggedKeeps DEF IdleInv

\* When none of the faults occurs, Continuous sensing with all lower layers
\* known never stands still without an up mode or a queued event that starts it
\* (README.md:96): no interleaving of writes, events, NetModel answers and calls
\* of the module loses the start, nor does the network selector while it sets
\* modes in Manual only.
THEOREM ContinuousNeverIdle == Faults = {} /\ Spec => []NeverIdle
<1>. SUFFICES ASSUME Faults = {} PROVE Spec => []NeverIdle
  OBVIOUS
<1>1. Init => IdleInv
  BY DEF Init, IdleInv, NeverIdle, StopIsUndone, StopsUndone, UpIsFlagged, wan_mode_up
<1>2. SensingInv /\ IdleInv /\ [Next]_vars => IdleInv'
  <2>. SUFFICES ASSUME SensingInv, IdleInv, [Next]_vars PROVE IdleInv'
    OBVIOUS
  <2>1. CASE UNCHANGED vars
    BY <2>1 DEF vars, netmodel, isUp, flags, IdleInv, NeverIdle, StopIsUndone,
                StopsUndone, UpIsFlagged, wan_mode_up
  <2>. QED
    BY <2>1, HandleFlagged, IdleHandleKeeps, IdleClientKeeps, IdleNetModelKeeps,
       IdleModuleKeeps, IdleRestartKeeps DEF Next
<1>3. IdleInv => NeverIdle
  BY DEF IdleInv
<1>. QED
  BY <1>1, <1>2, <1>3, SensingInduction, PTL DEF Spec

-----------------------------------------------------------------------------
(* AtBoot.  Every way in which a mode comes up sets bootFinished, and with *)
(* it set no flag step starts the module under AtBoot.                     *)

BootRemembered == wasUp # {} => bootFinished

\* The flag steps that the actions are made of, with their guards.
GuardedFlagStep ==
    \/ UNCHANGED flags
    \/ mod_autosensing_start
    \/ mod_autosensing_stop
    \/ \E watched : autosensing_found_mode(watched)
    \/ update_sensing

LEMMA NoStartAtBoot ==
    ASSUME GuardedFlagStep, policy = "AtBoot", bootFinished, ~sensing
    PROVE  ~sensing'
BY DEF GuardedFlagStep, flags, mod_autosensing_start, Startable, mod_autosensing_stop,
       autosensing_found_mode, update_sensing

\* What a step of the system does about AtBoot.
BootStep ==
    /\ BootRemembered'
    /\ policy = "AtBoot" /\ (wasUp # {} \/ bootFinished) /\ ~sensing => ~sensing'

\* A step that raises no wan_mode_up flag.
LEMMA QuietBootStep ==
    ASSUME TypeOK, BootRemembered, GuardedFlagStep, wasUp' \subseteq wasUp
    PROVE  BootStep
<1>1. bootFinished => bootFinished'
  BY DEF GuardedFlagStep, flags, mod_autosensing_start, Startable, Started,
         mod_autosensing_stop, autosensing_found_mode, update_sensing
<1>. QED
  BY <1>1, NoStartAtBoot DEF BootStep, BootRemembered

\* Setting modes up raises the flag of a mode whose queries answer up at once,
\* which stops the module.
LEMMA OpenBootStep ==
    ASSUME TypeOK, BootRemembered, NEW list \in SUBSET Modes, NEW closed \in SUBSET Modes,
           OpenQueries(list, closed)
    PROVE  BootStep
<1>1. wasUp' = (wasUp \ (closed \cup list))
                  \cup {m \in list : wan_mode_up(m, open', result')}
  BY DEF OpenQueries, nm_query_mode_active
<1>2. CASE Found(list)
  BY <1>2 DEF OpenQueries, autosensing_found_mode, BootStep, BootRemembered
<1>3. CASE ~Found(list)
  BY <1>1, <1>3, QuietBootStep DEF OpenQueries, Found, GuardedFlagStep
<1>. QED
  BY <1>2, <1>3

LEMMA AnswerBootStep ==
    ASSUME TypeOK, BootRemembered, IsUpAnswer
    PROVE  BootStep
<1>0. PICK m \in Modes : \E version \in Needed[m], active \in BOOLEAN :
        nm_query_mode_active_handle_flags(m, version, active)
  BY DEF IsUpAnswer
<1>1. PICK version \in Needed[m], active \in BOOLEAN :
        nm_query_mode_active_handle_flags(m, version, active)
  BY <1>0
<1>2. CASE m \in wasUp'
  BY <1>1, <1>2 DEF nm_query_mode_active_handle_flags, autosensing_found_mode,
                    BootStep, BootRemembered
<1>3. CASE m \notin wasUp'
  BY <1>1, <1>3, QuietBootStep DEF nm_query_mode_active_handle_flags, GuardedFlagStep
<1>. QED
  BY <1>2, <1>3

LEMMA HandleBootStep ==
    ASSUME TypeOK, BootRemembered, HandleSensingEvent
    PROVE  BootStep
<1>1. ASSUME ListThenManual PROVE BootStep
  <2>1. ~sensing'
    BY <1>1 DEF ListThenManual
  <2>2. CASE opMode = "Manual"
    <3>1. PICK closed \in Closings, up \in SetUps :
            /\ nm_query_mode_active(up, closed)
            /\ bootFinished' = (bootFinished \/ Found(up))
      BY <1>1, <2>2 DEF ListThenManual
    <3>2. wasUp' \subseteq wasUp \cup {m \in up : wan_mode_up(m, open', result')}
      BY <3>1 DEF nm_query_mode_active
    <3>. QED
      BY <2>1, <3>1, <3>2 DEF Found, BootStep, BootRemembered, TypeOK
  <2>3. CASE opMode # "Manual"
    BY <1>1, <2>1, <2>3 DEF ListThenManual, isUp, BootStep, BootRemembered
  <2>. QED
    BY <2>2, <2>3
<1>2. ASSUME _set_wan_mode PROVE BootStep
  <2>1. CASE UNCHANGED <<isUp, flags>>
    BY <2>1, QuietBootStep DEF isUp, GuardedFlagStep
  <2>2. CASE \E closed \in Closings, up \in SetUps : wan_mode_set(closed, up)
    BY <2>2, ClosingsTyped, SetUpsTyped, OpenBootStep DEF wan_mode_set
  <2>. QED
    BY <1>2, <2>1, <2>2 DEF _set_wan_mode
<1>3. ASSUME NEW op, update_operation_mode(op, FALSE, layer), UNCHANGED isUp PROVE BootStep
  BY <1>3, QuietBootStep DEF update_operation_mode, GuardedFlagStep, isUp
<1>4. ASSUME update_sensing, UNCHANGED isUp PROVE BootStep
  BY <1>4, QuietBootStep DEF GuardedFlagStep, isUp
<1>. QED
  BY <1>1, <1>2, <1>3, <1>4 DEF HandleSensingEvent

LEMMA ClientBootStep ==
    ASSUME TypeOK, BootRemembered, ClientStep
    PROVE  BootStep
<1>1. CASE UNCHANGED <<isUp, flags>>
  BY <1>1, QuietBootStep DEF isUp, GuardedFlagStep
<1>2. ASSUME NEW list, NEW refused, manipulate_mode(list, refused) PROVE BootStep
  BY <1>2, QuietBootStep DEF manipulate_mode, isUp, GuardedFlagStep
<1>3. CASE _Reset
  <2>1. PICK closed \in SUBSET Modes, up \in SUBSET Modes : wan_mode_set(closed, up)
    BY <1>3, ClosingsTyped DEF _Reset, TypeOK
  <2>. QED
    BY <2>1, OpenBootStep DEF wan_mode_set
<1>. QED
  BY <1>1, <1>2, <1>3 DEF ClientStep, WriteOperationMode, WriteSensingPolicy,
     ToggleEnableSensing, ChangeSensingPriority, WriteWANMode

LEMMA NetModelBootStep ==
    ASSUME TypeOK, BootRemembered, NetModelStep
    PROVE  BootStep
<1>1. ASSUME NEW m \in Modes, PathFound(m) PROVE BootStep
  BY <1>1, QuietBootStep DEF PathFound, isUp, GuardedFlagStep
<1>2. ASSUME NEW m \in Modes, Rewire(m) PROVE BootStep
  BY <1>2 DEF Rewire, BootStep, BootRemembered
<1>3. ASSUME NEW m \in Modes, NEW sfpOk \in BOOLEAN, wan_manager_found_ll(m, sfpOk)
      PROVE  BootStep
  <2>1. CASE UNCHANGED <<isUp, flags>>
    BY <2>1, QuietBootStep DEF isUp, GuardedFlagStep
  <2>2. CASE update_operation_mode(opMode, TRUE, layer') /\ UNCHANGED isUp
    BY <2>2, QuietBootStep DEF update_operation_mode, GuardedFlagStep, isUp
  <2>3. CASE \E up \in {{}, listed} : OpenQueries(up, {})
    BY <2>3, OpenBootStep DEF TypeOK
  <2>. QED
    BY <1>3, <2>1, <2>2, <2>3 DEF wan_manager_found_ll, TypeOK, OperationModes
<1>. QED
  BY <1>1, <1>2, <1>3, AnswerBootStep DEF NetModelStep

LEMMA ModuleBootStep ==
    ASSUME TypeOK, BootRemembered, ModuleStep
    PROVE  BootStep
<1>1. ASSUME NEW m \in Modes, SetOneMode(m) PROVE BootStep
  <2>1. PICK closed \in SUBSET Modes, up \in SUBSET Modes : wan_mode_set(closed, up)
    BY <1>1, SetOneModeSteps
  <2>. QED
    BY <2>1, OpenBootStep DEF wan_mode_set
<1>2. CASE SensingEnds \/ SfpDetected
  BY <1>2, QuietBootStep DEF SensingEnds, SfpDetected, isUp, GuardedFlagStep
<1>3. CASE SensingClosesQueries
  <2>1. wasUp' \subseteq wasUp
    BY <1>3 DEF SensingClosesQueries, nm_query_mode_active
  <2>. QED
    BY <1>3, <2>1, QuietBootStep DEF SensingClosesQueries, GuardedFlagStep
<1>. QED
  BY <1>1, <1>2, <1>3 DEF ModuleStep, autosensing_set_wan_mode, network_selector_set_wan_mode

\* Under AtBoot, a mode that is up has ended sensing until the process restarts
\* (wan-manager_definition.odl:122), for all modes, policies and faults.
THEOREM BootSensingEnds == Spec => FixedAtBoot
<1>1. Init => BootRemembered
  BY DEF Init, BootRemembered
<1>2. TypeOK /\ BootRemembered /\ [Next]_vars
        => BootRemembered' /\ (policy = "AtBoot" /\ (wasUp # {} \/ bootFinished) /\ ~sensing
                                => ~sensing')
  <2>. SUFFICES ASSUME TypeOK, BootRemembered, [Next]_vars PROVE BootStep
    BY DEF BootStep
  <2>1. CASE UNCHANGED vars
    BY <2>1, QuietBootStep DEF vars, isUp, GuardedFlagStep
  <2>2. CASE Restart
    BY <2>2 DEF Restart, BootStep, BootRemembered
  <2>. QED
    BY <2>1, <2>2, HandleBootStep, ClientBootStep, NetModelBootStep, ModuleBootStep DEF Next
<1>. QED
  BY <1>1, <1>2, SensingTypeCorrect, PTL DEF Spec, FixedAtBoot

-----------------------------------------------------------------------------
(* Sticky.  Only two guarded flag steps start the module: that of a turn   *)
(* that loses a mode, an answer or a reopening of its queries, and         *)
(* update_operation_mode with override.                                    *)

\* A flag step that starts nothing under Sticky.
LEMMA StickyFlagStep ==
    ASSUME policy = "Sticky", ~sensing,
           \/ UNCHANGED flags
           \/ mod_autosensing_stop
           \/ \E watched : autosensing_found_mode(watched)
           \/ update_sensing
           \/ \E op : update_operation_mode(op, FALSE, layer)
    PROVE  ~sensing'
BY DEF flags, mod_autosensing_stop, autosensing_found_mode, update_sensing,
       update_operation_mode

LEMMA StickyOpen ==
    ASSUME policy = "Sticky", ~sensing, sensing', NEW list, NEW closed,
           OpenQueries(list, closed)
    PROVE  wasUp \ wasUp' # {}
<1>1. ~Found(list) /\ Reopened(list, closed) # {}
  BY StickyFlagStep DEF OpenQueries
<1>2. wasUp' = (wasUp \ (closed \cup list))
                  \cup {m \in list : wan_mode_up(m, open', result')}
  BY DEF OpenQueries, nm_query_mode_active
<1>. QED
  BY <1>1, <1>2 DEF Found, Reopened

LEMMA StickyAnswer ==
    ASSUME policy = "Sticky", ~sensing, sensing', IsUpAnswer
    PROVE  wasUp \ wasUp' # {}
<1>0. PICK m \in Modes : \E version \in Needed[m], active \in BOOLEAN :
        nm_query_mode_active_handle_flags(m, version, active)
  BY DEF IsUpAnswer
<1>1. PICK version \in Needed[m], active \in BOOLEAN :
        nm_query_mode_active_handle_flags(m, version, active)
  BY <1>0
<1>2. m \notin wasUp'
  BY <1>1, StickyFlagStep DEF nm_query_mode_active_handle_flags
<1>3. m \in wasUp
  BY <1>1, <1>2, StickyFlagStep DEF nm_query_mode_active_handle_flags
<1>. QED
  BY <1>2, <1>3

LEMMA StickyHandle ==
    ASSUME policy = "Sticky", ~sensing, sensing', HandleSensingEvent
    PROVE  wasUp \ wasUp' # {}
<1>1. CASE _set_wan_mode
  BY <1>1, StickyFlagStep, StickyOpen DEF _set_wan_mode, wan_mode_set
<1>2. CASE ListThenManual
  BY <1>2 DEF ListThenManual
<1>3. CASE update_sensing \/ update_operation_mode(Head(events), FALSE, layer)
  BY <1>3, StickyFlagStep
<1>. QED
  BY <1>1, <1>2, <1>3 DEF HandleSensingEvent

LEMMA StickyClient ==
    ASSUME policy = "Sticky", ~sensing, sensing', ClientStep
    PROVE  wasUp \ wasUp' # {}
<1>1. CASE UNCHANGED flags
  BY <1>1, StickyFlagStep
<1>2. ASSUME NEW list, NEW refused, manipulate_mode(list, refused) PROVE FALSE
  BY <1>2, StickyFlagStep DEF manipulate_mode
<1>3. CASE _Reset
  <2>1. \E closed, up : wan_mode_set(closed, up)
    BY <1>3 DEF _Reset
  <2>. QED
    BY <2>1, StickyOpen DEF wan_mode_set
<1>. QED
  BY <1>1, <1>2, <1>3 DEF ClientStep, WriteOperationMode, WriteSensingPolicy,
     ToggleEnableSensing, ChangeSensingPriority, WriteWANMode

LEMMA StickyFound ==
    ASSUME TypeOK, policy = "Sticky", ~sensing, sensing',
           NEW m \in Modes, NEW sfpOk \in BOOLEAN, wan_manager_found_ll(m, sfpOk)
    PROVE  sfpOk = TRUE
<1>1. CASE UNCHANGED <<isUp, flags>>
  BY <1>1, StickyFlagStep
<1>. QED
  BY <1>1 DEF wan_manager_found_ll

LEMMA StickyModule ==
    ASSUME TypeOK, policy = "Sticky", ~sensing, sensing', ModuleStep
    PROVE  wasUp \ wasUp' # {}
<1>1. ASSUME NEW m \in Modes, SetOneMode(m) PROVE wasUp \ wasUp' # {}
  BY <1>1, SetOneModeSteps, StickyOpen DEF wan_mode_set
<1>. QED
  BY <1>1, StickyFlagStep DEF ModuleStep, autosensing_set_wan_mode,
     network_selector_set_wan_mode, SensingEnds, SfpDetected, SensingClosesQueries

\* Under Sticky, sensing starts only when a mode is lost or a lower layer is
\* found (wan-manager_definition.odl:125, dm_wan_mode.c:401), for all modes and
\* under all faults.
THEOREM StickyStartsOnLoss == Spec => StickyWaits
<1>1. TypeOK /\ [Next]_vars
        => (policy = "Sticky" /\ ~sensing /\ sensing' =>
              \/ wasUp \ wasUp' # {}
              \/ \E m \in Modes : wan_manager_found_ll(m, TRUE))
  <2>. SUFFICES ASSUME TypeOK, [Next]_vars, policy = "Sticky", ~sensing, sensing'
                PROVE  \/ wasUp \ wasUp' # {}
                       \/ \E m \in Modes : wan_manager_found_ll(m, TRUE)
    OBVIOUS
  <2>1. CASE UNCHANGED vars
    BY <2>1 DEF vars, flags
  <2>2. CASE Restart
    BY <2>2 DEF Restart
  <2>3. CASE NetModelStep
    <3>1. ASSUME NEW m \in Modes, PathFound(m) \/ Rewire(m) PROVE ~sensing'
      BY <3>1 DEF PathFound, Rewire, flags
    <3>. QED
      BY <2>3, <3>1, StickyAnswer, StickyFound DEF NetModelStep
  <2>. QED
    BY <2>1, <2>2, <2>3, StickyHandle, StickyClient, StickyModule DEF Next
<1>. QED
  BY <1>1, SensingTypeCorrect, PTL DEF Spec, StickyWaits
=============================================================================
