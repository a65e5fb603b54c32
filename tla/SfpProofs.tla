------------------------------ MODULE SfpProofs ------------------------------
(***************************************************************************)
(* Theorems about Sfp, for every set of modes and types, under all faults. *)
(***************************************************************************)
EXTENDS Sfp, FiniteSetTheorems, TLAPS

LEMMA ChangedIsNat == ASSUME NEW new PROVE Changed(new) \in Nat
<1>1. IsFiniteSet({m \in Modes : new[m] # SFPType[m]})
  BY ModesAssumption, FS_Subset
<1>. QED
  BY <1>1, FS_CardinalityType DEF Changed

LEMMA UpdatedIsTyped ==
    ASSUME NEW type \in Types \cup {None}, NEW cage
    PROVE  /\ Updated(type, cage) \in [Modes -> Types \cup {None}]
           /\ \A m \in Modes : Updated(type, cage)[m] \in SupportedSFPTypes[m] \cup {None}
  BY DEF Updated, Holds

\* No report leaves a mode with a type that it does not support, and the
\* queue keeps its bound.
THEOREM SfpTypeCorrect == Spec => []TypeOK
<1>1. Init => TypeOK
  BY MaxEventsAssumption DEF Init, TypeOK, OperationModes, NoTypes
<1>2. TypeOK /\ [Next]_vars => TypeOK'
  <2>. SUFFICES ASSUME TypeOK, [Next]_vars PROVE TypeOK'
    OBVIOUS
  <2>. USE DEF TypeOK
  <2>1. ASSUME NEW type \in Types \cup {None}, NEW cage \in Cages,
               update_sfp_type(type, cage)
        PROVE  TypeOK'
    <3>. DEFINE new == Updated(type, cage)
    <3>1. CASE UNCHANGED <<SFPType, canStart, events>>
      BY <2>1, <3>1 DEF update_sfp_type
    <3>2. CASE /\ events + Changed(new) <= MaxEvents
               /\ SFPType' = new
               /\ events' = events + Changed(new)
               /\ canStart' = CanStartAfter(type)
      <4>1. events' \in 0 .. MaxEvents
        BY <3>2, ChangedIsNat, MaxEventsAssumption
      <4>2. canStart' \in BOOLEAN
        BY <3>2 DEF CanStartAfter
      <4>. QED
        BY <2>1, <3>2, <4>1, <4>2, UpdatedIsTyped DEF update_sfp_type
    <3>. QED
      BY <2>1, <3>1, <3>2 DEF update_sfp_type
  <2>2. CASE _update_network_selector
    BY <2>2, MaxEventsAssumption DEF _update_network_selector, network_selector_start
  <2>3. ASSUME NEW op \in OperationModes, WriteOperationMode(op) PROVE TypeOK'
    BY <2>3 DEF WriteOperationMode
  <2>4. CASE Restart
    BY <2>4, MaxEventsAssumption DEF Restart, NoTypes
  <2>5. CASE UNCHANGED vars
    BY <2>5 DEF vars
  <2>. QED
    BY <2>1, <2>2, <2>3, <2>4, <2>5 DEF Next
<1>. QED
  BY <1>1, <1>2, PTL DEF Spec

\* The flag that swallows the event of a removal is up whenever a mode has an
\* SFP.
THEOREM FlagIsForRemoval == Spec => []FlagMeansRemoved
<1>1. Init => FlagMeansRemoved
  BY DEF Init, FlagMeansRemoved
<1>2. FlagMeansRemoved /\ [Next]_vars => FlagMeansRemoved'
  <2>. SUFFICES ASSUME FlagMeansRemoved, [Next]_vars PROVE FlagMeansRemoved'
    OBVIOUS
  <2>. USE DEF FlagMeansRemoved
  <2>1. ASSUME NEW type \in Types \cup {None}, NEW cage \in Cages,
               update_sfp_type(type, cage)
        PROVE  FlagMeansRemoved'
    <3>1. CASE UNCHANGED <<SFPType, canStart, events>>
      BY <3>1
    <3>2. CASE SFPType' = Updated(type, cage) /\ canStart' = CanStartAfter(type)
      BY <3>2 DEF CanStartAfter, Updated, NoTypes
    <3>. QED
      BY <2>1, <3>1, <3>2 DEF update_sfp_type
  <2>2. CASE _update_network_selector
    BY <2>2 DEF _update_network_selector
  <2>3. ASSUME NEW op \in OperationModes, WriteOperationMode(op) PROVE FlagMeansRemoved'
    BY <2>3 DEF WriteOperationMode
  <2>4. CASE Restart
    BY <2>4 DEF Restart
  <2>5. CASE UNCHANGED vars
    BY <2>5 DEF vars
  <2>. QED
    BY <2>1, <2>2, <2>3, <2>4, <2>5 DEF Next
<1>. QED
  BY <1>1, <1>2, PTL DEF Spec

\* Modes that hold the same SFP agree about it, although one that is up to date
\* ends the turn for all: the cage is the only one ("Device.SFPs.Cage.1",
\* sfp.c:165), so the others were updated in the same transaction.
THEOREM SfpModesAgree ==
    ASSUME \A c, d \in Cages : c = d
    PROVE  Spec => []ModesAgree
<1>1. Init => ModesAgree
  BY DEF Init, ModesAgree, NoTypes
<1>2. ModesAgree /\ [Next]_vars => ModesAgree'
  <2>. SUFFICES ASSUME ModesAgree, [Next]_vars PROVE ModesAgree'
    OBVIOUS
  <2>1. ASSUME NEW type \in Types \cup {None}, NEW cage \in Cages,
               update_sfp_type(type, cage)
        PROVE  ModesAgree'
    <3>1. CASE UNCHANGED SFPType
      BY <3>1 DEF ModesAgree, Holds
    <3>2. CASE SFPType' = Updated(type, cage)
      <4>. SUFFICES ASSUME NEW m \in Modes, NEW n \in Modes, NEW t \in Types,
                           NEW c \in Cages, SFPType'[m] = t, Holds(n, t, c)
                    PROVE  SFPType'[n] = t
        BY DEF ModesAgree, Holds
      <4>1. Holds(m, type, cage) /\ type = t
        BY <3>2, NoneAssumption DEF Updated
      <4>2. c = cage
        OBVIOUS
      <4>. QED
        BY <3>2, <4>1, <4>2 DEF Updated
    <3>. QED
      BY <2>1, <3>1, <3>2 DEF update_sfp_type
  <2>2. CASE UNCHANGED SFPType
    BY <2>2 DEF ModesAgree, Holds
  <2>. QED
    BY <2>1, <2>2 DEF Next, _update_network_selector, WriteOperationMode, Restart, vars
<1>. QED
  BY <1>1, <1>2, PTL DEF Spec
=============================================================================
