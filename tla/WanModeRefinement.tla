--------------------------- MODULE WanModeRefinement ---------------------------
(***************************************************************************)
(* With a well-behaved environment and no broken mode, WanMode implements  *)
(* Manager: every turn of the event loop is a step of the promise to the   *)
(* client, or none.  The proof rests on the invariant CalmInv.             *)
(***************************************************************************)
EXTENDS WanModeProofs, WellFoundedInduction

USE UnknownAssumption, NoTypeAssumption, PhysicalAssumption, ValuesAssumption DEF Names

\* A list that is not empty has a name.
LEMMA NonEmptyRange ==
    ASSUME NEW S, NEW list \in Seq(S), list # << >>
    PROVE  Range(list) # {}
<1>1. 1 \in DOMAIN list
  BY EmptySeq
<1>. QED
  BY <1>1 DEF Range

\* A set of positions has a first one.
LEMMA FirstPosition ==
    ASSUME NEW at \in SUBSET Nat, at # {}
    PROVE  \E i \in at : \A k \in at : i <= k
<1>1. PICK i \in at : \A k \in at : <<k, i>> \notin OpToRel(<, Nat)
  BY NatLessThanWellFounded, WFMin
<1>2. \A k \in at : ~(k < i)
  BY <1>1 DEF OpToRel
<1>. QED
  BY <1>2

\* A loop that passes a bad name comes to one.
LEMMA BadNameIsReached ==
    ASSUME NEW list, NEW at \in SUBSET Nat, NEW bad, NEW i \in at, list[i] \in bad
    PROVE  Reached(list, at, bad) \cap bad # {}
<1>. DEFINE wrong == {j \in at : list[j] \in bad}
<1>1. PICK j \in wrong : \A k \in wrong : j <= k
  BY FirstPosition
<1>2. \A k \in at : k < j => list[k] \notin bad
  BY <1>1
<1>. QED
  BY <1>1, <1>2 DEF Reached

-----------------------------------------------------------------------------
(* wan_mode_set on lists that hold nothing but known modes.                *)

\* What wan_mode_set does when all of the active list can be torn down and the
\* new one can be written: it succeeds or fails as a whole, and it can only
\* fail when the lists differ.
LEMMA SetOutcome ==
    ASSUME TypeOK, WellBehaved, NEW new \in Settable, NEW active \in Values,
           SetModes(new, active), Consistent(new), Consistent(active),
           active # << >>, Range(active) \subseteq lowerLayer
    PROVE  LET dropped == Left(active, new)
               added   == Left(new, active)
           IN  /\ wanMode' = new
               /\ \/ /\ configured' = (configured \ dropped) \cup added
                     /\ upstream' = Switched(dropped, added)
                     /\ status' = [m \in Modes |->
                          CASE m \in added -> "Enabled"
                            [] m \in dropped \ Range(new) -> "Disabled"
                            [] OTHER -> status[m]]
                  \/ /\ Range(new) # Range(active)
                     /\ configured \ dropped \subseteq configured'
                     /\ configured' \subseteq (configured \ dropped) \cup added
                     /\ status' = [m \in Modes |->
                          CASE m \in Range(new) -> "Error"
                            [] m \in dropped \ Range(new) -> "Disabled"
                            [] OTHER -> status[m]]
<1>1. PICK faults \in Faults : wan_mode_set(new, active, faults)
  BY DEF SetModes
<1>. DEFINE notDown  == Unusable(lowerLayer, faults.notDisabled, faults.dnsDown)
            notUp    == Unusable(lowerLayer, faults.notAdded, faults.dnsDown)
            left     == Reached(active, Rest(active, new), notDown)
            right    == Reached(new, Rest(new, active), notUp)
            disabled == left \cap lowerLayer
            torn     == disabled \ (Broken \cup faults.notDisabled)
            silent   == Unknown \in left /\ left # {Unknown}
            written  == left \cap notDown = {} /\ new \in Settable
            powered  == IF written THEN right \cap lowerLayer ELSE {}
            up       == powered \ (Broken \cup faults.notAdded)
            failed   == ~silent /\
                        \/ ~written
                        \/ right \cap notUp # {}
                        \/ /\ faults.updateFails /\ SystemModule
                           /\ wan_mode_different_physical_type(active, new)
            dropped  == Left(active, new)
            added    == Left(new, active)
<1>2. new \in Values /\ new # << >> /\ Range(new) \subseteq Modes
  BY DEF Settable, Accepted, is_valid_mode_list
<1>3. /\ configured' = (configured \ torn) \cup up
      /\ wanMode' = IF written THEN new ELSE wanMode
      /\ status' = [m \in Modes |->
           IF failed /\ m \in Range(new) THEN "Error"
           ELSE IF ~failed /\ m \in up THEN "Enabled"
           ELSE IF m \in disabled THEN "Disabled" ELSE status[m]]
      /\ upstream' = Switched(torn, powered)
  BY <1>1, <1>2 DEF wan_mode_set
<1>4. /\ {active[i] : i \in Rest(active, new)} = dropped
      /\ {new[i] : i \in Rest(new, active)} = added
  BY <1>2, RestIsLeft
<1>5. /\ notDown = Names \ lowerLayer /\ notUp = Names \ lowerLayer
      /\ faults.notDisabled = {} /\ faults.notAdded = {} /\ Broken = {}
  BY NothingIsRefused DEF Unusable, WellBehaved
<1>6. dropped \subseteq Range(active) /\ added \subseteq Range(new)
  BY DEF Left
<1>7. left = dropped /\ left \cap notDown = {} /\ written
  <2>1. dropped \cap notDown = {}
    BY <1>5, <1>6
  <2>2. left = dropped
    BY <1>4, <2>1, ReachedIsComplete
  <2>. QED
    BY <2>1, <2>2
<1>8. torn = dropped /\ disabled = dropped
  BY <1>5, <1>6, <1>7
<1>9. up \subseteq added /\ powered = right \cap lowerLayer /\ up = powered
  BY <1>4, <1>5, <1>7, ReachedIsBounded
<1>10. ~failed => up = added /\ powered = added
  <2>. SUFFICES ASSUME ~failed PROVE up = added /\ powered = added
    OBVIOUS
  <2>1. right \cap notUp = {}
    <3>1. ~silent
      BY <1>6, <1>7, UnknownAssumption DEF TypeOK
    <3>. HIDE DEF silent, right, notUp, written
    <3>. QED
      BY <3>1
  <2>2. right \subseteq added
    BY <1>4, ReachedIsBounded
  <2>3. added \cap notUp = {}
    <3>1. SUFFICES ASSUME NEW i \in Rest(new, active), new[i] \in notUp PROVE FALSE
      BY <1>4
    <3>2. Rest(new, active) \subseteq Nat
      BY <1>2, ValuesAssumption DEF Rest
    <3>. QED
      BY <2>1, <3>1, <3>2, BadNameIsReached
  <2>4. right = added
    BY <1>4, <2>3, ReachedIsComplete
  <2>5. added \subseteq lowerLayer
    BY <1>2, <1>5, <1>6, <2>3
  <2>. HIDE DEF up, powered, right, added
  <2>. QED
    BY <1>9, <2>4, <2>5
<1>11. failed => Range(new) # Range(active)
  <2>1. CASE right \cap notUp # {}
    BY <1>4, <1>5, <1>6, <2>1, ReachedIsBounded
  <2>2. CASE wan_mode_different_physical_type(active, new)
    BY <2>2 DEF wan_mode_different_physical_type
  <2>. QED
    BY <1>7, <2>1, <2>2
\* A mode that is torn down although it is listed again is set up again.
<1>12. dropped \cap Range(new) \subseteq added
  BY DEF Left
<1>. HIDE DEF notDown, notUp, left, right, disabled, torn, silent, written, powered,
              up, failed, dropped, added
<1>13. CASE ~failed
  <2>1. status' = [m \in Modes |->
           CASE m \in added -> "Enabled"
             [] m \in dropped \ Range(new) -> "Disabled"
             [] OTHER -> status[m]]
    BY <1>3, <1>6, <1>8, <1>10, <1>12, <1>13
  <2>2. configured' = (configured \ dropped) \cup added
    BY <1>3, <1>8, <1>10, <1>13
  <2>3. upstream' = Switched(dropped, added)
    BY <1>3, <1>8, <1>10, <1>13
  <2>. QED
    BY <1>3, <1>7, <2>1, <2>2, <2>3 DEF dropped, added
<1>14. CASE failed
  <2>1. status' = [m \in Modes |->
           CASE m \in Range(new) -> "Error"
             [] m \in dropped \ Range(new) -> "Disabled"
             [] OTHER -> status[m]]
    BY <1>3, <1>8, <1>14
  <2>2. /\ configured \ dropped \subseteq configured'
        /\ configured' \subseteq (configured \ dropped) \cup added
    BY <1>3, <1>8, <1>9
  <2>. QED
    BY <1>3, <1>7, <1>11, <1>14, <2>1, <2>2 DEF dropped, added
<1>. QED
  BY <1>13, <1>14

-----------------------------------------------------------------------------
(* The steps of the abstract specification that wan_mode_set takes.        *)

\* Between two different lists.
LEMMA SetTakesOver ==
    ASSUME TypeOK, WellBehaved, NEW new \in Settable, NEW active \in Values,
           SetModes(new, active), Consistent(new), Consistent(active),
           active # << >>, new # active, Range(active) \subseteq lowerLayer,
           configured \subseteq Range(active) \cup Range(new)
    PROVE  /\ wanMode' = new
           /\ M!TakeOver(Range(active), Range(new))
           /\ Range(new) = Range(active) => UNCHANGED <<configured, status>>
<1>. DEFINE old == Range(active)  to == Range(new)
<1>1. Left(active, new) = old \ to /\ Left(new, active) = to \ old
  BY DEF Left
<1>2. /\ wanMode' = new
      /\ \/ /\ configured' = (configured \ (old \ to)) \cup (to \ old)
            /\ status' = [m \in Modes |->
                 CASE m \in to \ old -> "Enabled"
                   [] m \in (old \ to) \ to -> "Disabled"
                   [] OTHER -> status[m]]
         \/ /\ to # old
            /\ configured \ (old \ to) \subseteq configured'
            /\ configured' \subseteq (configured \ (old \ to)) \cup (to \ old)
            /\ status' = [m \in Modes |->
                 CASE m \in to -> "Error"
                   [] m \in (old \ to) \ to -> "Disabled"
                   [] OTHER -> status[m]]
  BY <1>1, SetOutcome
<1>3. old # {}
  BY NonEmptyRange
<1>4. (old \ to) \ to = old \ to
  OBVIOUS
<1>. HIDE DEF old, to
<1>5. (configured \ (old \ to)) \cup (to \ old) = (configured \cap to) \cup (to \ old)
  BY DEF old, to
<1>6. M!Success(old, to) \/ (to # old /\ M!Failure(old, to))
  BY <1>2, <1>4, <1>5 DEF M!Success, M!Failure, old, to
<1>7. to = old => UNCHANGED <<configured, status>>
  <2>. SUFFICES ASSUME to = old PROVE UNCHANGED <<configured, status>>
    OBVIOUS
  <2>1. configured' = configured
    BY <1>2 DEF old, to
  <2>2. status' = [m \in Modes |-> status[m]]
    BY <1>2
  <2>. QED
    BY <2>1, <2>2 DEF TypeOK
<1>. QED
  BY <1>2, <1>3, <1>6, <1>7 DEF M!TakeOver, old, to

\* On the list in use, once more.
LEMMA SetRenews ==
    ASSUME TypeOK, WellBehaved, SetModes(wanMode, wanMode), Consistent(wanMode),
           wanMode # << >>, Range(wanMode) \subseteq lowerLayer, wanMode \in Settable,
           configured \subseteq Range(wanMode)
    PROVE  /\ wanMode' = wanMode
           /\ configured' = Range(wanMode)
           /\ status' = [m \in Modes |->
                 IF m \in Range(wanMode) THEN "Enabled" ELSE status[m]]
<1>1. Left(wanMode, wanMode) = Range(wanMode) /\ wanMode \in Values
  BY DEF Left, TypeOK
<1>2. /\ wanMode' = wanMode
      /\ configured' = (configured \ Range(wanMode)) \cup Range(wanMode)
      /\ status' = [m \in Modes |->
           CASE m \in Range(wanMode) -> "Enabled"
             [] m \in Range(wanMode) \ Range(wanMode) -> "Disabled"
             [] OTHER -> status[m]]
  BY <1>1, SetOutcome
<1>3. status' = [m \in Modes |->
           IF m \in Range(wanMode) THEN "Enabled" ELSE status[m]]
  BY <1>2
<1>. QED
  BY <1>2, <1>3

-----------------------------------------------------------------------------
(* One turn.                                                               *)

\* The list of a settled state, and the events that a turn leaves then.
LEMMA NothingReplaced ==
    ASSUME events = << >> \/ opMode = "Automatic"
    PROVE  Replaced = wanMode
BY DEF Replaced

\* The event that a change raises carries the list it replaces.
LEMMA ChangeRaised ==
    ASSUME events' = Changed, ~(wanMode' = wanMode /\ opMode' = opMode)
    PROVE  events' # << >> /\ Head(events').from = wanMode
<1>. DEFINE e == [from |-> wanMode, to |-> wanMode',
                  op |-> IF opMode' = opMode THEN "same" ELSE opMode']
<1>1. events' = << e >>
  BY DEF Changed
<1>2. events' # << >> /\ Head(events') = e
  BY <1>1
<1>. QED
  BY <1>2

\* A turn that begins with an empty queue and raises at most its own event
\* leaves the list it found to be replaced, or none.
LEMMA ReplacedAfter ==
    ASSUME TypeOK, CalmInv, events = << >>, wanMode' \in Values,
           opMode' \in OperationModes, events' = events \o Changed
    PROVE  /\ Replaced' \in {wanMode, wanMode'}
           /\ opMode' = "Manual" => Replaced' = wanMode
<1>1. events' = Changed
  BY CalmQueue
<1>2. CASE wanMode' = wanMode /\ opMode' = opMode
  BY <1>1, <1>2 DEF Changed, Replaced
<1>3. CASE ~(wanMode' = wanMode /\ opMode' = opMode)
  BY <1>1, <1>3, ChangeRaised DEF Replaced
<1>. QED
  BY <1>2, <1>3

\* A consistent list is a choice that the abstract specification permits.
LEMMA ConsistentIsChoice ==
    ASSUME NEW list, Consistent(list), Range(list) \subseteq Modes
    PROVE  Range(list) \in M!Choices
BY DEF M!Choices, Consistent, Untyped, Range

\* A request that only changes what is asked for.
LEMMA RequestAsks ==
    ASSUME TypeOK, CalmInv, events = << >>, wanMode' \in Values,
           opMode' \in OperationModes, events' = events \o Changed,
           wanMode' = wanMode \/ opMode' = "Manual",
           Range(wanMode') \subseteq Modes, Consistent(wanMode'),
           UNCHANGED <<configured, status>>
    PROVE  M!Ask
<1>1. Replaced = wanMode /\ Replaced' = wanMode
  BY ReplacedAfter, NothingReplaced
<1>2. Range(wanMode') \in M!Choices
  BY ConsistentIsChoice
<1>. QED
  BY <1>1, <1>2 DEF M!Ask, M!Settled

\* A module, or _Reset, applies a list at once.
LEMMA ModuleSetSwitches ==
    ASSUME TypeOK, CalmInv, WellBehaved, Request, LayersKnown,
           NEW new \in Values, Consistent(new), SetModes(new, wanMode),
           new = wanMode \/ new \in Settable,
           UNCHANGED opMode, events' = events \o Changed
    PROVE  [M!Next]_(M!vars)
<1>1. events = << >> /\ Replaced = wanMode
  BY RequestIsCalm, NothingReplaced
<1>2. /\ configured \subseteq Range(wanMode)
      /\ Range(wanMode) \subseteq lowerLayer
  BY <1>1, LayersAreKnown DEF CalmInv, OnlyListedModesConfigured
<1>3. wanMode' \in Values /\ opMode' \in OperationModes
  BY SetModesTyped DEF TypeOK
<1>4. Replaced' \in {wanMode, wanMode'}
  BY <1>1, <1>3, ReplacedAfter
<1>5. CASE wanMode = << >> \/ new = << >>
  <2>1. UNCHANGED <<wanMode, configured, status>>
    BY <1>5 DEF SetModes, wan_mode_set, setup
  <2>. QED
    BY <1>1, <1>4, <2>1 DEF M!vars
<1>6. CASE wanMode # << >> /\ new # << >> /\ new = wanMode
  <2>1. wanMode \in Settable
    BY <1>6, ConsistentIsAccepted DEF Settable, is_valid_mode_list, CalmInv
  <2>2. /\ wanMode' = wanMode
        /\ configured' = Range(wanMode)
        /\ status' = [m \in Modes |->
              IF m \in Range(wanMode) THEN "Enabled" ELSE status[m]]
    BY <1>2, <1>6, <2>1, SetRenews DEF CalmInv
  <2>3. M!Renew
    BY <1>1, <1>4, <2>2 DEF M!Renew, M!Settled
  <2>. QED
    BY <2>3 DEF M!Next
<1>7. CASE wanMode # << >> /\ new # << >> /\ new # wanMode
  <2>1. new \in Settable /\ wanMode \in Values /\ wanMode \in Seq(Names)
    BY <1>7 DEF TypeOK
  <2>2. /\ wanMode' = new
        /\ M!TakeOver(Range(wanMode), Range(new))
        /\ Range(new) = Range(wanMode) => UNCHANGED <<configured, status>>
    BY <1>2, <1>7, <2>1, SetTakesOver DEF CalmInv
  <2>3. Range(wanMode) # {} /\ Range(new) # {}
    BY <1>7, <2>1, NonEmptyRange
  <2>4. Range(new) \in M!Choices
    BY <2>1, ConsistentIsChoice DEF Settable, is_valid_mode_list
  <2>5. CASE Range(new) = Range(wanMode)
    BY <1>1, <1>4, <2>2, <2>5 DEF M!vars
  <2>6. CASE Range(new) # Range(wanMode)
    <3>1. M!Switch
      BY <1>1, <1>4, <2>2, <2>3, <2>4, <2>6 DEF M!Switch, M!Settled
    <3>. QED
      BY <3>1 DEF M!Next
  <2>. QED
    BY <2>5, <2>6
<1>. QED
  BY <1>5, <1>6, <1>7

LEMMA HandlerCarriesOut ==
    ASSUME TypeOK, CalmInv, WellBehaved, HandleEvent
    PROVE  [M!Next]_(M!vars)
<1>. DEFINE e == Head(events)
<1>1. events # << >> /\ PendingInv(e) /\ e \in Event
  BY DEF HandleEvent, CalmInv, TypeOK
<1>2. opMode' = opMode /\ opMode' \in OperationModes /\ wanMode' \in Values
  BY HandleEventTyped DEF HandleEvent, TypeOK
<1>3. events' = Changed
  BY <1>1, <1>2, CalmQueue DEF HandleEvent
<1>4. wanMode' = wanMode => Replaced' = wanMode
  BY <1>2, <1>3 DEF Changed, Replaced
<1>5. Replaced = IF opMode = "Automatic" THEN wanMode ELSE e.from
  BY <1>1 DEF Replaced
<1>6. wanMode = e.to /\ wanMode \in Seq(Names) /\ e.from \in Seq(Names)
  BY <1>1 DEF PendingInv, Event, TypeOK
<1>. HIDE DEF e
<1>7. CASE e.from = e.to \/ opMode = "Automatic"
  <2>1. UNCHANGED <<wanMode, configured, status>>
    BY <1>7 DEF HandleEvent, _set_wan_mode, setup, e
  <2>. QED
    BY <1>4, <1>5, <1>6, <1>7, <2>1 DEF M!vars
<1>8. CASE ~(e.from = e.to \/ opMode = "Automatic") /\ is_valid_mode_list(e.to)
  <2>1. SetModes(wanMode, e.from) /\ Replaced = e.from
    BY <1>5, <1>6, <1>8 DEF HandleEvent, _set_wan_mode, e
  <2>2. wanMode \in Settable /\ wanMode # << >>
    BY <1>6, <1>8, ConsistentIsAccepted
    DEF Settable, is_valid_mode_list, CalmInv, TypeOK
  <2>3. Range(wanMode) # {}
    BY <1>6, <2>2, NonEmptyRange
  <2>4. CASE e.from = << >>
    <3>1. UNCHANGED <<wanMode, configured, status>>
      BY <2>1, <2>4 DEF SetModes, wan_mode_set, setup
    <3>2. Range(e.from) = {}
      BY <2>4 DEF Range
    <3>3. M!CarryOut
      BY <1>4, <2>1, <2>3, <3>1, <3>2 DEF M!CarryOut, M!Settled, M!TakeOver
    <3>. QED
      BY <3>3 DEF M!Next
  <2>5. CASE e.from # << >>
    <3>1. /\ Range(e.from) \subseteq lowerLayer
          /\ configured \subseteq Range(e.from) \cup Range(wanMode)
      BY <1>1, <1>2, <1>8 DEF PendingInv, OperationModes
    <3>2. /\ wanMode' = wanMode
          /\ M!TakeOver(Range(e.from), Range(wanMode))
          /\ Range(wanMode) = Range(e.from) => UNCHANGED <<configured, status>>
      BY <1>1, <1>6, <1>8, <2>1, <2>2, <2>5, <3>1, SetTakesOver
      DEF CalmInv, PendingInv, Event
    <3>3. CASE Range(wanMode) = Range(e.from)
      BY <1>4, <2>1, <3>2, <3>3 DEF M!vars
    <3>4. CASE Range(wanMode) # Range(e.from)
      <4>1. M!CarryOut
        BY <1>4, <2>1, <2>3, <3>2, <3>4 DEF M!CarryOut, M!Settled
      <4>. QED
        BY <4>1 DEF M!Next
    <3>. QED
      BY <3>3, <3>4
  <2>. QED
    BY <2>4, <2>5
<1>9. CASE ~(e.from = e.to \/ opMode = "Automatic") /\ ~is_valid_mode_list(e.to)
  <2>1. wan_mode_dm_set(e.from, opMode) /\ UNCHANGED <<configured, status>>
    BY <1>9 DEF HandleEvent, _set_wan_mode, setup, e
  <2>2. wanMode = << >> /\ Range(wanMode) = {}
    BY <1>6, <1>9 DEF is_valid_mode_list, CalmInv, Range
  <2>3. e.from # << >> /\ Range(e.from) \subseteq Modes /\ Consistent(e.from)
    BY <1>1, <1>6, <1>9, <2>2 DEF PendingInv
  <2>4. wanMode' = e.from
    BY <1>1, <2>1, <2>3, ConsistentIsAccepted
    DEF wan_mode_dm_set, Settable, is_valid_mode_list, Event
  <2>5. Range(e.from) # {}
    BY <1>6, <2>3, NonEmptyRange
  \* The rewrite raises the change from nothing to the old list.
  <2>6. Replaced' = << >>
    BY <1>2, <1>3, <1>9, <2>2, <2>3, <2>4, ChangeRaised DEF Replaced
  <2>7. M!Undo
    BY <1>5, <1>9, <2>1, <2>2, <2>4, <2>5, <2>6 DEF M!Undo, M!Settled
  <2>. QED
    BY <2>7 DEF M!Next
<1>. QED
  BY <1>7, <1>8, <1>9

LEMMA ClientAsks ==
    ASSUME TypeOK, CalmInv, WellBehaved, ClientStep
    PROVE  [M!Next]_(M!vars)
<1>1. ASSUME NEW list, manipulate_mode(list) PROVE M!Ask
  <2>1. events = << >> /\ events' = events \o Changed
    BY <1>1, RequestIsCalm DEF manipulate_mode
  <2>2. wanMode' \in Values /\ opMode' \in OperationModes
    BY <1>1, ManipulateTyped DEF TypeOK
  <2>3. UNCHANGED <<configured, status>>
    BY <1>1 DEF manipulate_mode, setup
  <2>4. CASE list \in Settable
    <3>1. wanMode' = list /\ opMode' = "Manual"
      BY <1>1, <2>4 DEF manipulate_mode, wan_mode_dm_set
    <3>2. Range(wanMode') \subseteq Modes /\ Consistent(wanMode')
      BY <1>1, <2>4, <3>1, NothingIsOverlooked, AcceptedIsConsistent
      DEF manipulate_mode, Settable, is_valid_mode_list
    <3>. QED
      BY <2>1, <2>2, <2>3, <3>1, <3>2, RequestAsks
  <2>5. CASE list \notin Settable
    <3>1. wanMode' = wanMode
      BY <1>1, <2>5 DEF manipulate_mode, wan_mode_dm_set
    <3>. QED
      BY <2>1, <2>2, <2>3, <3>1, RequestAsks DEF CalmInv
  <2>. QED
    BY <2>4, <2>5
<1>2. ASSUME NEW list \in Values, WriteWANMode(list) PROVE M!Ask
  <2>1. events = << >> /\ events' = events \o Changed
    BY <1>2, RequestIsCalm DEF WriteWANMode
  <2>2. /\ wanMode' = list /\ opMode' = "Manual"
        /\ Range(list) \subseteq Modes
        /\ Consistent(list)
        /\ UNCHANGED <<configured, status>>
    BY <1>2, NothingIsOverlooked, AcceptedIsConsistent
    DEF WriteWANMode, WellBehaved, Benign, setup
  <2>. QED
    BY <2>1, <2>2, RequestAsks DEF OperationModes
<1>3. ASSUME NEW op \in OperationModes, SetOperationMode(op) \/ WriteOperationMode(op)
      PROVE  M!Ask
  <2>1. events = << >> /\ events' = events \o Changed
    BY <1>3, RequestIsCalm DEF SetOperationMode, WriteOperationMode
  <2>2. UNCHANGED <<wanMode, configured, status>> /\ opMode' = op
    BY <1>3 DEF SetOperationMode, WriteOperationMode, setup
  <2>. QED
    BY <2>1, <2>2, RequestAsks DEF TypeOK, CalmInv
<1>4. CASE WriteApplyAtNextBoot
  BY <1>4 DEF WriteApplyAtNextBoot, setup, M!vars, Replaced
<1>5. CASE _Reset
  <2>1. wanMode \in Values /\ Consistent(wanMode)
    BY DEF TypeOK, CalmInv
  <2>. QED
    BY <1>5, <2>1, ModuleSetSwitches DEF _Reset
<1>. QED
  BY <1>1, <1>2, <1>3, <1>4, <1>5
  DEF ClientStep, _setWANMode, _WANModeEnable, _WANModeDisable, M!Next

LEMMA LayerArrives ==
    ASSUME TypeOK, CalmInv, WellBehaved, NEW m \in Modes, LowerLayerFound(m)
    PROVE  M!Arrive
<1>1. PICK sfpOk \in SfpOutcomes : wan_manager_found_ll(m, sfpOk, {}, FALSE)
  BY DEF LowerLayerFound, Refusals, DnsOutcomes, WellBehaved, Benign
<1>. DEFINE known    == lowerLayer \cup {m}
            typed    == Modes \ Untyped
            current  == Reached(wanMode, DOMAIN wanMode, Names \ typed) \cap typed
            matching == {n \in current : physical[n] = physical[m]}
            powered  == matching \cap known
            enabled  == matching \ Unusable(known, {}, FALSE)
            applies  == (sfpOk /\ opMode = "Manual") /\ apply
            up       == IF applies THEN powered ELSE {}
            failed   == IF applies THEN matching ELSE {}
<1>2. matching \subseteq Range(wanMode) /\ matching \subseteq Modes
  BY ReachedIsBounded DEF Range
<1>3. enabled = powered
  BY <1>2 DEF Unusable, WellBehaved
<1>4. configured' = configured \cup up
  BY <1>1 DEF wan_manager_found_ll, WellBehaved
<1>5. status' = [n \in Modes |->
                   IF applies /\ n \in matching
                   THEN IF n \in enabled THEN "Enabled" ELSE "Error"
                   ELSE status[n]]
  BY <1>1 DEF wan_manager_found_ll
<1>6. status' = [n \in Modes |->
         IF n \in up THEN "Enabled" ELSE IF n \in failed THEN "Error" ELSE status[n]]
  <2>. HIDE DEF enabled, matching, current, known
  <2>. QED
    BY <1>3, <1>5
<1>7. up \in SUBSET Range(wanMode) /\ failed \in SUBSET Range(wanMode)
  BY <1>2
<1>8. Replaced' = Replaced /\ wanMode' = wanMode
  BY DEF LowerLayerFound, Replaced
<1>. HIDE DEF up, failed
<1>. QED
  BY <1>4, <1>6, <1>7, <1>8 DEF M!Arrive

LEMMA StepIsPromised ==
    ASSUME TypeOK, CalmInv, WellBehaved, [Next]_vars
    PROVE  [M!Next]_(M!vars)
<1>1. CASE UNCHANGED <<wanMode, opMode, status, configured, events>>
  BY <1>1 DEF M!vars, Replaced
<1>2. CASE NetModelStep
  BY <1>2, LayerArrives DEF NetModelStep, Rewire, WellBehaved, Benign, M!Next
<1>3. ASSUME NEW m \in Modes, SensingSetsMode(m) \/ NetworkSelectorSetsMode(m)
      PROVE  [M!Next]_(M!vars)
  <2>. DEFINE new == << m >>
  <2>1. new \in Values /\ Consistent(new) /\ new # << >> /\ Range(new) = {m}
    BY SingleIsConsistent DEF Range
  <2>2. new \in Settable
    BY <2>1, ConsistentIsAccepted DEF Settable, is_valid_mode_list
  <2>. HIDE DEF new
  <2>3. /\ Request /\ LayersKnown /\ SetModes(new, wanMode)
        /\ opMode' = opMode /\ events' = events \o Changed
    BY <1>3 DEF SensingSetsMode, NetworkSelectorSetsMode, new
  <2>. QED
    BY <2>1, <2>2, <2>3, ModuleSetSwitches
<1>4. CASE ModuleStep
  BY <1>1, <1>3, <1>4 DEF ModuleStep, SensingStarts, SensingStops,
     SensingClosesQueries, dm, setup
<1>5. CASE Restart
  <2>1. events = << >> /\ events' = << >>
    BY <1>5 DEF Restart, Calm, WellBehaved, Benign
  <2>. QED
    BY <1>1, <1>5, <2>1 DEF Restart, dm
<1>6. CASE UNCHANGED vars
  BY <1>1, <1>6 DEF vars
<1>. QED
  BY <1>2, <1>4, <1>5, <1>6, HandlerCarriesOut, ClientAsks DEF Next

\* With a well-behaved environment and no broken mode, the WAN manager keeps
\* its promise to the client: requests are carried out one by one, whole or
\* with an Error on all their modes, whatever modules, boot and restarts do
\* between two turns.
THEOREM KeepsPromise ==
    ASSUME WellBehaved
    PROVE  Spec => ImplementsManager
<1>1. Init => CalmInv /\ M!Init
  <2>. SUFFICES ASSUME Init PROVE CalmInv /\ M!Init
    OBVIOUS
  <2>1. CalmInv
    BY InitIsCalm
  <2>2. Range(wanMode) \in M!Choices
    BY <2>1, ConsistentIsChoice DEF CalmInv
  <2>3. Replaced = wanMode
    BY DEF Init, Replaced
  <2>4. configured \in SUBSET Range(wanMode)
    BY DEF Init
  <2>. QED
    BY <2>1, <2>2, <2>3, <2>4 DEF Init, M!Init
<1>2. TypeOK /\ CalmInv /\ [Next]_vars => CalmInv' /\ [M!Next]_(M!vars)
  BY CalmStep, StepIsPromised
<1>. QED
  BY <1>1, <1>2, TypeCorrect, PTL DEF Spec, ImplementsManager, M!Spec

-----------------------------------------------------------------------------
(* What else follows.                                                      *)

LEMMA PromisedStepKeeps ==
    ASSUME CalmInv, [M!Next]_(M!vars)
    PROVE  \A m \in configured \ configured' : m \notin Range(wanMode')
BY DEF M!Next, M!vars, M!Ask, M!CarryOut, M!Undo, M!Switch, M!Renew, M!Arrive,
   M!TakeOver, M!Success, M!Failure

\* A mode loses its configuration only when it is no longer listed, because no
\* step of the abstract specification takes down what is still asked for.
THEOREM NothingElseTornDown ==
    ASSUME WellBehaved
    PROVE  Spec => TornDownOnlyWhenDropped
<1>1. Init => CalmInv
  BY InitIsCalm
<1>2. /\ TypeOK /\ CalmInv /\ [Next]_vars => CalmInv'
      /\ TypeOK /\ CalmInv /\ [Next]_vars =>
           [\A m \in configured \ configured' : m \notin Range(wanMode')]_vars
  BY CalmStep, StepIsPromised, PromisedStepKeeps
<1>. QED
  BY <1>1, <1>2, TypeCorrect, PTL DEF Spec, TornDownOnlyWhenDropped

LEMMA SetKeepsUplink ==
    ASSUME TypeOK, StatusInv, WellBehaved, UplinkOfEnabledModeIsOn,
           NEW new \in Settable, NEW active \in Values, SetModes(new, active),
           Consistent(new), Consistent(active),
           active # << >>, Range(active) \subseteq lowerLayer,
           Range(active) \subseteq Modes,
           configured \subseteq Range(active) \cup Range(new)
    PROVE  UplinkOfEnabledModeIsOn'
<1>. DEFINE dropped == Left(active, new)
            added   == Left(new, active)
<1>. SUFFICES ASSUME NEW m \in Modes, status'[m] = "Enabled", physical[m] \in Switchable
              PROVE  physical[m] \in upstream'
  BY DEF UplinkOfEnabledModeIsOn
<1>1. status[m] = "Enabled" =>
        /\ physical[m] \in upstream
        /\ m \in Range(active) \cup Range(new)
  BY DEF UplinkOfEnabledModeIsOn, StatusInv, EnabledIsConfigured
<1>2. /\ m \in Range(active) => m \in dropped \/ m \in Range(new)
      /\ m \in Range(new) => m \in added \/ m \in Range(active) \ dropped
  BY DEF Left
<1>3. CASE /\ upstream' = Switched(dropped, added)
           /\ status' = [n \in Modes |->
                CASE n \in added -> "Enabled"
                  [] n \in dropped \ Range(new) -> "Disabled"
                  [] OTHER -> status[n]]
  <2>1. CASE m \in added
    BY <1>3, <2>1 DEF Switched, TypesOf
  <2>2. CASE m \notin added
    <3>1. status[m] = "Enabled" /\ m \notin dropped \ Range(new)
      BY <1>3, <2>2
    <3>2. m \in Range(active) \ dropped
      BY <1>1, <1>2, <2>2, <3>1
    <3>3. physical[m] \notin TypesOf(dropped \ SkipDisable)
      <4>1. SUFFICES ASSUME NEW t \in dropped, physical[t] = physical[m] PROVE FALSE
        BY DEF TypesOf
      <4>2. t \in Range(active) /\ t # m
        BY <3>2 DEF Left
      <4>3. PICK i \in DOMAIN active, j \in DOMAIN active : m = active[i] /\ t = active[j]
        BY <3>2, <4>2 DEF Range
      <4>. QED
        BY <4>1, <4>2, <4>3, SwitchableAssumption DEF Consistent, Untyped
    <3>. QED
      BY <1>1, <1>3, <3>1, <3>3 DEF Switched
  <2>. QED
    BY <2>1, <2>2
<1>4. CASE status' = [n \in Modes |->
             CASE n \in Range(new) -> "Error"
               [] n \in dropped \ Range(new) -> "Disabled"
               [] OTHER -> status[n]]
  BY <1>1, <1>2, <1>4
<1>. QED
  BY <1>3, <1>4, SetOutcome

\* wan_manager_found_ll switches on what it sets up, and nothing off.
LEMMA FoundKeepsUplink ==
    ASSUME TypeOK, UplinkOfEnabledModeIsOn, NEW m \in Modes, LowerLayerFound(m)
    PROVE  UplinkOfEnabledModeIsOn'
<1>1. PICK sfpOk \in SfpOutcomes, refused \in Refusals, dnsDown \in DnsOutcomes :
        wan_manager_found_ll(m, sfpOk, refused, dnsDown)
  BY DEF LowerLayerFound
<1>. DEFINE known    == lowerLayer \cup {m}
            typed    == Modes \ Untyped
            current  == Reached(wanMode, DOMAIN wanMode, Names \ typed) \cap typed
            matching == {n \in current : physical[n] = physical[m]}
            powered  == matching \cap known
            enabled  == matching \ Unusable(known, refused, dnsDown)
            applies  == (sfpOk /\ opMode = "Manual") /\ apply
<1>2. upstream' = upstream \cup (IF applies THEN TypesOf(powered) ELSE {})
  BY <1>1 DEF wan_manager_found_ll
<1>3. status' = [n \in Modes |->
                   IF applies /\ n \in matching
                   THEN IF n \in enabled THEN "Enabled" ELSE "Error"
                   ELSE status[n]]
  BY <1>1 DEF wan_manager_found_ll
<1>4. enabled \subseteq powered
  BY DEF Unusable
<1>. HIDE DEF enabled, applies, powered, matching, current
<1>. QED
  BY <1>2, <1>3, <1>4 DEF UplinkOfEnabledModeIsOn, TypesOf

LEMMA UplinkStep ==
    ASSUME TypeOK, StatusInv, CalmInv, WellBehaved, UplinkOfEnabledModeIsOn, [Next]_vars
    PROVE  UplinkOfEnabledModeIsOn'
<1>1. CASE UNCHANGED <<status, upstream>>
  BY <1>1 DEF UplinkOfEnabledModeIsOn
<1>2. ASSUME NEW new \in Values, Consistent(new), Request, LayersKnown, SetModes(new, wanMode),
             new = wanMode \/ new \in Settable
      PROVE  UplinkOfEnabledModeIsOn'
  <2>1. CASE new = << >> \/ wanMode = << >>
    BY <1>1, <1>2, <2>1 DEF SetModes, wan_mode_set, setup
  <2>2. CASE new # << >> /\ wanMode # << >>
    <3>1. new \in Settable
      BY <1>2, <2>2, ConsistentIsAccepted DEF Settable, is_valid_mode_list, CalmInv
    <3>2. /\ configured \subseteq Range(wanMode)
          /\ Range(wanMode) \subseteq lowerLayer
          /\ Range(wanMode) \subseteq Modes /\ Consistent(wanMode) /\ wanMode \in Values
      BY <1>2, RequestIsCalm, LayersAreKnown
      DEF CalmInv, OnlyListedModesConfigured, TypeOK
    <3>. QED
      BY <1>2, <2>2, <3>1, <3>2, SetKeepsUplink
  <2>. QED
    BY <2>1, <2>2
<1>3. CASE HandleEvent
  <2>. DEFINE e == Head(events)
  <2>1. PendingInv(e)
    BY <1>3 DEF HandleEvent, CalmInv
  <2>2. CASE UNCHANGED setup
    BY <1>1, <2>2 DEF setup
  <2>3. CASE /\ e.from # e.to /\ opMode # "Automatic" /\ is_valid_mode_list(e.to)
             /\ SetModes(e.to, e.from)
    <3>. HIDE DEF e
    <3>1. CASE e.from = << >>
      BY <2>2, <2>3, <3>1 DEF SetModes, wan_mode_set
    <3>2. CASE e.from # << >>
      <4>1. e.to \in Settable
        BY <2>1, <2>3, ConsistentIsAccepted DEF PendingInv, Settable, CalmInv, TypeOK
      <4>2. /\ Range(e.from) \subseteq lowerLayer
            /\ Range(e.from) \subseteq Modes
            /\ Consistent(e.from) /\ Consistent(e.to)
            /\ configured \subseteq Range(e.from) \cup Range(e.to)
        BY <2>1, <2>3 DEF PendingInv, CalmInv, TypeOK, OperationModes
      <4>3. e.from \in Values
        <5>1. e \in Event
          BY <1>3, HeadTailProperties DEF e, HandleEvent, TypeOK
        <5>. QED
          BY <5>1 DEF Event
      <4>. QED
        BY <2>3, <3>2, <4>1, <4>2, <4>3, SetKeepsUplink
    <3>. QED
      BY <3>1, <3>2
  <2>. QED
    BY <1>3, <2>2, <2>3 DEF HandleEvent, _set_wan_mode
<1>4. CASE ClientStep
  BY <1>1, <1>2, <1>4 DEF TypeOK, CalmInv, ClientStep, _setWANMode, _WANModeEnable,
     _WANModeDisable, manipulate_mode, WriteWANMode, SetOperationMode, WriteOperationMode,
     WriteApplyAtNextBoot, _Reset, setup
<1>5. CASE NetModelStep
  BY <1>1, <1>5, FoundKeepsUplink DEF NetModelStep, Rewire, setup
<1>6. ASSUME NEW m \in Modes, SensingSetsMode(m) \/ NetworkSelectorSetsMode(m)
      PROVE  UplinkOfEnabledModeIsOn'
  <2>1. << m >> \in Settable /\ << m >> \in Values /\ Consistent(<< m >>)
    BY SingleIsConsistent, ConsistentIsAccepted DEF Settable, is_valid_mode_list, Range
  <2>. QED
    BY <1>2, <1>6, <2>1 DEF SensingSetsMode, NetworkSelectorSetsMode
<1>7. CASE ModuleStep
  BY <1>1, <1>6, <1>7 DEF ModuleStep, SensingStarts, SensingStops,
     SensingClosesQueries, setup
<1>8. CASE Restart \/ UNCHANGED vars
  BY <1>1, <1>8 DEF Restart, vars
<1>. QED
  BY <1>3, <1>4, <1>5, <1>7, <1>8 DEF Next

\* The upstream interface of an enabled mode is on, whichever modes share it
\* and whichever of them skip its switching off.
THEOREM UplinkStaysOn ==
    ASSUME WellBehaved
    PROVE  Spec => []UplinkOfEnabledModeIsOn
<1>1. Init => CalmInv /\ StatusInv /\ UplinkOfEnabledModeIsOn
  <2>. SUFFICES ASSUME Init PROVE CalmInv /\ StatusInv /\ UplinkOfEnabledModeIsOn
    OBVIOUS
  <2>1. CalmInv
    BY InitIsCalm
  <2>2. StatusInv
    BY DEF Init, StatusInv, EnabledIsConfigured, DisabledIsTornDown
  <2>3. UplinkOfEnabledModeIsOn
    BY DEF Init, UplinkOfEnabledModeIsOn, TypesOf
  <2>. QED
    BY <2>1, <2>2, <2>3
<1>2. TypeOK /\ StatusInv /\ CalmInv /\ UplinkOfEnabledModeIsOn /\ [Next]_vars =>
        StatusInv' /\ CalmInv' /\ UplinkOfEnabledModeIsOn'
  BY StatusStep, CalmStep, UplinkStep
<1>. QED
  BY <1>1, <1>2, TypeCorrect, PTL DEF Spec
=============================================================================
