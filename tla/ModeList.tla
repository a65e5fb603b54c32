------------------------------- MODULE ModeList -------------------------------
(***************************************************************************)
(* WANManager.WANMode is a comma separated list of WAN mode names.  A list *)
(* is modelled as the sequence of its names.  This module holds what the   *)
(* plug-in computes from such a list without changing any state: the       *)
(* validation of a new value, the list arithmetic of the WANModeEnable and *)
(* WANModeDisable functions, and the part of a list that a loop over it    *)
(* reaches before it gives up.                                             *)
(***************************************************************************)
EXTENDS Naturals, Sequences, FiniteSets, Functions

CONSTANTS
    Modes,      \* the instances of WANManager.WAN.
    Unknown,    \* a name that is no instance of WANManager.WAN.
    PhysTypes,  \* physical_type_t, without physical_type_last
    NoType,     \* physical_type_last
    physical,   \* get_physical_type of every mode
    Values      \* the values that fit in WANMode (check_maximum_length 64)

Names == Modes \cup {Unknown}

ASSUME UnknownAssumption == Unknown \notin Modes
ASSUME NoTypeAssumption == NoType \notin PhysTypes
ASSUME PhysicalAssumption == physical \in [Modes -> PhysTypes \cup {NoType}]
ASSUME ValuesAssumption == Values \subseteq Seq(Names) /\ << >> \in Values

\* A name has at most 64 characters, too.
ASSUME SingleAssumption == \A m \in Modes : << m >> \in Values

\* Modes whose PhysicalReference (Device.Wifi.SSID.1.) or PhysicalType tells no
\* type.
Untyped == {m \in Modes : physical[m] = NoType}

-----------------------------------------------------------------------------
(* Validation.                                                             *)

\* is_valid_mode_list: a list is refused when empty or with an unknown name.
is_valid_mode_list(list) == list # << >> /\ Range(list) \subseteq Modes

\* Faulty variant: the physical types are not compared.
check_wan_mode_never_refuses(list) == TRUE

\* The positions that _check_wan_mode compares: it skips unknown names, and the
\* first mode without a type ends its walk.
Compared(list) ==
    {i \in DOMAIN list :
        list[i] \in Modes /\ \A k \in 1 .. i : list[k] \notin Untyped}

\* _check_wan_mode: no two compared modes of one physical type.
check_wan_mode(list) ==
    \A i, j \in Compared(list) : physical[list[i]] = physical[list[j]] => i = j

\* No name twice, and no two modes of one physical type, compared or not: all
\* that check_wan_mode can mean to ensure.
Consistent(list) ==
    \A i, j \in DOMAIN list :
        \/ list[i] = list[j]
        \/ /\ list[i] \in Modes \ Untyped /\ list[j] \in Modes
           /\ physical[list[i]] = physical[list[j]]
        => i = j

\* The parameter's validate actions, run by every transaction that writes it,
\* let these values pass.
Accepted == {list \in Values : check_wan_mode(list)}

\* Values of which check_wan_mode does not compare all it should.
Overlooked == {list \in Values : Range(list) \cap Untyped # {} /\ ~Consistent(list)}

-----------------------------------------------------------------------------
(* List arithmetic.  The argument of the first two functions is a string   *)
(* that is compared as a whole with the names of the list.                 *)

add_str_to_list(list, arg) ==
    IF Len(arg) = 1 /\ arg[1] \in Range(list) THEN list ELSE list \o arg

remove_str_from_list(list, arg) ==
    IF Len(arg) = 1 THEN SelectSeq(list, LAMBDA name : name # arg[1]) ELSE list

\* The list that an RPC with argument arg asks for.
change_wan_mode_values(list, arg, operation) ==
    CASE operation = "SET_MODE" -> arg
      [] operation = "ADD_MODE" -> add_str_to_list(list, arg)
      [] operation = "REM_MODE" -> remove_str_from_list(list, arg)

-----------------------------------------------------------------------------
(* Loops over a list.                                                      *)

\* Faulty variant: the common names are not taken out.
Rest_with_common(list, other) == DOMAIN list

\* The positions of list that remain when each name of the other list is taken
\* out once; all of them when the two lists are equal.
Rest(list, other) ==
    {i \in DOMAIN list :
        \/ list = other
        \/ Cardinality({j \in 1 .. i : list[j] = list[i]})
              > Cardinality({j \in DOMAIN other : other[j] = list[i]})}

\* The names that a loop over the positions at comes to when the first name of
\* bad ends it: that name is included.
Reached(list, at, bad) ==
    {list[i] : i \in {j \in at : \A k \in at : k < j => list[k] \notin bad}}

\* The modes a loop over list reaches before a name without instance ends it.
KnownPrefix(list) == Reached(list, DOMAIN list, {Unknown}) \cap Modes

\* wan_mode_different_physical_type: the new list uses a type that the
\* current one does not.
wan_mode_different_physical_type(current, new) ==
    /\ current # << >>
    /\ \E m \in Range(new) \cap (Modes \ Untyped) :
          \A n \in Range(current) \cap Modes : physical[m] # physical[n]
=============================================================================
