----------------------------- MODULE StaticRoutes -----------------------------
(***************************************************************************)
(* The default IPv6 routes of the interfaces with IPv6Mode static: the     *)
(* instances of Routing.Router.1.IPv6Forwarding that the static controller *)
(* adds and deletes, and the counter my_index that all interfaces share    *)
(* (routing_default_ipv6_route_mod_inst in wan_manager_utils.c).           *)
(*                                                                         *)
(* An alias is modelled by its number: 0 is "wan-mngr", n is "wan-mngr-n". *)
(***************************************************************************)
EXTENDS Naturals, FiniteSets

CONSTANTS
    Interfaces,  \* the interfaces with IPv6Mode static
    Routed,      \* those with a DefaultRouter
    Faults       \* a subset of {"AddFails", "DeleteFails", "Restart"}

VARIABLES
    routes,    \* the interface of every alias in use
    my_index,  \* the static counter
    enabled    \* the interfaces whose static layer is enabled

vars == <<routes, my_index, enabled>>

Aliases == DOMAIN routes

TypeOK ==
    /\ Aliases \subseteq Nat
    /\ routes \in [Aliases -> Interfaces]
    /\ my_index \in Nat
    /\ enabled \subseteq Interfaces

Init ==
    /\ routes = << >>
    /\ my_index = 0
    /\ enabled = {}

\* The loop that looks for an alias: my_index as it is when the first alias is
\* free, else the next number that is.
FreeIndex ==
    IF 0 \notin Aliases THEN my_index
    ELSE CHOOSE n \in my_index + 1 .. my_index + 1 + Cardinality(Aliases) :
            n \notin Aliases /\ \A k \in my_index + 1 .. n - 1 : k \in Aliases

With(alias, i) == [a \in Aliases \cup {alias} |-> IF a = alias THEN i ELSE routes[a]]

Without(alias) == [a \in Aliases \ {alias} |-> routes[a]]

\* The routing manager refuses an alias that is in use.
static_enable(i) ==
    /\ i \notin enabled
    /\ enabled' = enabled \cup {i}
    /\ IF i \notin Routed THEN UNCHANGED <<routes, my_index>>
       ELSE /\ my_index' = FreeIndex
            /\ \/ FreeIndex \notin Aliases /\ routes' = With(FreeIndex, i)
               \/ /\ FreeIndex \in Aliases \/ "AddFails" \in Faults
                  /\ UNCHANGED routes

\* The alias that my_index gives is deleted, whatever interface it belongs to,
\* and whether that succeeds is not looked at.
static_disable(i) ==
    /\ i \in enabled
    /\ enabled' = enabled \ {i}
    /\ my_index' = 0
    /\ \/ routes' = Without(my_index)
       \/ "DeleteFails" \in Faults /\ UNCHANGED routes

\* The process starts again: the routes are those of another component.
Restart ==
    /\ "Restart" \in Faults
    /\ my_index' = 0
    /\ enabled' = {}
    /\ UNCHANGED routes

Next ==
    \/ \E i \in Interfaces : static_enable(i) \/ static_disable(i)
    \/ Restart

Spec == Init /\ [][Next]_vars

-----------------------------------------------------------------------------
(* Properties.                                                             *)

HasRoute(i) == \E a \in Aliases : routes[a] = i

\* An interface has its route exactly while its static layer is enabled
\* (static_enable, static_disable).
RouteFollows == \A i \in Routed : i \in enabled <=> HasRoute(i)

\* "WANManager.WANModeEnable() and WANManager.WANModeDisable() can be used to
\* enable/disable a particular WANMode without touching other active WANModes"
\* (README.md:149): an interface that stays enabled keeps its route.
RoutesOfOthersStay ==
    [][\A i \in enabled \cap enabled' : HasRoute(i) => HasRoute(i)']_vars
=============================================================================
