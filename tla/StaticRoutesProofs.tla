--------------------------- MODULE StaticRoutesProofs ---------------------------
(***************************************************************************)
(* What module StaticRoutes does keep: with one interface with IPv6Mode    *)
(* static, and no fault, the route and the interface are in step.          *)
(***************************************************************************)
EXTENDS StaticRoutes, TLAPS

OneInterface == \A i, j \in Interfaces : i = j

\* The only alias ever used is 0, and it is in use while the interface is
\* enabled.
OneRoute ==
    /\ my_index = 0
    /\ enabled \subseteq Interfaces
    /\ Aliases = IF enabled \cap Routed = {} THEN {} ELSE {0}
    /\ \A a \in Aliases : routes[a] \in enabled \cap Routed

LEMMA EnableKeeps ==
    ASSUME Faults = {}, OneInterface, OneRoute, NEW i \in Interfaces, static_enable(i)
    PROVE  OneRoute'
<1>1. enabled = {} /\ Aliases = {} /\ my_index = 0 /\ enabled' = {i}
  BY DEF OneInterface, OneRoute, static_enable
<1>2. CASE i \notin Routed
  BY <1>1, <1>2 DEF OneRoute, static_enable, Aliases
<1>3. CASE i \in Routed
  <2>1. FreeIndex = 0
    BY <1>1 DEF FreeIndex
  <2>2. my_index' = 0 /\ routes' = With(0, i)
    BY <1>1, <1>3, <2>1 DEF static_enable
  <2>3. Aliases' = {0} /\ routes'[0] = i
    BY <1>1, <2>2 DEF With, Aliases
  <2>. QED
    BY <1>1, <1>3, <2>2, <2>3 DEF OneRoute
<1>. QED
  BY <1>2, <1>3

LEMMA DisableKeeps ==
    ASSUME Faults = {}, OneInterface, OneRoute, NEW i \in Interfaces, static_disable(i)
    PROVE  OneRoute'
<1>1. enabled' = {} /\ my_index = 0 /\ my_index' = 0 /\ routes' = Without(0)
  BY DEF OneInterface, OneRoute, static_disable
<1>2. Aliases' = {}
  BY <1>1 DEF OneRoute, Without, Aliases
<1>. QED
  BY <1>1, <1>2 DEF OneRoute

\* With one interface, enabling adds the route and disabling deletes it, again
\* and again: what goes wrong with my_index (static_controller.c:102 and :133)
\* takes a second interface, a refused deletion or a restart.
THEOREM OneRouteFollows ==
    ASSUME OneInterface, Faults = {}
    PROVE  Spec => []RouteFollows
<1>1. Init => OneRoute
  BY DEF Init, OneRoute, Aliases
<1>2. OneRoute /\ [Next]_vars => OneRoute'
  <2>1. CASE UNCHANGED vars
    BY <2>1 DEF vars, OneRoute, Aliases
  <2>. QED
    BY <2>1, EnableKeeps, DisableKeeps DEF Next, Restart
<1>3. OneRoute => RouteFollows
  BY DEF OneRoute, RouteFollows, HasRoute, OneInterface
<1>. QED
  BY <1>1, <1>2, <1>3, PTL DEF Spec
=============================================================================
