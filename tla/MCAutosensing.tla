----------------------------- MODULE MCAutosensing -----------------------------
(***************************************************************************)
(* Instances of Autosensing for TLC: a mode that is up with IPv4, and one  *)
(* that needs both versions.                                               *)
(***************************************************************************)
EXTENDS Autosensing

CONSTANTS v4, v6, dual

MCVersions == {v4, v6}
MCNeeded == [m \in Modes |-> IF m = dual THEN {v4, v6} ELSE {v4}]
=============================================================================
