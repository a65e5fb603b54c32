-------------------------------- MODULE Manager --------------------------------
(***************************************************************************)
(* What the WAN manager promises to a client that lets one request be      *)
(* carried out before it makes the next, in the client's terms: the modes  *)
(* it asked for, those that are really set up, and what Status shows.      *)
(* There are no lists, events, queries or lower layers here; WanMode       *)
(* implements this specification (M in WanMode).                           *)
(***************************************************************************)
CONSTANTS
    Modes,     \* the instances of WANManager.WAN.
    NoType,    \* physical_type_last
    physical   \* get_physical_type of every mode

VARIABLES
    asked,    \* the modes that WANMode lists
    before,   \* those that the request to be carried out replaces, or asked
    inPlace,  \* the modes that are set up
    shown     \* Status of every mode

vars == <<asked, before, inPlace, shown>>

\* Modes that may be active together.
Choices ==
    {S \in SUBSET Modes :
       \A m, n \in S : physical[m] = physical[n] /\ physical[m] # NoType => m = n}

Settled == before = asked

Init ==
    /\ asked \in Choices
    /\ before = asked
    /\ inPlace \in SUBSET asked
    /\ shown = [m \in Modes |-> IF m \in inPlace THEN "Enabled" ELSE "Disabled"]

-----------------------------------------------------------------------------
(* A change from the modes of old to those of new.  Common modes are left  *)
(* alone and the rest of old is taken down, whether it succeeds or not.    *)

\* Everything asked for is set up.
Success(old, new) ==
    /\ inPlace' = (inPlace \cap new) \cup (new \ old)
    /\ shown' = [m \in Modes |->
          CASE m \in new \ old -> "Enabled"
            [] m \in old \ new -> "Disabled"
            [] OTHER -> shown[m]]

\* A part is set up, and all of new is blamed.
Failure(old, new) ==
    /\ inPlace \cap new \subseteq inPlace'
    /\ inPlace' \subseteq new
    /\ shown' = [m \in Modes |->
          CASE m \in new -> "Error"
            [] m \in old \ new -> "Disabled"
            [] OTHER -> shown[m]]

\* A change from nothing sets nothing up.
TakeOver(old, new) ==
    IF old = {} THEN UNCHANGED <<inPlace, shown>>
    ELSE Success(old, new) \/ Failure(old, new)

-----------------------------------------------------------------------------
(* Steps.                                                                  *)

\* A client asks for other modes.
Ask ==
    /\ Settled
    /\ asked' \in Choices
    /\ before' = asked
    /\ UNCHANGED <<inPlace, shown>>

\* The request is carried out.
CarryOut ==
    /\ ~Settled /\ asked # {}
    /\ TakeOver(before, asked)
    /\ before' = asked
    /\ UNCHANGED asked

\* Asking for nothing is undone: the modes of before are asked for again.
Undo ==
    /\ ~Settled /\ asked = {}
    /\ asked' = before
    /\ before' = asked
    /\ UNCHANGED <<inPlace, shown>>

\* Another component asks for other modes, and gets them at once.  It may be
\* treated as a request once more.
Switch ==
    /\ Settled /\ asked # {}
    /\ asked' \in Choices \ {asked, {}}
    /\ before' \in {asked, asked'}
    /\ TakeOver(asked, asked')

\* All that was asked for is set up anew.
Renew ==
    /\ Settled
    /\ inPlace' = asked
    /\ shown' = [m \in Modes |-> IF m \in asked THEN "Enabled" ELSE shown[m]]
    /\ UNCHANGED <<asked, before>>

\* Lower layers get known, and modes that were asked for are set up or fail.
Arrive ==
    \E up \in SUBSET asked, failed \in SUBSET asked :
        /\ inPlace' = inPlace \cup up
        /\ shown' = [m \in Modes |->
              IF m \in up THEN "Enabled" ELSE IF m \in failed THEN "Error" ELSE shown[m]]
        /\ UNCHANGED <<asked, before>>

Next == Ask \/ CarryOut \/ Undo \/ Switch \/ Renew \/ Arrive

Spec == Init /\ [][Next]_vars

-----------------------------------------------------------------------------
(* What follows for the client.                                            *)

\* Only modes that were asked for are set up, besides those that a pending
\* request replaces, and Status never lies about them.
Promise ==
    /\ inPlace \subseteq asked \cup before
    /\ \A m \in Modes :
          /\ shown[m] = "Enabled" => m \in inPlace
          /\ shown[m] = "Disabled" => m \notin inPlace
=============================================================================
