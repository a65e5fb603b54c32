----------------------------- MODULE ManagerProofs -----------------------------
(***************************************************************************)
(* Theorems about Manager.                                                 *)
(***************************************************************************)
EXTENDS Manager, TLAPS

\* A change that begins with at most the two sets in place ends with the new
\* one, and Status stays true.
LEMMA TakeOverKeepsPromise ==
    ASSUME Promise, NEW old, NEW new,
           inPlace \subseteq old \cup new,
           TakeOver(old, new),
           asked' = new
    PROVE  Promise'
<1>1. CASE old = {}
  BY <1>1 DEF TakeOver, Promise
<1>2. CASE Success(old, new)
  BY <1>2 DEF Success, Promise
<1>3. CASE Failure(old, new)
  BY <1>3 DEF Failure, Promise
<1>. QED
  BY <1>1, <1>2, <1>3 DEF TakeOver

LEMMA StepKeepsPromise == Promise /\ [Next]_vars => Promise'
<1>. SUFFICES ASSUME Promise, [Next]_vars PROVE Promise'
  OBVIOUS
<1>1. CASE Ask
  BY <1>1 DEF Ask, Settled, Promise
<1>2. CASE CarryOut
  BY <1>2, TakeOverKeepsPromise DEF CarryOut, Promise
<1>3. CASE Undo
  BY <1>3 DEF Undo, Promise
<1>4. CASE Switch
  BY <1>4, TakeOverKeepsPromise DEF Switch, Settled, Promise
<1>5. CASE Renew
  BY <1>5 DEF Renew, Settled, Promise
<1>6. CASE Arrive
  BY <1>6 DEF Arrive, Promise
<1>7. CASE UNCHANGED vars
  BY <1>7 DEF vars, Promise
<1>. QED
  BY <1>1, <1>2, <1>3, <1>4, <1>5, <1>6, <1>7 DEF Next

\* Whatever the client asks for and however the WAN manager carries it out,
\* nothing outlives the request that replaced it, and Status is true.
THEOREM PromiseKept == Spec => []Promise
<1>1. Init => Promise
  BY DEF Init, Promise
<1>. QED
  BY <1>1, StepKeepsPromise, PTL DEF Spec
=============================================================================
