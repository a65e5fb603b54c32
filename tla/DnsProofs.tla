------------------------------ MODULE DnsProofs ------------------------------
(***************************************************************************)
(* Theorems about Dns, for every set of modes, interfaces and servers, and *)
(* under all faults.                                                       *)
(***************************************************************************)
EXTENDS Dns, TLAPS

\* Types, with the place in the turn: an interface is at hand whenever one is
\* needed, and at most one step past the last one.
TurnInv ==
    /\ TypeOK
    /\ phase = "intf" => intf \in 1 .. Len(DNSServers[mode]) + 1
    /\ phase = "add" => server \in 1 .. Len(DNSServers[mode][intf]) + 1

USE DNSServersAssumption, DNSModeAssumption, MaxForwardingsAssumption,
    NoneAssumption DEF Aliases

LEMMA ServersAreSequences ==
    ASSUME NEW m \in Modes
    PROVE  /\ DNSServers[m] \in Seq(Seq(Servers))
           /\ Len(DNSServers[m]) \in Nat
           /\ DOMAIN DNSServers[m] = 1 .. Len(DNSServers[m])
           /\ \A i \in DOMAIN DNSServers[m] :
                /\ DNSServers[m][i] \in Seq(Servers)
                /\ Len(DNSServers[m][i]) \in Nat
                /\ DOMAIN DNSServers[m][i] = 1 .. Len(DNSServers[m][i])
                /\ \A s \in DOMAIN DNSServers[m][i] : DNSServers[m][i][s] \in Servers
<1>1. DNSServers[m] \in Seq(Seq(Servers))
  OBVIOUS
<1>2. \A i \in DOMAIN DNSServers[m] : DNSServers[m][i] \in Seq(Servers)
  BY <1>1
<1>. QED
  BY <1>1, <1>2

\* The steps of dns_mode_set outside the loops of calls.
LEMMA SetKeepsTurnInv ==
    ASSUME TurnInv,
           \/ \E m \in Modes : dns_mode_set(m)
           \/ dns_mode_unset \/ NextInterface \/ FindPath \/ SetEnds \/ InterfaceEnds
    PROVE  TurnInv'
<1>. USE DEF TurnInv, TypeOK, End, Phases, Results
<1>1. ASSUME NEW m \in Modes, dns_mode_set(m) PROVE TurnInv'
  <2>1. intf' = 1 /\ mode' = m /\ phase' \in {"idle", "intf"}
    BY <1>1 DEF dns_mode_set
  <2>2. config' \in DNSModes \cup {None}
    BY <1>1 DEF dns_mode_set
  <2>3. result' \in Results /\ unsure' \in BOOLEAN
    BY <1>1 DEF dns_mode_set
  <2>4. 1 \in 1 .. Len(DNSServers[m]) + 1
    BY ServersAreSequences
  <2>. QED
    BY <1>1, <2>1, <2>2, <2>3, <2>4 DEF dns_mode_set
<1>2. CASE dns_mode_unset
  BY <1>2 DEF dns_mode_unset
<1>3. CASE NextInterface
  BY <1>3 DEF NextInterface
<1>4. CASE FindPath
  <2>1. intf + 1 \in 1 .. Len(DNSServers[mode]) + 1
    BY <1>4, ServersAreSequences DEF FindPath
  <2>2. 1 \in 1 .. Len(DNSServers[mode][intf]) + 1
    BY <1>4, ServersAreSequences DEF FindPath
  <2>. QED
    BY <1>4, <2>1, <2>2 DEF FindPath
<1>5. CASE SetEnds
  BY <1>5 DEF SetEnds
<1>6. CASE InterfaceEnds
  <2>1. intf + 1 \in 1 .. Len(DNSServers[mode]) + 1
    BY <1>6, ServersAreSequences DEF InterfaceEnds
  <2>. QED
    BY <1>6, <2>1 DEF InterfaceEnds
<1>. QED
  BY <1>1, <1>2, <1>3, <1>4, <1>5, <1>6

\* The loops of calls.
LEMMA CallsKeepTurnInv ==
    ASSUME TurnInv, set_forwarding \/ remove_static_dnsservers \/ RemovalEnds
    PROVE  TurnInv'
<1>. USE DEF TurnInv, TypeOK, End, Phases, Results
<1>1. CASE set_forwarding
  <2>1. DNSServers[mode][intf][server] \in Servers
    BY <1>1, ServersAreSequences DEF set_forwarding
  <2>2. Settable => index + 1 \in 1 .. MaxForwardings
    BY DEF Settable
  <2>3. server + 1 \in 1 .. Len(DNSServers[mode][intf]) + 1
    BY <1>1, ServersAreSequences DEF set_forwarding
  <2>4. relay' \in [Aliases -> Servers \cup {None}]
    BY <1>1, <2>1, <2>2 DEF set_forwarding
  <2>5. index' \in 0 .. MaxForwardings
    BY <1>1, <2>2 DEF set_forwarding
  <2>6. server' \in Nat \ {0} /\ (phase' = "add" => server' = server + 1)
    BY <1>1 DEF set_forwarding
  <2>7. unsure' \in BOOLEAN
    BY <1>1 DEF set_forwarding
  <2>8. /\ phase' \in {"add", "idle"}
        /\ result' \in Results
        /\ UNCHANGED <<config, mode, intf>>
    BY <1>1 DEF set_forwarding
  <2>9. intf \in DOMAIN DNSServers[mode]
    BY <1>1 DEF set_forwarding
  <2>. QED
    BY <2>3, <2>4, <2>5, <2>6, <2>7, <2>8, <2>9
<1>2. CASE remove_static_dnsservers
  <2>1. relay' \in [Aliases -> Servers \cup {None}]
    BY <1>2 DEF remove_static_dnsservers
  <2>2. index' \in 0 .. MaxForwardings
    BY <1>2 DEF remove_static_dnsservers
  <2>3. unsure' \in BOOLEAN
    BY <1>2 DEF remove_static_dnsservers
  <2>4. /\ phase' \in {phase, "path", "idle"}
        /\ phase' \in {"clean", "path", "add"} => phase \in {"clean", "path", "add"}
        /\ phase' \notin {"intf", "add"}
        /\ result' \in Results
        /\ UNCHANGED <<config, mode, intf, server>>
    BY <1>2 DEF remove_static_dnsservers, RemovalFails
  <2>. QED
    BY <2>1, <2>2, <2>3, <2>4
<1>3. CASE RemovalEnds
  BY <1>3 DEF RemovalEnds
<1>. QED
  BY <1>1, <1>2, <1>3

LEMMA NextKeepsTurnInv == TurnInv /\ [Next]_vars => TurnInv'
<1>. SUFFICES ASSUME TurnInv, [Next]_vars PROVE TurnInv'
  OBVIOUS
<1>1. CASE Restart
  BY <1>1 DEF Restart, End, TurnInv, TypeOK, Phases, Results
<1>2. CASE UNCHANGED vars
  BY <1>2 DEF vars, turn, TurnInv, TypeOK
<1>3. CASE \E m \in Modes : dns_mode_set(m)
  BY <1>3, SetKeepsTurnInv
<1>4. CASE dns_mode_unset
  BY <1>4, SetKeepsTurnInv
<1>5. CASE Proceed
  BY <1>5, SetKeepsTurnInv, CallsKeepTurnInv DEF Proceed
<1>. QED
  BY <1>1, <1>2, <1>3, <1>4, <1>5 DEF Next

LEMMA InitTurnInv == Init => TurnInv
<1>. SUFFICES ASSUME Init PROVE TurnInv
  OBVIOUS
<1>1. relay \in [Aliases -> Servers \cup {None}]
  BY DEF Init
<1>2. index \in 0 .. MaxForwardings
  BY DEF Init
<1>3. phase = "idle" /\ result \in Results /\ unsure \in BOOLEAN
  BY DEF Init, Results
<1>4. intf \in Nat \ {0} /\ server \in Nat \ {0}
  BY DEF Init
<1>5. config \in DNSModes \cup {None} /\ mode \in Modes
  BY DEF Init
<1>6. phase \in Phases /\ phase \notin {"clean", "path", "add", "intf"}
  BY <1>3 DEF Phases
<1>. QED
  BY <1>1, <1>2, <1>3, <1>4, <1>5, <1>6 DEF TurnInv, TypeOK

LEMMA TurnInvariant == Spec => []TurnInv
  BY InitTurnInv, NextKeepsTurnInv, PTL DEF Spec

\* The counters, the relay and the turn have their types: in particular the
\* loop over the interfaces never runs past the last one.
THEOREM DnsTypeCorrect == Spec => []TypeOK
<1>1. TurnInv => TypeOK
  BY DEF TurnInv
<1>. QED
  BY <1>1, TurnInvariant, PTL

-----------------------------------------------------------------------------
(* The counter and the relay.                                              *)

\* Together with the counter being zero when a removal reports success.
RelayInv ==
    /\ AllRemovable
    /\ ~unsure /\ result = "unset" /\ phase = "idle" => index = 0

LEMMA NextKeepsRelayInv == TurnInv /\ RelayInv /\ [Next]_vars => RelayInv'
<1>. SUFFICES ASSUME TurnInv, RelayInv, [Next]_vars PROVE RelayInv'
  OBVIOUS
<1>. USE DEF RelayInv, AllRemovable
<1>1. ASSUME NEW m \in Modes, dns_mode_set(m) PROVE RelayInv'
  <2>1. UNCHANGED <<index, relay, unsure>>
    BY <1>1 DEF dns_mode_set
  <2>2. phase' = "idle" => result' = "failed"
    BY <1>1 DEF dns_mode_set, End
  <2>. QED
    BY <2>1, <2>2
<1>2. CASE dns_mode_unset
  BY <1>2 DEF dns_mode_unset, End
<1>3. CASE NextInterface
  BY <1>3 DEF NextInterface
<1>4. CASE FindPath
  BY <1>4 DEF FindPath
<1>5. CASE SetEnds
  BY <1>5 DEF SetEnds, End
<1>6. CASE set_forwarding
  <2>1. DNSServers[mode][intf][server] # None
    BY <1>6, ServersAreSequences DEF set_forwarding, TurnInv, TypeOK
  <2>2. CASE Settable /\ index' = index + 1
    <3>1. /\ relay' = [relay EXCEPT ![index + 1] = DNSServers[mode][intf][server]]
          /\ UNCHANGED <<phase, result, unsure>>
      BY <1>6, <2>2 DEF set_forwarding, TurnInv, TypeOK
    <3>2. index \in Nat /\ index + 1 \in Aliases
      BY <2>2 DEF Settable, TurnInv, TypeOK
    <3>3. relay \in [Aliases -> Servers \cup {None}]
      BY DEF TurnInv, TypeOK
    <3>. QED
      BY <1>6, <2>1, <2>2, <3>1, <3>2, <3>3 DEF set_forwarding
  <2>3. CASE index' = index
    BY <1>6, <2>3 DEF set_forwarding, End, TurnInv, TypeOK
  <2>. QED
    BY <1>6, <2>2, <2>3 DEF set_forwarding
<1>7. CASE InterfaceEnds
  BY <1>7 DEF InterfaceEnds
<1>8. CASE remove_static_dnsservers
  BY <1>8 DEF remove_static_dnsservers, Deletable, RemovalFails, End, TurnInv, TypeOK
<1>9. CASE RemovalEnds
  BY <1>9 DEF RemovalEnds, End
<1>10. CASE Restart
  BY <1>10 DEF Restart
<1>11. CASE UNCHANGED vars
  BY <1>11 DEF vars, turn
<1>. QED
  BY <1>1, <1>2, <1>3, <1>4, <1>5, <1>6, <1>7, <1>8, <1>9, <1>10, <1>11 DEF Next, Proceed

LEMMA RelayInvariant == Spec => []RelayInv
<1>1. Init => RelayInv
  BY DEF Init, RelayInv, AllRemovable
<1>. QED
  BY <1>1, NextKeepsRelayInv, TurnInvariant, PTL DEF Spec

\* Unless a reply or the counter is lost, every instance in the relay has a
\* number that remove_static_dnsservers comes to, whichever calls are refused.
THEOREM RelayIsRemovable == Spec => []AllRemovable
<1>1. RelayInv => AllRemovable
  BY DEF RelayInv
<1>. QED
  BY <1>1, RelayInvariant, PTL

\* Unless a reply or the counter is lost, a dns_mode_unset that succeeds leaves
\* nothing behind.
THEOREM UnsetLeavesNothing == Spec => []UnsetEmpties
<1>1. TurnInv /\ RelayInv => UnsetEmpties
  BY DEF TurnInv, TypeOK, RelayInv, AllRemovable, UnsetEmpties
<1>. QED
  BY <1>1, TurnInvariant, RelayInvariant, PTL

-----------------------------------------------------------------------------
(* What a successful set leaves in the relay.                              *)

\* While the servers of an interface are added, those already added have the
\* last numbers; once an interface is done, its servers stay until the next one
\* is begun.
SetInv ==
    /\ LastInterfaceRelayed
    /\ phase = "add" =>
         /\ server - 1 <= index
         /\ \A s \in 1 .. server - 1 :
               relay[index - (server - 1) + s] = DNSServers[mode][intf][s]
    /\ phase = "intf" /\ intf > 1 =>
         <<mode, intf - 1>> \in Pathless \/ Relayed(mode, intf - 1)

\* A turn that has not ended with success promises nothing.
LEMMA QuietStepKeepsSetInv ==
    ASSUME phase' \notin {"add", "intf"}, phase' = "idle" => result' # "set"
    PROVE  SetInv'
  BY DEF SetInv, LastInterfaceRelayed

LEMMA ForwardingKeepsSetInv ==
    ASSUME TurnInv, SetInv, set_forwarding
    PROVE  SetInv'
<1>. USE DEF TurnInv, TypeOK
<1>1. CASE phase' = "add"
  <2>1. /\ relay' = [relay EXCEPT ![index + 1] = DNSServers[mode][intf][server]]
        /\ index' = index + 1
        /\ server' = server + 1
        /\ UNCHANGED <<mode, intf>>
        /\ phase = "add"
        /\ index + 1 \in Aliases
    BY <1>1 DEF set_forwarding, End, Settable
  <2>2. relay'[index + 1] = DNSServers[mode][intf][server]
    BY <2>1
  <2>3. ASSUME NEW s \in 1 .. server' - 1
        PROVE  relay'[index' - (server' - 1) + s] = DNSServers[mode'][intf'][s]
    <3>1. CASE s = server
      BY <2>1, <2>2, <3>1
    <3>2. CASE s \in 1 .. server - 1
      <4>1. /\ index' - (server' - 1) + s = index - (server - 1) + s
            /\ index - (server - 1) + s \in 1 .. index
        BY <2>1, <3>2 DEF SetInv
      <4>2. relay[index - (server - 1) + s] = DNSServers[mode][intf][s]
        BY <2>1, <3>2 DEF SetInv
      <4>. QED
        BY <2>1, <4>1, <4>2
    <3>. QED
      BY <2>1, <2>3, <3>1, <3>2
  <2>4. server' - 1 <= index'
    BY <2>1 DEF SetInv
  <2>. QED
    BY <1>1, <2>3, <2>4 DEF SetInv, LastInterfaceRelayed
<1>2. CASE phase' # "add"
  BY <1>2, QuietStepKeepsSetInv DEF set_forwarding, End
<1>. QED
  BY <1>1, <1>2

LEMMA NextKeepsSetInv == TurnInv /\ SetInv /\ [Next]_vars => SetInv'
<1>. SUFFICES ASSUME TurnInv, SetInv, [Next]_vars PROVE SetInv'
  OBVIOUS
<1>1. ASSUME NEW m \in Modes, dns_mode_set(m) PROVE SetInv'
  <2>1. intf' = 1 /\ phase' # "add" /\ (phase' = "idle" => result' # "set")
    BY <1>1 DEF dns_mode_set, End
  <2>. QED
    BY <2>1 DEF SetInv, LastInterfaceRelayed
<1>2. CASE dns_mode_unset
  BY <1>2, QuietStepKeepsSetInv DEF dns_mode_unset, End
<1>3. CASE NextInterface
  BY <1>3, QuietStepKeepsSetInv DEF NextInterface
<1>4. CASE FindPath
  <2>1. CASE <<mode, intf>> \in Pathless
    <3>1. /\ phase' = "intf"
          /\ UNCHANGED mode
          /\ intf' - 1 = intf
      BY <1>4, <2>1 DEF FindPath, TurnInv, TypeOK
    <3>. QED
      BY <2>1, <3>1 DEF SetInv, LastInterfaceRelayed
  <2>2. CASE <<mode, intf>> \notin Pathless
    BY <1>4, <2>2 DEF FindPath, SetInv, LastInterfaceRelayed, TurnInv, TypeOK
  <2>. QED
    BY <2>1, <2>2
<1>5. CASE SetEnds
  <2>1. /\ phase' = "idle" /\ result' = "set"
        /\ UNCHANGED <<relay, mode>>
        /\ intf - 1 = Len(DNSServers[mode])
        /\ DNSServers[mode] # << >> => intf > 1
    BY <1>5, ServersAreSequences DEF SetEnds, End, TurnInv, TypeOK
  <2>2. LastInterfaceRelayed'
    BY <1>5, <2>1 DEF LastInterfaceRelayed, SetInv, Relayed, SetEnds
  <2>. QED
    BY <2>1, <2>2 DEF SetInv
<1>6. CASE set_forwarding
  BY <1>6, ForwardingKeepsSetInv
<1>7. CASE InterfaceEnds
  <2>1. /\ phase' = "intf" /\ phase = "add"
        /\ intf' - 1 = intf
        /\ UNCHANGED <<index, relay, mode>>
        /\ server - 1 = Len(DNSServers[mode][intf])
    BY <1>7, ServersAreSequences DEF InterfaceEnds, TurnInv, TypeOK
  <2>2. ASSUME NEW s \in DOMAIN DNSServers[mode][intf]
        PROVE  \E alias \in Aliases : relay[alias] = DNSServers[mode][intf][s]
    <3>1. s \in 1 .. server - 1
      BY <2>1, ServersAreSequences DEF TurnInv, TypeOK
    <3>2. index - (server - 1) + s \in Aliases
      BY <2>1, <3>1 DEF SetInv, TurnInv, TypeOK
    <3>3. relay[index - (server - 1) + s] = DNSServers[mode][intf][s]
      BY <2>1, <3>1 DEF SetInv
    <3>. QED
      BY <3>2, <3>3
  <2>3. Relayed(mode, intf)
    BY <2>2 DEF Relayed
  <2>. QED
    BY <2>1, <2>3 DEF SetInv, LastInterfaceRelayed, Relayed
<1>8. CASE remove_static_dnsservers
  BY <1>8, QuietStepKeepsSetInv DEF remove_static_dnsservers, RemovalFails, End
<1>9. CASE RemovalEnds
  BY <1>9, QuietStepKeepsSetInv DEF RemovalEnds, End
<1>10. CASE Restart
  BY <1>10, QuietStepKeepsSetInv DEF Restart, End
<1>11. CASE UNCHANGED vars
  BY <1>11 DEF vars, turn, SetInv, LastInterfaceRelayed, Relayed
<1>. QED
  BY <1>1, <1>2, <1>3, <1>4, <1>5, <1>6, <1>7, <1>8, <1>9, <1>10, <1>11 DEF Next, Proceed

\* Under all faults, a dns_mode_set that succeeds has put every server of the
\* mode's last interface into the relay.
THEOREM SetIsComplete == Spec => []LastInterfaceRelayed
<1>1. Init => SetInv
  BY DEF Init, SetInv, LastInterfaceRelayed
<1>2. SetInv => LastInterfaceRelayed
  BY DEF SetInv
<1>. QED
  BY <1>1, <1>2, NextKeepsSetInv, TurnInvariant, PTL DEF Spec
=============================================================================
