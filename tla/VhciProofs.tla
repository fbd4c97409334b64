------------------------------ MODULE VhciProofs ------------------------------
(***************************************************************************)
(* Proofs about Vhci for every set of devices, ports and controllers.      *)
(***************************************************************************)
EXTENDS Vhci, TLAPS, WellFoundedInduction

\* The first free port of a set of ports is one of them.
LEMMA FirstPort == ASSUME NEW S \in SUBSET Nat, S # {} PROVE Min(S) \in S
<1>1. PICK x \in S : \A y \in S : ~(<<y, x>> \in OpToRel(<, Nat))
  BY NatLessThanWellFounded, WFMin
<1>2. \A y \in S : x <= y
  <2> SUFFICES ASSUME NEW y \in S PROVE x <= y
    OBVIOUS
  <2>1. <<y, x>> \in Nat \X Nat /\ ~(<<y, x>> \in OpToRel(<, Nat))
    BY <1>1
  <2>2. ~(y < x)
    BY <2>1 DEF OpToRel
  <2>3. QED
    BY <2>2
<1>3. QED
  BY <1>2 DEF Min

\* Attach takes a port of devices_ at the hub of the device; if the port is free,
\* the devices on their way have a rival more.
LEMMA AttachFacts ==
    ASSUME TypeOK, NEW d \in Devices, Attach(d)
    PROVE  \E p \in Ports :
               /\ p \in known[d] /\ HubOf[p] = HubFor(SpeedOf[d])
               /\ \/ owner[p] = NoDevice /\ owner' = [owner EXCEPT ![p] = d]
                     /\ rivals' = [e \in Devices |->
                                     IF e \in Pending(d) THEN rivals[e] \cup {d} ELSE rivals[e]]
                  \/ owner[p] # NoDevice /\ UNCHANGED <<owner, rivals>>
<1>1. Candidates(d) \in SUBSET Nat /\ Candidates(d) # {} /\ Candidates(d) \subseteq known[d]
      /\ known[d] \subseteq Ports
  BY PortsAssumption DEF Attach, Candidates, TypeOK
<1>2. Min(Candidates(d)) \in Candidates(d)
  BY <1>1, FirstPort
<1> DEFINE first == Min(Candidates(d))
<1>3. \/ owner[first] = NoDevice /\ owner' = [owner EXCEPT ![first] = d]
         /\ rivals' = [e \in Devices |->
                         IF e \in Pending(d) THEN rivals[e] \cup {d} ELSE rivals[e]]
      \/ owner[first] # NoDevice /\ UNCHANGED <<owner, rivals>>
  BY DEF Attach
<1>4. first \in known[d] /\ first \in Ports /\ HubOf[first] = HubFor(SpeedOf[d])
  BY <1>1, <1>2 DEF Candidates
<1> HIDE DEF first
<1>5. QED
  BY <1>3, <1>4

\* What the daemon's thread does, by the command it executes.
LEMMA DaemonFacts ==
    ASSUME TypeOK
    PROVE  /\ daemon.op \in {"idle", "open", "unplug"}
           /\ daemon.op # "idle" => daemon.dev \in Devices /\ daemon.controller \in 0 .. Controllers - 1
           /\ daemon.op = "idle" => daemon = Idle
           /\ Idle.op = "idle" /\ NoDevice \notin Devices
           /\ daemon = [op |-> daemon.op, dev |-> daemon.dev, controller |-> daemon.controller]
  BY DevicesAssumption DEF TypeOK, Idle

\* A step keeps the types.
LEMMA TypeStep == ASSUME TypeOK, [Next]_vars PROVE TypeOK'
<1>1. ASSUME NEW d \in Devices, Open(d) \/ Unplug(d) PROVE TypeOK'
  BY <1>1, ControllersAssumption DEF Open, Unplug, TypeOK
<1>2. CASE RefreshStatus \/ StatusUnparsed
  <2>1. known' \in [Devices -> SUBSET Ports]
    BY <1>2, DaemonFacts DEF RefreshStatus, StatusUnparsed, TypeOK
  <2>2. daemon.op = "open" /\ NextController /\ UNCHANGED <<owner, terminated, rivals>>
    BY <1>2 DEF RefreshStatus, StatusUnparsed
  <2>3. CASE daemon.controller + 1 < Controllers
    <3>1. daemon' = [daemon EXCEPT !.controller = daemon.controller + 1] /\ state' = state
      BY <2>2, <2>3 DEF NextController
    <3>2. daemon' \in [op : {"open", "unplug"}, dev : Devices, controller : 0 .. Controllers - 1]
      BY <2>2, <2>3, <3>1, DaemonFacts, ControllersAssumption
    <3>3. QED
      BY <2>1, <2>2, <3>1, <3>2 DEF TypeOK
  <2>4. CASE ~(daemon.controller + 1 < Controllers)
    BY <2>1, <2>2, <2>4 DEF NextController, TypeOK
  <2>5. QED
    BY <2>3, <2>4
<1>3. CASE RefreshFails \/ CloseSocket
  BY <1>3 DEF RefreshFails, CloseSocket, TypeOK
<1>4. ASSUME NEW d \in Devices, Attach(d) PROVE TypeOK'
  <2>1. /\ owner' \in [Ports -> Devices \cup {NoDevice}]
        /\ rivals' \in [Devices -> SUBSET Devices]
    BY <1>4, AttachFacts DEF TypeOK
  <2>2. QED
    BY <1>4, <2>1 DEF Attach, TypeOK
<1>5. ASSUME NEW d \in Devices, AttachThrows(d) PROVE TypeOK'
  BY <1>5 DEF AttachThrows, TypeOK
<1>6. ASSUME NEW p \in Ports, KernelRelease(p) PROVE TypeOK'
  BY <1>6 DEF KernelRelease, TypeOK
<1>7. CASE UNCHANGED vars
  BY <1>7 DEF vars, TypeOK
<1>8. QED
  BY <1>1, <1>2, <1>3, <1>4, <1>5, <1>6, <1>7 DEF Next, DaemonStep, DeviceStep

-----------------------------------------------------------------------------
(* The hub of a port, and one port per device. *)

\* The daemon's thread opens one device at a time.
Opening ==
    /\ daemon.op = "open" => state[daemon.dev] = "opening"
    /\ \A d \in Devices : state[d] = "opening" => daemon.op = "open" /\ daemon.dev = d

\* A port belongs to a device that was attached.
OwnersAttached == \A p \in Ports : owner[p] # NoDevice => state[owner[p]] \in {"attached", "closed"}

\* What happens to the state of the device objects.
LEMMA StateSteps ==
    ASSUME TypeOK, Opening, [Next]_vars
    PROVE  /\ Opening'
           /\ \A d \in Devices : state[d] \in {"attached", "closed"} => state'[d] \in {"attached", "closed"}
<1>1. TypeOK /\ TypeOK' /\ state \in [Devices -> {"absent", "opening", "opened", "attached", "closed"}]
  BY TypeStep DEF TypeOK
<1> DEFINE Goal ==
        /\ daemon'.op = "open" => state'[daemon'.dev] = "opening"
        /\ \A d \in Devices : state'[d] = "opening" => daemon'.op = "open" /\ daemon'.dev = d
        /\ \A d \in Devices : state[d] \in {"attached", "closed"} => state'[d] \in {"attached", "closed"}
<1>2. ASSUME NEW d \in Devices, Open(d) \/ Unplug(d) PROVE Goal
  BY <1>1, <1>2, DaemonFacts DEF Open, Unplug, Opening, Idle
<1>3. ASSUME RefreshStatus \/ StatusUnparsed PROVE Goal
  <2>1. CASE daemon.controller + 1 < Controllers
    <3>1. state' = state /\ daemon' = [daemon EXCEPT !.controller = daemon.controller + 1]
      BY <1>3, <2>1 DEF RefreshStatus, StatusUnparsed, NextController
    <3>2. daemon'.op = daemon.op /\ daemon'.dev = daemon.dev
      BY <3>1, <1>1, DaemonFacts
    <3>3. QED
      BY <3>1, <3>2 DEF Opening
  <2>2. CASE ~(daemon.controller + 1 < Controllers)
    BY <1>1, <1>3, <2>2, DaemonFacts DEF RefreshStatus, StatusUnparsed, NextController, Opening
  <2>3. QED
    BY <2>1, <2>2
<1>4. ASSUME RefreshFails \/ CloseSocket PROVE Goal
  BY <1>1, <1>4, DaemonFacts DEF RefreshFails, CloseSocket, Opening
<1>5. ASSUME NEW d \in Devices, Attach(d) PROVE Goal
  BY <1>1, <1>5, DaemonFacts DEF Attach, Opening
<1>6. ASSUME UNCHANGED <<state, daemon>> PROVE Goal
  BY <1>6 DEF Opening
<1>7. Goal
  BY <1>2, <1>3, <1>4, <1>5, <1>6 DEF Next, DaemonStep, DeviceStep, AttachThrows, KernelRelease, vars
<1>8. QED
  BY <1>7 DEF Opening

PortInv == TypeOK /\ Opening /\ OwnersAttached /\ PortFits

\* A device that takes a port owns none yet.
LEMMA PortStep == ASSUME PortInv, [Next]_vars PROVE PortInv'
<1>1. TypeOK /\ TypeOK' /\ Opening /\ Opening'
  BY TypeStep, StateSteps DEF PortInv
<1>2. \A d \in Devices : state[d] \in {"attached", "closed"} => state'[d] \in {"attached", "closed"}
  BY <1>1, StateSteps
<1>3. /\ owner \in [Ports -> Devices \cup {NoDevice}] /\ NoDevice \notin Devices
      /\ \A p \in Ports : owner[p] # NoDevice => owner[p] \in Devices
  BY <1>1, DaemonFacts DEF TypeOK
<1>4. ASSUME owner' = owner PROVE OwnersAttached' /\ PortFits'
  BY <1>2, <1>3, <1>4 DEF PortInv, OwnersAttached, PortFits
<1>5. ASSUME NEW p \in Ports, KernelRelease(p) PROVE OwnersAttached' /\ PortFits'
  <2>1. \A q \in Ports : owner'[q] = IF q = p THEN NoDevice ELSE owner[q]
    BY <1>3, <1>5 DEF KernelRelease
  <2>2. QED
    BY <2>1, <1>2, <1>3 DEF PortInv, OwnersAttached, PortFits
<1>6. ASSUME NEW d \in Devices, Attach(d) PROVE OwnersAttached' /\ PortFits'
  <2>1. PICK p \in Ports :
            /\ HubOf[p] = HubFor(SpeedOf[d])
            /\ owner' = IF owner[p] = NoDevice THEN [owner EXCEPT ![p] = d] ELSE owner
    BY <1>1, <1>6, AttachFacts
  <2>2. CASE owner[p] # NoDevice
    BY <2>1, <2>2, <1>4
  <2>3. CASE owner[p] = NoDevice
    <3>1. \A q \in Ports : owner'[q] = IF q = p THEN d ELSE owner[q]
      BY <2>1, <2>3, <1>3
    <3>2. state'[d] = "attached" /\ state[d] = "opened"
      BY <1>1, <1>6 DEF Attach, TypeOK
    <3>3. \A q \in Ports : owner[q] # d
      BY <3>2, <1>3 DEF PortInv, OwnersAttached
    <3>4. OwnersAttached'
      BY <3>1, <3>2, <1>2, <1>3 DEF PortInv, OwnersAttached
    <3>5. PortFits'
      BY <2>1, <3>1, <3>3, <1>3 DEF PortInv, PortFits
    <3>6. QED
      BY <3>4, <3>5
  <2>4. QED
    BY <2>2, <2>3
<1>7. owner' = owner \/ (\E p \in Ports : KernelRelease(p)) \/ (\E d \in Devices : Attach(d))
  BY DEF Next, Open, Unplug, DaemonStep, RefreshStatus, StatusUnparsed, RefreshFails, CloseSocket,
     DeviceStep, AttachThrows, vars
<1>8. QED
  BY <1>1, <1>4, <1>5, <1>6, <1>7 DEF PortInv

LEMMA PortInit == ASSUME Init PROVE PortInv
<1>1. TypeOK
  BY DEF Init, TypeOK
<1>2. Opening /\ OwnersAttached /\ PortFits
  BY DEF Init, Opening, Idle, OwnersAttached, PortFits
<1>3. QED
  BY <1>1, <1>2 DEF PortInv

\* A device is attached at one port at most, and at one of its own hub, whatever
\* devices are plugged and however their threads race for the ports.
THEOREM PortFitsTheorem == Spec => []PortFits
<1>1. PortInv => PortFits
  BY DEF PortInv
<1>2. QED
  BY <1>1, PortInit, PortStep, PTL DEF Spec

-----------------------------------------------------------------------------
(* An attach that is lost. *)

\* A port that a device on its way found free is free still, or a rival took it.
FreeOrRival ==
    \A d \in Devices :
        /\ state[d] = "absent" => known[d] = {}
        /\ state[d] \in {"opening", "opened"} =>
               \A p \in known[d] : owner[p] = NoDevice \/ owner[p] \in rivals[d]

\* The invariant is inductive: only an attach takes a port, and it makes the device a
\* rival of all that are on their way.
LEMMA RivalStep ==
    ASSUME PortInv, FreeOrRival, LostOnlyToRival, [Next]_vars
    PROVE  FreeOrRival' /\ LostOnlyToRival'
<1> DEFINE Goal == FreeOrRival' /\ LostOnlyToRival'
<1>1. /\ TypeOK /\ TypeOK' /\ Opening
      /\ state \in [Devices -> {"absent", "opening", "opened", "attached", "closed"}]
      /\ known \in [Devices -> SUBSET Ports]
      /\ rivals \in [Devices -> SUBSET Devices]
      /\ owner \in [Ports -> Devices \cup {NoDevice}] /\ NoDevice \notin Devices
  BY TypeStep, DaemonFacts DEF PortInv, TypeOK
<1>2. ASSUME NEW d \in Devices, Open(d) PROVE Goal
  <2>1. /\ \A e \in Devices : state'[e] = IF e = d THEN "opening" ELSE state[e]
        /\ state[d] = "absent" /\ UNCHANGED <<owner, known, terminated, rivals>>
    BY <1>1, <1>2 DEF Open
  <2>2. QED
    BY <2>1 DEF FreeOrRival, LostOnlyToRival
<1>3. ASSUME UNCHANGED <<owner, state, known, rivals>>, terminated => terminated' PROVE Goal
  BY <1>3 DEF FreeOrRival, LostOnlyToRival
<1>4. ASSUME RefreshStatus \/ StatusUnparsed PROVE Goal
  <2>1. /\ daemon.dev \in Devices /\ state[daemon.dev] = "opening"
        /\ UNCHANGED <<owner, terminated, rivals>>
        /\ \A e \in Devices : e # daemon.dev => known'[e] = known[e]
        /\ \A p \in known'[daemon.dev] : p \in known[daemon.dev] \/ owner[p] = NoDevice
    BY <1>1, <1>4, DaemonFacts DEF RefreshStatus, StatusUnparsed, Opening
  <2>2. /\ \A e \in Devices : e # daemon.dev => state'[e] = state[e]
        /\ state'[daemon.dev] \in {"opening", "opened"}
    BY <1>1, <1>4, <2>1 DEF RefreshStatus, StatusUnparsed, NextController
  <2>3. QED
    BY <2>1, <2>2 DEF FreeOrRival, LostOnlyToRival
<1>5. ASSUME RefreshFails PROVE Goal
  <2>1. /\ daemon.dev \in Devices /\ state[daemon.dev] = "opening"
        /\ UNCHANGED <<owner, known, terminated, rivals>>
        /\ \A e \in Devices : state'[e] = IF e = daemon.dev THEN "opened" ELSE state[e]
    BY <1>1, <1>5, DaemonFacts DEF RefreshFails, Opening
  <2>2. QED
    BY <2>1 DEF FreeOrRival, LostOnlyToRival
<1>6. ASSUME CloseSocket PROVE Goal
  <2>1. /\ daemon.dev \in Devices /\ UNCHANGED <<owner, known, terminated, rivals>>
        /\ \A e \in Devices : state'[e] = IF e = daemon.dev THEN "closed" ELSE state[e]
    BY <1>1, <1>6, DaemonFacts DEF CloseSocket
  <2>2. QED
    BY <2>1 DEF FreeOrRival, LostOnlyToRival
<1>7. ASSUME NEW d \in Devices, Attach(d) PROVE Goal
  <2>1. /\ state[d] = "opened" /\ UNCHANGED <<known, terminated>>
        /\ \A e \in Devices : state'[e] = IF e = d THEN "attached" ELSE state[e]
    BY <1>1, <1>7 DEF Attach
  <2>2. PICK p \in Ports :
            /\ p \in known[d] /\ HubOf[p] = HubFor(SpeedOf[d])
            /\ \/ owner[p] = NoDevice /\ owner' = [owner EXCEPT ![p] = d]
                  /\ rivals' = [e \in Devices |->
                                  IF e \in Pending(d) THEN rivals[e] \cup {d} ELSE rivals[e]]
               \/ owner[p] # NoDevice /\ UNCHANGED <<owner, rivals>>
    BY <1>1, <1>7, AttachFacts
  <2>3. CASE owner[p] = NoDevice
    <3>1. /\ \A q \in Ports : owner'[q] = IF q = p THEN d ELSE owner[q]
          /\ \A e \in Devices : /\ rivals[e] \subseteq rivals'[e]
                                /\ state'[e] \in {"opening", "opened"} => d \in rivals'[e]
      BY <1>1, <2>1, <2>2, <2>3 DEF Pending
    <3>2. FreeOrRival'
      BY <1>1, <2>1, <3>1 DEF FreeOrRival
    <3>3. ASSUME NEW e \in Devices, state'[e] = "attached", ~terminated'
          PROVE  \/ \E q \in Ports : owner'[q] = e
                 \/ \E x \in rivals'[e] : HubFor(SpeedOf[x]) = HubFor(SpeedOf[e])
      <4>1. CASE e = d
        BY <4>1, <3>1
      <4>2. CASE e # d
        <5>1. state[e] = "attached" /\ ~terminated
          BY <4>2, <3>3, <2>1
        <5>2. ASSUME NEW q \in Ports, owner[q] = e PROVE owner'[q] = e
          BY <5>2, <3>1, <2>3, <1>1
        <5>3. QED
          BY <5>1, <5>2, <3>1 DEF LostOnlyToRival
      <4>3. QED
        BY <4>1, <4>2
    <3>4. QED
      BY <3>2, <3>3 DEF LostOnlyToRival
  <2>4. CASE owner[p] # NoDevice
    <3>1. UNCHANGED <<owner, rivals>>
      BY <2>2, <2>4
    <3>2. FreeOrRival'
      BY <2>1, <3>1 DEF FreeOrRival
    <3>3. owner[p] \in rivals[d] /\ HubFor(SpeedOf[owner[p]]) = HubFor(SpeedOf[d])
      BY <2>1, <2>2, <2>4 DEF FreeOrRival, PortInv, PortFits
    <3>4. LostOnlyToRival'
      BY <2>1, <3>1, <3>3 DEF LostOnlyToRival
    <3>5. QED
      BY <3>2, <3>4
  <2>5. QED
    BY <2>3, <2>4
<1>8. ASSUME NEW p \in Ports, KernelRelease(p) PROVE Goal
  <2>1. /\ UNCHANGED <<state, known, terminated, rivals>>
        /\ \A q \in Ports : owner'[q] = IF q = p THEN NoDevice ELSE owner[q]
        /\ state[owner[p]] = "closed" \/ terminated
    BY <1>1, <1>8 DEF KernelRelease
  <2>2. FreeOrRival'
    BY <2>1, <1>1 DEF FreeOrRival
  <2>3. LostOnlyToRival'
    BY <2>1 DEF LostOnlyToRival
  <2>4. QED
    BY <2>2, <2>3
<1>9. ASSUME NEW d \in Devices, Unplug(d) \/ AttachThrows(d) PROVE Goal
  BY <1>3, <1>9 DEF Unplug, AttachThrows
<1>10. QED
  BY <1>2, <1>3, <1>4, <1>5, <1>6, <1>7, <1>8, <1>9 DEF Next, DaemonStep, DeviceStep, vars

\* An attach is lost only to a device that took a port of the same hub after the
\* loser's statuses began to be read: however many devices are plugged at once, one
\* nobody overtakes gets its port.
THEOREM LostOnlyToRivalTheorem == Spec => []LostOnlyToRival
<1>1. Init => FreeOrRival /\ LostOnlyToRival
  BY DEF Init, FreeOrRival, LostOnlyToRival
<1>2. PortInv /\ FreeOrRival /\ LostOnlyToRival /\ [Next]_vars => (FreeOrRival /\ LostOnlyToRival)'
  BY RivalStep
<1>3. QED
  BY <1>1, <1>2, PortInit, PortStep, PTL DEF Spec
=============================================================================
