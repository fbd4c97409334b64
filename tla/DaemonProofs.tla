----------------------------- MODULE DaemonProofs -----------------------------
(***************************************************************************)
(* Proofs about Daemon for every set of clients and of catalogs, and any   *)
(* number of devices a catalog has.                                        *)
(***************************************************************************)
EXTENDS Daemon, TLAPS

\* What the commands name.
LEMMA CommandFacts ==
    /\ \A cmd \in Commands : cmd.op \in {"mock", "plug", "proxydev", "unplug", "query", "save"}
    /\ \A cmd \in Commands : cmd.op \in {"mock", "plug"} => cmd.catalog \in Catalogs
    /\ \A cmd \in Commands : cmd.op = "proxydev" => cmd.catalog \in Catalogs \cup {NoCatalog}
    /\ NoRequest.op = "none" /\ NoRequest \notin Commands
  BY DEF Commands, NoRequest

\* A live device has an id that was given out, an id names one device, and the
\* counter is beyond every id given out.
IdsIssued ==
    /\ \A d \in virtual_devices : d.id \in issued
    /\ \A i \in issued : i < device_id_counter
    /\ \A d, e \in virtual_devices : d.id = e.id => d = e

\* What a step may do to the devices: one that appears has an id nobody had.
NewHaveNewIds == \A d \in virtual_devices' : d \in virtual_devices \/ d.id \notin issued

\* What the devices that were there, and the ones Create adds, have in common.
LEMMA CreateFacts ==
    ASSUME TypeOK, IdsIssued, NEW n \in Nat, NEW cat \in Catalogs \cup {NoCatalog},
           NEW sound \in BOOLEAN, Create(n, cat, sound)
    PROVE  /\ virtual_devices' \subseteq Device /\ device_id_counter' \in Nat
           /\ issued' \subseteq Nat
           /\ IdsIssued' /\ NewHaveNewIds
           /\ \A d \in virtual_devices' : d \in virtual_devices \/ d.catalog = cat
<1> DEFINE New(k) == [id |-> device_id_counter + k, catalog |-> cat, sound |-> sound]
<1>1. /\ virtual_devices \subseteq Device /\ device_id_counter \in Nat /\ issued \subseteq Nat
      /\ device_id_counter' = device_id_counter + n
      /\ virtual_devices' = virtual_devices \cup {New(k) : k \in 0 .. n - 1}
      /\ issued' = issued \cup {device_id_counter + k : k \in 0 .. n - 1}
  BY DEF TypeOK, Create
<1>2. \A k \in 0 .. n - 1 : /\ New(k) \in Device /\ New(k).catalog = cat
                            /\ New(k).id = device_id_counter + k
                            /\ New(k).id >= device_id_counter /\ New(k).id < device_id_counter'
  BY <1>1 DEF Device
<1>3. \A k, l \in 0 .. n - 1 : New(k).id = New(l).id => New(k) = New(l)
  BY <1>1
<1>4. \A i \in issued : i \in Nat /\ i < device_id_counter /\ i < device_id_counter'
  <2>1. TAKE i \in issued
  <2>2. i \in Nat /\ i < device_id_counter
    BY <1>1 DEF IdsIssued
  <2>3. QED
    BY <1>1, <2>2
<1>5. \A d \in virtual_devices' : d \in virtual_devices \/ \E k \in 0 .. n - 1 : d = New(k)
  BY <1>1
<1>6. \A k \in 0 .. n - 1 : New(k).id \in issued' /\ New(k).id \notin issued
  BY <1>1, <1>2, <1>4
<1>7. \A d \in virtual_devices : d.id \in issued
  BY DEF IdsIssued
<1> HIDE DEF New
<1>8. virtual_devices' \subseteq Device /\ device_id_counter' \in Nat /\ issued' \subseteq Nat
  BY <1>1, <1>2
<1>9. ASSUME NEW d \in virtual_devices', NEW e \in virtual_devices', d.id = e.id PROVE d = e
  <2>1. CASE d \in virtual_devices /\ e \in virtual_devices
    BY <2>1, <1>9 DEF IdsIssued
  <2>2. CASE d \in virtual_devices /\ \E k \in 0 .. n - 1 : e = New(k)
    BY <2>2, <1>6, <1>7, <1>9
  <2>3. CASE e \in virtual_devices /\ \E k \in 0 .. n - 1 : d = New(k)
    BY <2>3, <1>6, <1>7, <1>9
  <2>4. CASE (\E k \in 0 .. n - 1 : d = New(k)) /\ (\E k \in 0 .. n - 1 : e = New(k))
    BY <2>4, <1>3, <1>9
  <2>5. QED
    BY <2>1, <2>2, <2>3, <2>4, <1>5
<1>10. \A i \in issued' : i < device_id_counter'
  BY <1>1, <1>4
<1>11. \A d \in virtual_devices' : d.id \in issued'
  BY <1>1, <1>5, <1>6, <1>7
<1>12. NewHaveNewIds
  BY <1>5, <1>6 DEF NewHaveNewIds
<1>13. \A d \in virtual_devices' : d \in virtual_devices \/ d.catalog = cat
  BY <1>2, <1>5
<1>14. QED
  BY <1>8, <1>9, <1>10, <1>11, <1>12, <1>13 DEF IdsIssued

Inv == TypeOK /\ PluginOutlivesDevice /\ IdsIssued

\* A process that ends leaves nothing behind but the socket file.
LEMMA FailKeeps == ASSUME Inv, Fail PROVE Inv' /\ NewHaveNewIds
<1>1. client' \in [Clients -> {"idle", "connected", "sent", "killed", "answered",
                               "dropped", "gone"}]
  BY DEF Inv, TypeOK, Fail, Disconnected
<1>2. request' \in [Clients -> Commands \cup {NoRequest}]
  BY DEF Fail, NoRequests
<1>3. QED
  BY <1>1, <1>2 DEF Inv, TypeOK, Fail, PluginOutlivesDevice, IdsIssued, NewHaveNewIds

\* The end of a command keeps the types of what it changes.
LEMMA FinishKeeps ==
    ASSUME TypeOK, process = "serving", current # NoClient,
           NEW outcome \in {"answered", "dropped"}, Finish(outcome)
    PROVE  /\ process' = process /\ socket_file' = socket_file /\ current' = NoClient
           /\ hung' = hung
           /\ client' \in [Clients -> {"idle", "connected", "sent", "killed", "answered",
                                       "dropped", "gone"}]
           /\ request' \in [Clients -> Commands \cup {NoRequest}]
  BY DEF TypeOK, Finish

\* A command that creates no device and forgets no catalog.
LEMMA QuietKeeps ==
    ASSUME Inv, process = "serving", current # NoClient,
           NEW outcome \in {"answered", "dropped"}, Finish(outcome),
           UNCHANGED <<virtual_devices, device_id_counter, issued>>,
           plugins \subseteq plugins', plugins' \subseteq Catalogs
    PROVE  Inv' /\ NewHaveNewIds
<1>1. TypeOK'
  BY FinishKeeps DEF Inv, TypeOK
<1>2. PluginOutlivesDevice' /\ IdsIssued' /\ NewHaveNewIds
  BY DEF Inv, PluginOutlivesDevice, IdsIssued, NewHaveNewIds
<1>3. QED
  BY <1>1, <1>2 DEF Inv

\* A command that creates devices of a catalog that is registered by then, or of none.
LEMMA CreateKeeps ==
    ASSUME Inv, process = "serving", current # NoClient, Finish("answered"),
           NEW n \in Nat, NEW cat \in Catalogs \cup {NoCatalog}, NEW sound \in BOOLEAN,
           Create(n, cat, sound), plugins \subseteq plugins', plugins' \subseteq Catalogs,
           cat = NoCatalog \/ cat \in plugins'
    PROVE  Inv' /\ NewHaveNewIds
<1>1. /\ virtual_devices' \subseteq Device /\ device_id_counter' \in Nat
      /\ issued' \subseteq Nat /\ IdsIssued' /\ NewHaveNewIds
      /\ \A d \in virtual_devices' : d \in virtual_devices \/ d.catalog = cat
  BY CreateFacts DEF Inv
<1>2. TypeOK'
  BY <1>1, FinishKeeps DEF Inv, TypeOK
<1>3. PluginOutlivesDevice'
  BY <1>1 DEF Inv, PluginOutlivesDevice
<1>4. QED
  BY <1>1, <1>2, <1>3 DEF Inv

\* The invariant is preserved by what the daemon's thread executes.
LEMMA ExecuteKeeps == ASSUME Inv, Execute PROVE Inv' /\ NewHaveNewIds
<1>1. CASE ReadFails \/ NotAPlugin \/ PlugUnknown
  BY <1>1, FailKeeps DEF ReadFails, NotAPlugin, PlugUnknown
<1>2. plugins \subseteq Catalogs
  BY DEF Inv, TypeOK
<1>3. \A op : Executes(op) => /\ process = "serving" /\ current # NoClient /\ current \in Clients
                              /\ request[current].op = op
                              /\ request[current] \in Commands \cup {NoRequest}
  BY DEF Executes, Inv, TypeOK
<1>4. CASE LoadFails \/ Duplicate \/ AppSave \/ Query \/ Usage
  <2>1. /\ process = "serving" /\ current # NoClient
        /\ UNCHANGED <<plugins, virtual_devices, device_id_counter, issued>>
        /\ Finish("answered") \/ Finish("dropped")
    BY <1>3, <1>4 DEF LoadFails, Duplicate, AppSave, Query, Usage
  <2>2. QED
    BY <2>1, <1>2, QuietKeeps
<1>5. CASE AppMock
  <2> DEFINE cat == request[current].catalog
  <2>1. /\ process = "serving" /\ current # NoClient /\ cat \in Catalogs
        /\ plugins' = plugins \cup {cat} /\ Finish("answered")
    BY <1>3, <1>5 DEF AppMock, CanRegister
  <2>2. PICK sound \in BOOLEAN : Create(NumberOf[cat], cat, sound)
    BY <1>5 DEF AppMock
  <2>3. NumberOf[cat] \in Nat
    BY <2>1, NumberOfAssumption
  <2> HIDE DEF cat
  <2>4. QED
    BY <2>1, <2>2, <2>3, <1>2, CreateKeeps
<1>6. CASE AppPlug
  <2> DEFINE cat == request[current].catalog
  <2>1. /\ process = "serving" /\ current # NoClient /\ cat \in plugins
        /\ plugins' = plugins /\ Finish("answered")
    BY <1>3, <1>6 DEF AppPlug
  <2>2. PICK sound \in BOOLEAN : Create(1, cat, sound)
    BY <1>6 DEF AppPlug
  <2> HIDE DEF cat
  <2>3. QED
    BY <2>1, <2>2, <1>2, CreateKeeps
<1>7. CASE AppProxy
  <2> DEFINE cat == request[current].catalog
  <2>1. /\ process = "serving" /\ current # NoClient
        /\ \/ cat = NoCatalog /\ plugins' = plugins
           \/ cat \in Catalogs /\ plugins' = plugins \cup {cat}
    <3>1. Executes("proxydev")
      BY <1>7 DEF AppProxy
    <3>2. \/ cat = NoCatalog /\ plugins' = plugins
          \/ cat \in Catalogs /\ plugins' = plugins \cup {cat}
      BY <1>7 DEF AppProxy, CanRegister
    <3>3. QED
      BY <3>1, <3>2, <1>3
  <2>2. CASE Finish("dropped") /\ UNCHANGED <<virtual_devices, device_id_counter, issued>>
    BY <2>1, <2>2, <1>2, QuietKeeps
  <2>3. ASSUME NEW sound \in BOOLEAN, Create(1, cat, sound), Finish("answered")
        PROVE Inv' /\ NewHaveNewIds
    <3> HIDE DEF cat
    <3>1. QED
      BY <2>1, <2>3, <1>2, CreateKeeps
  <2>4. QED
    BY <2>2, <2>3, <1>7 DEF AppProxy
<1>8. CASE AppUnplug
  <2>1. /\ process = "serving" /\ current # NoClient /\ Finish("answered")
        /\ virtual_devices' \subseteq virtual_devices
        /\ UNCHANGED <<plugins, device_id_counter, issued>>
    BY <1>3, <1>8 DEF AppUnplug
  <2>2. TypeOK'
    BY <2>1, FinishKeeps DEF Inv, TypeOK
  <2>3. PluginOutlivesDevice' /\ IdsIssued' /\ NewHaveNewIds
    BY <2>1 DEF Inv, PluginOutlivesDevice, IdsIssued, NewHaveNewIds
  <2>4. QED
    BY <2>2, <2>3 DEF Inv
<1>9. QED
  BY <1>1, <1>4, <1>5, <1>6, <1>7, <1>8 DEF Execute

\* The invariant is inductive.
LEMMA InvStep == ASSUME Inv, [Next]_vars PROVE Inv' /\ NewHaveNewIds
<1> USE DEF Inv
<1>1. CASE Start \/ Restart \/ Main
  BY <1>1 DEF Start, Restart, Main, TypeOK, PluginOutlivesDevice, IdsIssued, NewHaveNewIds
<1>2. CASE Signal
  <2>1. /\ client' \in [Clients -> {"idle", "connected", "sent", "killed", "answered",
                                    "dropped", "gone"}]
        /\ request' \in [Clients -> Commands \cup {NoRequest}]
    BY <1>2 DEF Signal, Disconnected, NoRequests, TypeOK
  <2>2. QED
    BY <1>2, <2>1 DEF Signal, TypeOK, PluginOutlivesDevice, IdsIssued, NewHaveNewIds
<1>3. CASE DestroyDevices
  BY <1>3 DEF DestroyDevices, TypeOK, PluginOutlivesDevice, IdsIssued, NewHaveNewIds
<1>4. CASE DestroyPlugins
  BY <1>4 DEF DestroyPlugins, TypeOK, PluginOutlivesDevice, IdsIssued, NewHaveNewIds
<1>5. ASSUME NEW c \in Clients, Connect(c) \/ Send(c) \/ Kill(c)
      PROVE Inv' /\ NewHaveNewIds
  BY <1>5 DEF Connect, Send, Kill, TypeOK, PluginOutlivesDevice, IdsIssued, NewHaveNewIds
<1>6. ASSUME NEW c \in Clients, Accept(c) PROVE Inv' /\ NewHaveNewIds
  BY <1>6 DEF Accept, TypeOK, PluginOutlivesDevice, IdsIssued, NewHaveNewIds
<1>7. CASE Execute
  BY <1>7, ExecuteKeeps
<1>8. CASE DeviceTerminates \/ DestructorFails
  BY <1>8, FailKeeps DEF DeviceTerminates, DestructorFails
<1>9. CASE DestructorHangs
  BY <1>9 DEF DestructorHangs, TypeOK, PluginOutlivesDevice, IdsIssued, NewHaveNewIds
<1>10. CASE UNCHANGED vars
  BY <1>10 DEF vars, TypeOK, PluginOutlivesDevice, IdsIssued, NewHaveNewIds
<1>11. QED
  BY <1>1, <1>2, <1>3, <1>4, <1>5, <1>6, <1>7, <1>8, <1>9, <1>10 DEF Next, Serve

LEMMA InvInit == ASSUME Init PROVE Inv
  BY DEF Init, Inv, TypeOK, PluginOutlivesDevice, IdsIssued, NoRequests

\* The library of a device's plugin is loaded as long as the device lives,
\* whatever commands, failures and shutdowns come in between.
THEOREM PluginOutlivesDeviceTheorem == Spec => []PluginOutlivesDevice
<1>1. Inv => PluginOutlivesDevice
  BY DEF Inv
<1>2. QED
  BY <1>1, InvInit, InvStep, PTL DEF Spec

\* A device that appears gets an id that no device of this process ever had, be it
\* unplugged since, and no two devices share one.
THEOREM IdsAreFreshTheorem == Spec => IdsAreFresh
<1> DEFINE Fresh == /\ NewHaveNewIds
                    /\ \A d, e \in virtual_devices' : d.id = e.id => d = e
<1>1. Inv /\ [Next]_vars => Inv' /\ [Fresh]_vars
  <2>1. Inv' => \A d, e \in virtual_devices' : d.id = e.id => d = e
    BY DEF Inv, IdsIssued
  <2>2. QED
    BY <2>1, InvStep
<1>2. [Fresh]_vars <=> [/\ \A d \in virtual_devices' : d \in virtual_devices \/ d.id \notin issued
                        /\ \A d, e \in virtual_devices' : d.id = e.id => d = e]_vars
  BY DEF NewHaveNewIds
<1> HIDE DEF Fresh
<1>3. QED
  BY <1>1, <1>2, InvInit, PTL DEF Spec, IdsAreFresh
=============================================================================
