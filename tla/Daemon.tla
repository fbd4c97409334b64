-------------------------------- MODULE Daemon --------------------------------
(***************************************************************************)
(* viu::daemon::service: the process that owns the plugin catalogs and the *)
(* virtual devices, and serves one command per client connection on a      *)
(* single thread; and how systemd, main and the socket file decide whether *)
(* it runs.                                                                *)
(*                                                                         *)
(* Assertions only log, as in a build without VIU_ASSERT_ABORT.  Where the *)
(* code goes on with undefined behaviour (a null entry point, the value of *)
(* an error), or an exception leaves a thread, the process has failed.     *)
(* What a device does once it is plugged is the other modules' business;   *)
(* what matters here is that its destructor, which the daemon's thread     *)
(* runs, may throw or never return (Unplug: UnplugEnds and what it leaves  *)
(* out).                                                                   *)
(***************************************************************************)
EXTENDS Naturals, FiniteSets

CONSTANTS
    Clients,        \* client processes, each sends one command
    NoClient,
    Catalogs,       \* paths given as catalogs
    NoCatalog,
    NumberOf        \* number_of_devices of a catalog; 0: not a plugin at all

ASSUME NoClientAssumption == NoClient \notin Clients /\ NoCatalog \notin Catalogs
ASSUME NumberOfAssumption == NumberOf \in [Catalogs -> Nat]

VARIABLES
    process,            \* the daemon's process, as systemd sees it
    socket_file,        \* the socket's path exists
    plugins,            \* plugins_: registered catalogs, their libraries loaded
    virtual_devices,    \* virtual_devices_
    device_id_counter,  \* device_id_counter_
    current,            \* the client handle_accept is serving
    client,             \* where a client is
    request,            \* the command a client has sent
    hung,               \* the daemon's thread is in a destructor for good
    issued              \* history: the ids this process has given to devices

vars == <<process, socket_file, plugins, virtual_devices, device_id_counter,
          current, client, request, hung, issued>>

\* Bound: the ids a client asks to unplug.
Ids == 0 .. Cardinality(Clients)

Commands ==
    [op : {"mock", "plug"}, catalog : Catalogs]
        \cup [op : {"proxydev"}, catalog : Catalogs \cup {NoCatalog}]
        \cup [op : {"unplug"}, id : Ids]
        \cup [op : {"query", "save"}]

NoRequest == [op |-> "none"]
NoRequests == [c \in Clients |-> NoRequest]

\* sound: the device's thread will be able to attach it (the device is there,
\* its USB version is supported and there is a port for it).
Device == [id : Nat, catalog : Catalogs \cup {NoCatalog}, sound : BOOLEAN]

TypeOK ==
    /\ process \in {"off", "starting", "serving", "stopping", "failed"}
    /\ socket_file \in BOOLEAN
    /\ plugins \subseteq Catalogs
    /\ virtual_devices \subseteq Device
    /\ device_id_counter \in Nat
    /\ current \in Clients \cup {NoClient}
    /\ current # NoClient => process = "serving"
    /\ client \in [Clients -> {"idle", "connected", "sent", "killed", "answered",
                               "dropped", "gone"}]
    /\ request \in [Clients -> Commands \cup {NoRequest}]
    /\ hung \in BOOLEAN
    /\ issued \subseteq Nat

-----------------------------------------------------------------------------
(* systemd and main. *)

Start ==
    /\ process = "off"
    /\ process' = "starting"
    /\ UNCHANGED <<socket_file, plugins, virtual_devices, device_id_counter,
                   current, client, request, hung, issued>>

\* Restart=on-failure
Restart ==
    /\ process = "failed"
    /\ process' = "starting"
    /\ UNCHANGED <<socket_file, plugins, virtual_devices, device_id_counter,
                   current, client, request, hung, issued>>

\* is_service_start: without a socket file the process becomes the daemon;
\* with one it takes a daemon for running, becomes a client with no command,
\* finds nobody listening and exits with 1.
Main ==
    /\ process = "starting"
    /\ IF socket_file THEN process' = "failed" /\ UNCHANGED socket_file
                      ELSE process' = "serving" /\ socket_file' = TRUE
    /\ UNCHANGED <<plugins, virtual_devices, device_id_counter, current, client,
                   request, hung, issued>>

\* The connections the process had are closed with it.
Disconnected ==
    [c \in Clients |-> CASE client[c] \in {"connected", "sent"} -> "dropped"
                         [] client[c] = "killed" -> "gone"
                         [] OTHER -> client[c]]

\* The process ends without a word: the socket file stays.
Fail ==
    /\ process' = "failed"
    /\ plugins' = {}
    /\ virtual_devices' = {}
    /\ device_id_counter' = 0
    /\ current' = NoClient
    /\ client' = Disconnected
    /\ request' = NoRequests
    /\ hung' = FALSE
    /\ issued' = {}
    /\ UNCHANGED socket_file

\* SIGTERM or SIGINT, taken between two commands: the file is removed, the
\* acceptor closed, and run returns.
Signal ==
    /\ process = "serving"
    /\ current = NoClient
    /\ process' = "stopping"
    /\ socket_file' = FALSE
    /\ client' = Disconnected
    /\ request' = NoRequests
    /\ UNCHANGED <<plugins, virtual_devices, device_id_counter, current, hung, issued>>

\* The destructor of service: members in reverse order of declaration, the
\* devices before the libraries their code is in.
DestroyDevices ==
    /\ process = "stopping" /\ ~hung
    /\ virtual_devices # {}
    /\ virtual_devices' = {}
    /\ UNCHANGED <<process, socket_file, plugins, device_id_counter, current,
                   client, request, hung, issued>>

\* Planted bug: the libraries are unloaded first.
DestroyPluginsFirst ==
    /\ process = "stopping"
    /\ process' = "off"
    /\ plugins' = {}
    /\ device_id_counter' = 0
    /\ issued' = {}
    /\ UNCHANGED <<socket_file, virtual_devices, current, client, request, hung>>

DestroyPlugins ==
    /\ process = "stopping"
    /\ virtual_devices = {}
    /\ process' = "off"
    /\ plugins' = {}
    /\ device_id_counter' = 0
    /\ issued' = {}
    /\ UNCHANGED <<socket_file, virtual_devices, current, client, request, hung>>

-----------------------------------------------------------------------------
(* A client: connect, send the command, wait for the response. *)

\* With no daemon behind the socket file the client reports the failure.
Connect(c) ==
    /\ client[c] = "idle"
    /\ client' = [client EXCEPT ![c] = IF process = "serving" THEN "connected" ELSE "dropped"]
    /\ UNCHANGED <<process, socket_file, plugins, virtual_devices,
                   device_id_counter, current, request, hung, issued>>

Send(c) ==
    /\ client[c] = "connected"
    /\ \E cmd \in Commands : request' = [request EXCEPT ![c] = cmd]
    /\ client' = [client EXCEPT ![c] = "sent"]
    /\ UNCHANGED <<process, socket_file, plugins, virtual_devices,
                   device_id_counter, current, hung, issued>>

\* The client goes away before its command is complete, or before it has read
\* the response.
Kill(c) ==
    /\ client[c] \in {"connected", "sent"}
    /\ client' = [client EXCEPT ![c] = "killed"]
    /\ UNCHANGED <<process, socket_file, plugins, virtual_devices,
                   device_id_counter, current, request, hung, issued>>

-----------------------------------------------------------------------------
(* The daemon's thread: handle_accept. *)

Accept(c) ==
    /\ process = "serving"
    /\ current = NoClient
    /\ client[c] \in {"connected", "sent", "killed"}
    /\ current' = c
    /\ UNCHANGED <<process, socket_file, plugins, virtual_devices,
                   device_id_counter, client, request, hung, issued>>

\* The reads are outside the try block.
ReadFails ==
    /\ process = "serving"
    /\ current # NoClient
    /\ client[current] = "killed"
    /\ request[current] = NoRequest
    /\ Fail

Executes(op) ==
    /\ process = "serving" /\ ~hung
    /\ current # NoClient
    /\ request[current].op = op

\* Planted bug: the next accept is not started.
FinishForGood(outcome) ==
    /\ client' = [client EXCEPT ![current] = IF @ = "killed" THEN "gone" ELSE outcome]
    /\ request' = [request EXCEPT ![current] = NoRequest]
    /\ UNCHANGED <<process, socket_file, current, hung>>

\* The response is written, or the exception logged; the next client may come.
Finish(outcome) ==
    /\ client' = [client EXCEPT ![current] = IF @ = "killed" THEN "gone" ELSE outcome]
    /\ request' = [request EXCEPT ![current] = NoRequest]
    /\ current' = NoClient
    /\ UNCHANGED <<process, socket_file, hung>>

\* Planted bug: a device is numbered by how many there are.
CreateBySize(n, cat, sound) ==
    /\ virtual_devices' = virtual_devices \cup
           {[id |-> Cardinality(virtual_devices) + k, catalog |-> cat, sound |-> sound] :
                k \in 0 .. n - 1}
    /\ device_id_counter' = device_id_counter + n
    /\ issued' = issued \cup {Cardinality(virtual_devices) + k : k \in 0 .. n - 1}

\* Successive numbers for n devices of one catalog.
Create(n, cat, sound) ==
    /\ virtual_devices' = virtual_devices \cup
           {[id |-> device_id_counter + k, catalog |-> cat, sound |-> sound] : k \in 0 .. n - 1}
    /\ device_id_counter' = device_id_counter + n
    /\ issued' = issued \cup {device_id_counter + k : k \in 0 .. n - 1}

\* The configuration cannot be loaded: an exception, logged and never answered.
LoadFails ==
    /\ Executes("mock") \/ Executes("plug")
    /\ Finish("dropped")
    /\ UNCHANGED <<plugins, virtual_devices, device_id_counter, issued>>

\* register_catalog
Duplicate ==
    /\ Executes("mock") \/ Executes("proxydev")
    /\ request[current].catalog \in plugins
    /\ Finish("answered")
    /\ UNCHANGED <<plugins, virtual_devices, device_id_counter, issued>>

\* The entry point of what is not a plugin is called through a null pointer.
NotAPlugin ==
    /\ Executes("mock") \/ Executes("proxydev")
    /\ request[current].catalog \in {c \in Catalogs : NumberOf[c] = 0}
    /\ Fail

CanRegister(cat) == cat \in Catalogs \ plugins /\ NumberOf[cat] > 0

AppMock ==
    LET cat == request[current].catalog
    IN  /\ Executes("mock")
        /\ CanRegister(cat)
        /\ plugins' = plugins \cup {cat}
        /\ \E sound \in BOOLEAN : Create(NumberOf[cat], cat, sound)
        /\ Finish("answered")

AppPlug ==
    LET cat == request[current].catalog
    IN  /\ Executes("plug")
        /\ cat \in plugins
        /\ \E sound \in BOOLEAN : Create(1, cat, sound)
        /\ Finish("answered")
        /\ UNCHANGED plugins

\* A catalog that is not registered or a name it does not have: the value of
\* the error is used all the same.
PlugUnknown ==
    /\ Executes("plug")
    /\ Fail

\* The catalog stays registered when libusb fails to open the device; a device
\* that is not there is created without a handle.
AppProxy ==
    LET cat == request[current].catalog
    IN  /\ Executes("proxydev")
        /\ IF cat = NoCatalog THEN UNCHANGED plugins
                              ELSE CanRegister(cat) /\ plugins' = plugins \cup {cat}
        /\ \/ /\ \E sound \in BOOLEAN : Create(1, cat, sound)
              /\ Finish("answered")
           \/ /\ Finish("dropped")
              /\ UNCHANGED <<virtual_devices, device_id_counter, issued>>

\* The destructor of the device runs in here, and returns.
AppUnplug ==
    /\ Executes("unplug")
    /\ virtual_devices' = {d \in virtual_devices : d.id # request[current].id}
    /\ Finish("answered")
    /\ UNCHANGED <<plugins, device_id_counter, issued>>

\* save, save-hid-report: a device is opened and plugged for the time of the
\* command, which fails like any other.
AppSave ==
    /\ Executes("save")
    /\ \E outcome \in {"answered", "dropped"} : Finish(outcome)
    /\ UNCHANGED <<plugins, virtual_devices, device_id_counter, issued>>

\* The daemon's thread is in the destructor of a device.
Destroying ==
    \/ Executes("unplug") /\ \E d \in virtual_devices : d.id = request[current].id
    \/ Executes("save")
    \/ process = "stopping" /\ ~hung /\ virtual_devices # {}

\* The destructor waits for a transfer that will never call back (it slipped
\* past cancel or its submit was refused) or for a silent device.  Nobody is
\* accepted and no signal taken any more.
DestructorHangs ==
    /\ Destroying
    /\ hung' = TRUE
    /\ UNCHANGED <<process, socket_file, plugins, virtual_devices, device_id_counter,
                   current, client, request, issued>>

\* A thread of a device that is going throws.
DestructorFails == Destroying /\ Fail

\* list, list-catalogs, version, and an unknown subcommand.
Query ==
    /\ Executes("query")
    /\ Finish("answered")
    /\ UNCHANGED <<plugins, virtual_devices, device_id_counter, issued>>

\* --help, or a parameter that is missing.
Usage ==
    /\ \E op \in {"mock", "plug", "proxydev", "unplug", "save"} : Executes(op)
    /\ Finish("answered")
    /\ UNCHANGED <<plugins, virtual_devices, device_id_counter, issued>>

\* The thread of a device that cannot be attached throws.
DeviceTerminates ==
    /\ process \in {"serving", "stopping"}
    /\ \E d \in virtual_devices : ~d.sound
    /\ Fail

-----------------------------------------------------------------------------
Init ==
    /\ process = "off"
    /\ socket_file = FALSE
    /\ plugins = {}
    /\ virtual_devices = {}
    /\ device_id_counter = 0
    /\ current = NoClient
    /\ client = [c \in Clients |-> "idle"]
    /\ request = NoRequests
    /\ hung = FALSE
    /\ issued = {}

Execute ==
    \/ ReadFails \/ LoadFails \/ Duplicate \/ NotAPlugin \/ AppMock \/ AppPlug
    \/ PlugUnknown \/ AppProxy \/ AppUnplug \/ AppSave \/ Query \/ Usage

Serve == Execute \/ \E c \in Clients : Accept(c)

Next ==
    \/ Start \/ Restart \/ Main \/ Signal \/ DestroyDevices \/ DestroyPlugins
    \/ \E c \in Clients : Connect(c) \/ Send(c) \/ Kill(c)
    \/ Serve
    \/ DestructorHangs \/ DestructorFails \/ DeviceTerminates

Spec == Init /\ [][Next]_vars

\* systemd restarts what failed, the daemon's thread runs, and a client that has connected
\* sends its command or goes away.
FairSpec ==
    /\ Spec
    /\ WF_vars(Restart) /\ WF_vars(Main)
    /\ WF_vars(DestroyDevices \/ DestroyPlugins)
    /\ WF_vars(Serve)
    /\ \A c \in Clients : WF_vars(Send(c) \/ Kill(c))

-----------------------------------------------------------------------------
(* Properties. *)

\* The library of a device's plugin is loaded as long as the device lives, in
\* the shutdown too: the device's threads run its code.
PluginOutlivesDevice ==
    \A d \in virtual_devices : d.catalog # NoCatalog => d.catalog \in plugins

\* device_id_counter_ never hands an id out twice: a device that appears has one
\* no device of this process ever had, unplugged ones included, and its own.  An
\* unplug that comes late never hits another device than the one it was for.
IdsAreFresh ==
    [][/\ \A d \in virtual_devices' : d \in virtual_devices \/ d.id \notin issued
       /\ \A d, e \in virtual_devices' : d.id = e.id => d = e]_vars

\* A client that has connected is served or told off, whoever else connects and
\* whatever fails, unless the daemon's only thread stays in the destructor of a
\* device: then the client may wait for ever.
CommandsEnd ==
    \A c \in Clients :
        (client[c] = "connected") ~> (client[c] \in {"answered", "dropped", "gone"} \/ hung)

\* viud.service asks systemd to restart the daemon when it fails.
Recovers == (process = "failed") ~> (process = "serving")
=============================================================================
