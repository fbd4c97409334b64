--------------------------------- MODULE Vhci ---------------------------------
(***************************************************************************)
(* viu::vhci::driver: how a virtual device finds a port of the kernel's    *)
(* vhci_hcd and lets it go again.                                          *)
(*                                                                         *)
(* The daemon's thread constructs a device; with it driver::open reads the *)
(* status of all ports, one sysfs file per controller, into devices_.  The *)
(* device's own thread later attaches: it takes the first port that was    *)
(* free in devices_ and writes it to the sysfs attribute "attach", without *)
(* looking at the outcome of the write.  Unplugging joins that thread and  *)
(* closes the socket, upon which the kernel frees the port.  The kernel is *)
(* the environment.                                                        *)
(***************************************************************************)
EXTENDS Naturals, FiniteSets, FiniteSetsExt

CONSTANTS
    Devices,        \* the device objects the daemon constructs, each once
    SpeedOf,        \* the speed to_speed_enum finds for a device
    Ports,          \* the ports of all controllers
    HubOf,          \* the hub a port belongs to, as its status line says
    ControllerOf,   \* the controller a port belongs to
    Controllers,    \* number_of_controllers_
    SysfsMayFail    \* a status attribute may be missing, or not parse

NoDevice == "none"
Speeds == {"full", "high", "super", "super_plus", "unsupported"}

ASSUME DevicesAssumption == NoDevice \notin Devices /\ SpeedOf \in [Devices -> Speeds]
ASSUME ControllersAssumption == Controllers \in Nat \ {0}
ASSUME PortsAssumption ==
    /\ Ports \subseteq Nat
    /\ HubOf \in [Ports -> {"high", "super"}]
    /\ ControllerOf \in [Ports -> 0 .. Controllers - 1]
ASSUME ModeAssumption == SysfsMayFail \in BOOLEAN

VARIABLES
    owner,      \* kernel: the device attached to a port
    state,      \* where a device object is in its life
    known,      \* devices_: the ports with status VDEV_ST_NULL, per device
    daemon,     \* what the daemon's thread is doing
    terminated, \* an exception left a thread: std::terminate
    rivals      \* history: who took a port since a device began to read the statuses

vars == <<owner, state, known, daemon, terminated, rivals>>

Idle == [op |-> "idle", dev |-> NoDevice, controller |-> 0]

TypeOK ==
    /\ owner \in [Ports -> Devices \cup {NoDevice}]
    /\ state \in [Devices -> {"absent", "opening", "opened", "attached", "closed"}]
    /\ known \in [Devices -> SUBSET Ports]
    /\ daemon \in {Idle} \cup [op : {"open", "unplug"}, dev : Devices,
                               controller : 0 .. Controllers - 1]
    /\ terminated \in BOOLEAN
    /\ rivals \in [Devices -> SUBSET Devices]

HubFor(speed) == IF speed \in {"super", "super_plus"} THEN "super" ELSE "high"

-----------------------------------------------------------------------------
(* The daemon's thread. *)

\* The device object and its driver are constructed.
Open(d) ==
    /\ ~terminated
    /\ daemon = Idle
    /\ state[d] = "absent"
    /\ state' = [state EXCEPT ![d] = "opening"]
    /\ daemon' = [op |-> "open", dev |-> d, controller |-> 0]
    /\ UNCHANGED <<owner, known, terminated, rivals>>

\* The loop of refresh_status: the next controller, or the end of the constructor.
NextController ==
    LET c == daemon.controller
    IN  IF c + 1 < Controllers
        THEN daemon' = [daemon EXCEPT !.controller = c + 1] /\ UNCHANGED state
        ELSE daemon' = Idle /\ state' = [state EXCEPT ![daemon.dev] = "opened"]

\* One round of refresh_status: the status file of one controller.
RefreshStatus ==
    /\ ~terminated
    /\ daemon.op = "open"
    /\ known' = [known EXCEPT ![daemon.dev] =
                    @ \cup {p \in Ports : ControllerOf[p] = daemon.controller
                                          /\ owner[p] = NoDevice}]
    /\ NextController
    /\ UNCHANGED <<owner, terminated, rivals>>

\* parse_status returns 0 for a file it cannot parse: the ports of that
\* controller keep the status 0, which is not VDEV_ST_NULL.
StatusUnparsed ==
    /\ ~terminated
    /\ SysfsMayFail
    /\ daemon.op = "open"
    /\ NextController
    /\ UNCHANGED <<owner, known, terminated, rivals>>

\* open returns -1: the constructor asserts, which logs, and goes on with the
\* entries read so far.
RefreshFails ==
    /\ ~terminated
    /\ SysfsMayFail
    /\ daemon.op = "open"
    /\ daemon' = Idle
    /\ state' = [state EXCEPT ![daemon.dev] = "opened"]
    /\ UNCHANGED <<owner, known, terminated, rivals>>

\* The destructor of proxy asks the device thread to stop and joins it ...
Unplug(d) ==
    /\ ~terminated
    /\ daemon = Idle
    /\ state[d] \in {"opened", "attached"}
    /\ daemon' = [op |-> "unplug", dev |-> d, controller |-> 0]
    /\ UNCHANGED <<owner, state, known, terminated, rivals>>

\* Planted bug: the socket stays open.
CloseSocketForgotten ==
    /\ ~terminated
    /\ daemon.op = "unplug"
    /\ state[daemon.dev] = "attached"
    /\ daemon' = Idle
    /\ UNCHANGED <<owner, state, known, terminated, rivals>>

\* ... which ends after its attach; the destructor of basic closes the socket.
CloseSocket ==
    /\ ~terminated
    /\ daemon.op = "unplug"
    /\ state[daemon.dev] = "attached"
    /\ state' = [state EXCEPT ![daemon.dev] = "closed"]
    /\ daemon' = Idle
    /\ UNCHANGED <<owner, known, terminated, rivals>>

-----------------------------------------------------------------------------
(* The thread of a device. *)

\* Planted bugs: the status of a port, or its hub, is not looked at.
CandidatesTaken(d) == {p \in Ports : HubOf[p] = HubFor(SpeedOf[d])}
CandidatesAnyHub(d) == known[d]

Candidates(d) == {p \in known[d] : HubOf[p] = HubFor(SpeedOf[d])}

\* The devices on their way to a port, but for d.
Pending(d) == {e \in Devices \ {d} : state[e] \in {"opening", "opened"}}

\* The kernel refuses a port that is taken; nobody reads the error.
Attach(d) ==
    /\ ~terminated
    /\ state[d] = "opened"
    /\ SpeedOf[d] # "unsupported"
    /\ Candidates(d) # {}
    /\ LET p == Min(Candidates(d))
       IN  IF owner[p] = NoDevice
           THEN /\ owner' = [owner EXCEPT ![p] = d]
                /\ rivals' = [e \in Devices |->
                                IF e \in Pending(d) THEN rivals[e] \cup {d} ELSE rivals[e]]
           ELSE UNCHANGED <<owner, rivals>>
    /\ state' = [state EXCEPT ![d] = "attached"]
    /\ UNCHANGED <<known, daemon, terminated>>

\* to_speed_enum, or value() of a result without a port, throws.
AttachThrows(d) ==
    /\ ~terminated
    /\ state[d] = "opened"
    /\ SpeedOf[d] = "unsupported" \/ Candidates(d) = {}
    /\ terminated' = TRUE
    /\ UNCHANGED <<owner, state, known, daemon, rivals>>

-----------------------------------------------------------------------------
\* The kernel sees the socket closed, by the program or by its end.
KernelRelease(p) ==
    /\ owner[p] # NoDevice
    /\ state[owner[p]] = "closed" \/ terminated
    /\ owner' = [owner EXCEPT ![p] = NoDevice]
    /\ UNCHANGED <<state, known, daemon, terminated, rivals>>

Init ==
    /\ owner = [p \in Ports |-> NoDevice]
    /\ state = [d \in Devices |-> "absent"]
    /\ known = [d \in Devices |-> {}]
    /\ daemon = Idle
    /\ terminated = FALSE
    /\ rivals = [d \in Devices |-> {}]

DaemonStep == RefreshStatus \/ StatusUnparsed \/ RefreshFails \/ CloseSocket
DeviceStep(d) == Attach(d) \/ AttachThrows(d)

Next ==
    \/ \E d \in Devices : Open(d) \/ Unplug(d)
    \/ DaemonStep
    \/ \E d \in Devices : DeviceStep(d)
    \/ \E p \in Ports : KernelRelease(p)

Spec == Init /\ [][Next]_vars

\* Threads run, and the kernel frees the port of a closed socket.
FairSpec ==
    /\ Spec
    /\ WF_vars(DaemonStep)
    /\ \A d \in Devices : WF_vars(DeviceStep(d))
    /\ \A p \in Ports : WF_vars(KernelRelease(p))

-----------------------------------------------------------------------------
(* Properties. *)

\* A device whose thread is through with attach has a port, though the status
\* it chose the port by was read earlier, and controller by controller.
AttachedOwnsPort ==
    \A d \in Devices : (state[d] = "attached" /\ ~terminated) => \E p \in Ports : owner[p] = d

\* An attach is lost to a race only: a device that is through with attach and has no
\* port was overtaken, after the daemon began to read the statuses it chose by, by
\* a device that took a port of the same hub.
LostOnlyToRival ==
    \A d \in Devices :
        (state[d] = "attached" /\ ~terminated) =>
            \/ \E p \in Ports : owner[p] = d
            \/ \E e \in rivals[d] : HubFor(SpeedOf[e]) = HubFor(SpeedOf[d])

\* A device is attached at one port at most, and at one of its own hub.
PortFits ==
    \A p, q \in Ports :
        owner[p] # NoDevice =>
            /\ HubOf[p] = HubFor(SpeedOf[owner[p]])
            /\ owner[p] = owner[q] => p = q

\* Unplugging a device ends, also one that has just been plugged (the daemon's
\* thread waits for the device's thread in there), and gives its port back.
PortsReturn ==
    \A d \in Devices :
        (daemon.op = "unplug" /\ daemon.dev = d)
            ~> ((state[d] = "closed" \/ terminated) /\ \A p \in Ports : owner[p] # d)
=============================================================================
