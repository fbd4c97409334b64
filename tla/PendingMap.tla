------------------------------ MODULE PendingMap ------------------------------
(***************************************************************************)
(* usb::transfer::pending_map and the life of a transfer around it: the    *)
(* executor attaches and submits transfers, the completing thread (the     *)
(* libusb event thread of a proxied device, the thread of the plugin of a  *)
(* mock) erases them and runs their callbacks, and the device thread of    *)
(* viu::device::proxy cancels what is left when the device is unplugged.   *)
(*                                                                         *)
(* A step is one critical section of mutex_, or one call outside it.       *)
(* Assertions only log, as in a build without VIU_ASSERT_ABORT: the set    *)
(* asserts names the ones that failed.  Where the code goes on with        *)
(* undefined behaviour the process has crashed.                            *)
(***************************************************************************)
EXTENDS Naturals, FiniteSets

CONSTANTS
    Transfers,      \* the libusb_transfer objects, each allocated once
    NoTransfer,
    Mocks,          \* {TRUE}: mock devices (no libusb handle), {FALSE}: proxied ones
    SubmitMayFail   \* libusb_submit_transfer may return an error

ASSUME NoTransferAssumption == NoTransfer \notin Transfers
ASSUME ModeAssumption == Mocks \subseteq BOOLEAN /\ SubmitMayFail \in BOOLEAN

VARIABLES
    mock,           \* is_mock(): the device has no libusb handle
    pending,        \* the keys of pending_transfers_
    canceled,       \* transfers_canceled_
    exec,           \* the executor inside submit_transfer_impl
    handle,         \* where libusb has a transfer
    plugin,         \* transfers the plugin of a mock holds
    event,          \* the completing thread inside on_transfer_completed
    device,         \* the device thread, from the stop request on
    freed,          \* how often a transfer was freed
    called,         \* how often its callback ran
    asserts,        \* assertions that failed
    crashed

vars == <<mock, pending, canceled, exec, handle, plugin, event, device, freed,
          called, asserts, crashed>>

Assertions == {"cancelled transfer is pending", "completed transfer is pending",
               "new transfer", "unsubmitted transfer is pending", "submitted"}

TypeOK ==
    /\ mock \in Mocks
    /\ pending \subseteq Transfers
    /\ canceled \in BOOLEAN
    /\ exec \in [pc : {"idle", "request", "check", "submit"},
                 xfer : Transfers \cup {NoTransfer}]
    /\ exec.pc # "idle" => exec.xfer \in Transfers
    /\ handle \in [Transfers -> {"new", "idle", "inflight", "cancelling", "done"}]
    /\ plugin \subseteq Transfers
    /\ event \in [pc : {"wait", "erase", "callback"},
                  xfer : Transfers \cup {NoTransfer},
                  status : {"completed", "cancelled"}]
    /\ event.pc # "wait" => event.xfer \in Transfers
    /\ device \in {"running", "waiting", "clearing", "stopping", "destroyed"}
    /\ freed \in [Transfers -> Nat]
    /\ called \in [Transfers -> Nat]
    /\ asserts \subseteq Assertions
    /\ crashed \in BOOLEAN

\* Nothing is said of what threads do after the device object is gone.
Alive == ~crashed /\ device # "destroyed"

\* give_away_transfer: the buffer and the transfer are freed.
GiveAway(T) == freed' = [t \in Transfers |-> IF t \in T THEN freed[t] + 1 ELSE freed[t]]

\* viu::_assert: log and go on.
Check(cond, name) == asserts' = IF cond THEN asserts ELSE asserts \cup {name}

-----------------------------------------------------------------------------
(* The executor: submit_transfer_impl. *)

ExecIdle == [pc |-> "idle", xfer |-> NoTransfer]

Attach(t) ==
    /\ Alive
    /\ exec.pc = "idle"
    /\ handle[t] = "new"
    /\ handle' = [handle EXCEPT ![t] = "idle"]
    /\ pending' = pending \cup {t}
    /\ Check(t \notin pending, "new transfer")
    /\ exec' = [pc |-> "request", xfer |-> t]
    /\ UNCHANGED <<mock, canceled, plugin, event, device, freed, called, crashed>>

\* on_transfer_request: the plugin of a mock keeps the transfer, the plugin
\* of a proxied device only looks at it; a mock is never submitted.
Request ==
    /\ Alive
    /\ exec.pc = "request"
    /\ IF mock THEN plugin' = plugin \cup {exec.xfer} /\ exec' = ExecIdle
               ELSE exec' = [exec EXCEPT !.pc = "check"] /\ UNCHANGED plugin
    /\ UNCHANGED <<mock, pending, canceled, handle, event, device, freed, called,
                   asserts, crashed>>

\* Planted bug: a refused transfer is taken out of the map and not freed.
SubmitRefusedLeaks ==
    /\ Alive
    /\ exec.pc = "check"
    /\ canceled
    /\ pending' = pending \ {exec.xfer}
    /\ handle' = [handle EXCEPT ![exec.xfer] = "done"]
    /\ exec' = ExecIdle
    /\ UNCHANGED <<mock, canceled, plugin, event, device, freed, called, asserts, crashed>>

SubmitRefused ==
    /\ Alive
    /\ exec.pc = "check"
    /\ canceled
    /\ pending' = pending \ {exec.xfer}
    /\ Check(exec.xfer \in pending, "unsubmitted transfer is pending")
    /\ GiveAway({exec.xfer})
    /\ handle' = [handle EXCEPT ![exec.xfer] = "done"]
    /\ exec' = ExecIdle
    /\ UNCHANGED <<mock, canceled, plugin, event, device, called, crashed>>

SubmitAllowed ==
    /\ Alive
    /\ exec.pc = "check"
    /\ ~canceled
    /\ exec' = [exec EXCEPT !.pc = "submit"]
    /\ UNCHANGED <<mock, pending, canceled, handle, plugin, event, device, freed,
                   called, asserts, crashed>>

\* libusb_submit_transfer runs with mutex_ released.
LibusbSubmit(ok) ==
    /\ Alive
    /\ exec.pc = "submit"
    /\ ok \/ SubmitMayFail
    /\ handle' = [handle EXCEPT ![exec.xfer] = IF ok THEN "inflight" ELSE "idle"]
    /\ Check(ok, "submitted")
    /\ exec' = ExecIdle
    /\ UNCHANGED <<mock, pending, canceled, plugin, event, device, freed, called, crashed>>

-----------------------------------------------------------------------------
(* The completing thread. *)

Waiting == [pc |-> "wait", xfer |-> NoTransfer, status |-> "completed"]

\* libusb reports a transfer: completed by the device, or cancelled.
LibusbDone(t, status) ==
    /\ Alive
    /\ event.pc = "wait"
    /\ handle[t] \in {"inflight", "cancelling"}
    /\ status = "cancelled" => handle[t] = "cancelling"
    /\ handle' = [handle EXCEPT ![t] = "done"]
    /\ event' = [pc |-> "erase", xfer |-> t, status |-> status]
    /\ UNCHANGED <<mock, pending, canceled, exec, plugin, device, freed, called,
                   asserts, crashed>>

\* control::complete by the plugin, which knows nothing of cancel(): to touch
\* a transfer that was freed in the meantime is undefined behaviour.
PluginComplete(t) ==
    /\ Alive
    /\ event.pc = "wait"
    /\ t \in plugin
    /\ plugin' = plugin \ {t}
    /\ handle' = [handle EXCEPT ![t] = "done"]
    /\ event' = [pc |-> "erase", xfer |-> t, status |-> "completed"]
    /\ UNCHANGED <<mock, pending, canceled, exec, device, freed, called, asserts, crashed>>

\* on_transfer_completed_impl.  The transfer is freed after the unlock, which
\* only this thread can notice: it is joined before the device goes away.
EraseCancelled ==
    /\ Alive
    /\ event.pc = "erase"
    /\ event.status = "cancelled"
    /\ pending' = pending \ {event.xfer}
    /\ Check(event.xfer \in pending, "cancelled transfer is pending")
    /\ GiveAway({event.xfer})
    /\ event' = Waiting
    /\ UNCHANGED <<mock, canceled, exec, handle, plugin, device, called, crashed>>

\* Planted bug: the transfer is freed before its callback is called with it.
EraseCompletedFrees ==
    /\ Alive
    /\ event.pc = "erase"
    /\ event.status = "completed"
    /\ pending' = pending \ {event.xfer}
    /\ GiveAway({event.xfer})
    /\ event' = [event EXCEPT !.pc = "callback"]
    /\ UNCHANGED <<mock, canceled, exec, handle, plugin, device, called, asserts, crashed>>

\* Planted bug: a completed transfer is erased and its callback forgotten.
EraseCompletedSilent ==
    /\ Alive
    /\ event.pc = "erase"
    /\ event.status = "completed"
    /\ pending' = pending \ {event.xfer}
    /\ GiveAway({event.xfer})
    /\ event' = Waiting
    /\ UNCHANGED <<mock, canceled, exec, handle, plugin, device, called, asserts, crashed>>

\* With the entry missing the code reads through end().
EraseCompleted ==
    /\ Alive
    /\ event.pc = "erase"
    /\ event.status = "completed"
    /\ pending' = pending \ {event.xfer}
    /\ Check(event.xfer \in pending, "completed transfer is pending")
    /\ crashed' = (event.xfer \notin pending)
    /\ event' = [event EXCEPT !.pc = "callback"]
    /\ UNCHANGED <<mock, canceled, exec, handle, plugin, device, freed, called>>

\* The callback runs unlocked; the transfer is freed when it returns.
Callback ==
    /\ Alive
    /\ event.pc = "callback"
    /\ called' = [called EXCEPT ![event.xfer] = @ + 1]
    /\ GiveAway({event.xfer})
    /\ event' = Waiting
    /\ UNCHANGED <<mock, pending, canceled, exec, handle, plugin, device, asserts, crashed>>

-----------------------------------------------------------------------------
(* The device thread, once unplugging has asked it to stop. *)

\* Planted bug: cancel() frees what is pending and leaves it in the map.
CancelFrees ==
    /\ Alive
    /\ device = "running"
    /\ handle' = [t \in Transfers |->
                    IF t \in pending /\ handle[t] = "inflight"
                    THEN "cancelling" ELSE handle[t]]
    /\ GiveAway(pending)
    /\ canceled' = TRUE
    /\ device' = "waiting"
    /\ UNCHANGED <<mock, pending, exec, plugin, event, called, asserts, crashed>>

\* libusb_cancel_transfer changes nothing for a transfer not yet in flight.
Cancel ==
    /\ Alive
    /\ device = "running"
    /\ IF mock
       THEN /\ pending' = {}
            /\ GiveAway(pending)
            /\ UNCHANGED handle
       ELSE /\ handle' = [t \in Transfers |->
                            IF t \in pending /\ handle[t] = "inflight"
                            THEN "cancelling" ELSE handle[t]]
            /\ UNCHANGED <<pending, freed>>
    /\ canceled' = TRUE
    /\ device' = "waiting"
    /\ UNCHANGED <<mock, exec, plugin, event, called, asserts, crashed>>

\* Planted bug: the wait returns whether or not the map is empty.
WaitForCanceledEarly ==
    /\ Alive
    /\ device = "waiting"
    /\ device' = "clearing"
    /\ UNCHANGED <<mock, pending, canceled, exec, handle, plugin, event, freed, called,
                   asserts, crashed>>

WaitForCanceled ==
    /\ Alive
    /\ device = "waiting"
    /\ pending = {}
    /\ device' = "clearing"
    /\ UNCHANGED <<mock, pending, canceled, exec, handle, plugin, event, freed, called,
                   asserts, crashed>>

Clear ==
    /\ Alive
    /\ device = "clearing"
    /\ pending' = {}
    /\ device' = "stopping"
    /\ UNCHANGED <<mock, canceled, exec, handle, plugin, event, freed, called, asserts,
                   crashed>>

\* The event thread is joined.  The device then destroys the plugin of a
\* mock, and the plugins of the repository join their thread as they go.
JoinAndDestroy ==
    /\ Alive
    /\ device = "stopping"
    /\ event.pc = "wait"
    /\ device' = "destroyed"
    /\ UNCHANGED <<mock, pending, canceled, exec, handle, plugin, event, freed, called,
                   asserts, crashed>>

-----------------------------------------------------------------------------
Init ==
    /\ mock \in Mocks
    /\ pending = {}
    /\ canceled = FALSE
    /\ exec = ExecIdle
    /\ handle = [t \in Transfers |-> "new"]
    /\ plugin = {}
    /\ event = Waiting
    /\ device = "running"
    /\ freed = [t \in Transfers |-> 0]
    /\ called = [t \in Transfers |-> 0]
    /\ asserts = {}
    /\ crashed = FALSE

ExecutorStep ==
    Request \/ SubmitRefused \/ SubmitAllowed \/ (\E ok \in BOOLEAN : LibusbSubmit(ok))
DeviceStep == WaitForCanceled \/ Clear \/ JoinAndDestroy

Next ==
    \/ \E t \in Transfers : Attach(t)
    \/ ExecutorStep
    \/ \E t \in Transfers, status \in {"completed", "cancelled"} : LibusbDone(t, status)
    \/ \E t \in Transfers : PluginComplete(t)
    \/ EraseCancelled \/ EraseCompleted \/ Callback
    \/ Cancel
    \/ DeviceStep

Spec == Init /\ [][Next]_vars

-----------------------------------------------------------------------------
(* Properties. *)

\* A transfer is freed once, whoever gets to it: the completing thread, a
\* submit refused because of a cancel, or the cancel of a mock.
FreedOnce == \A t \in Transfers : freed[t] <= 1

\* Memory libusb still writes to is never freed.
NotFreedInFlight ==
    \A t \in Transfers : handle[t] \in {"inflight", "cancelling"} => freed[t] = 0

\* cancel() promises that libusb has nothing left when it returns, although
\* submit checks the flag and submits in two steps: otherwise the event
\* thread would be stopped with transfers outstanding.
CancelQuiesces ==
    device \in {"stopping", "destroyed"} =>
        \A t \in Transfers : handle[t] \notin {"inflight", "cancelling"}

\* Nothing is leaked: when a proxied device goes away every transfer has been
\* freed but the one the executor has in hand.  A mock does not look at
\* transfers_canceled_ and may lose one attached while cancel() clears the map.
NothingLeaked ==
    device = "destroyed" /\ ~mock =>
        \A t \in Transfers \ {exec.xfer} : handle[t] # "new" => freed[t] = 1

\* The completing thread of a proxied device always finds the entry of the
\* transfer it was called for, be it completed or cancelled, whatever cancel()
\* and clear() empty meanwhile: without one it would read through end(), which
\* the plugin of a mock can bring it to.
ProxiedFindsEntry ==
    ~mock => /\ ~crashed
             /\ asserts \cap {"completed transfer is pending",
                             "cancelled transfer is pending"} = {}

\* transfer_impl.cpp asserts that a completed transfer finds its entry.
CompletedIsPending == "completed transfer is pending" \notin asserts
=============================================================================
