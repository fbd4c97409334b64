--------------------------- MODULE ControlRequests ---------------------------
(***************************************************************************)
(* The configuration of a proxied device: usb::device opens it and claims  *)
(* its interfaces, the executor of viu::device::proxy carries out the      *)
(* SET_CONFIGURATION and SET_INTERFACE requests of the host on it, and     *)
(* closing it gives the interfaces back.  A step is one call to libusb.    *)
(* Any call may fail; viu::_assert logs that and the code goes on, and the *)
(* host is told that its request succeeded.                                *)
(*                                                                         *)
(* The other control requests are forwarded to the device or answered from *)
(* its descriptors and change nothing here.                                *)
(***************************************************************************)
EXTENDS Naturals, FiniteSets, Functions

CONSTANTS
    Count,          \* Count[c]: bNumInterfaces of configuration c
    Alts,           \* alternate settings, 0 among them
    MaxFailures     \* bound: how many calls to libusb fail

Configs == DOMAIN Count
MaxCount == CHOOSE n \in Range(Count) : \A m \in Range(Count) : m <= n
Interfaces == 0 .. (MaxCount - 1)
Unconfigured == 0

ASSUME CountAssumption ==
    /\ IsFiniteSet(Configs) /\ Configs # {} /\ Configs \subseteq Nat \ {0}
    /\ Range(Count) \subseteq Nat \ {0}
ASSUME AltsAssumption == 0 \in Alts /\ Alts \subseteq Nat
ASSUME FailuresAssumption == MaxFailures \in Nat

VARIABLES
    pc,             \* where the code is: see Phases
    ifc,            \* the loop variable of claim_ and release_interfaces
    asked,          \* the configuration the request asks for
    active,         \* the configuration the device is in
    alt,            \* the alternate settings the device is in
    claimed,        \* interfaces claimed through libusb
    driven,         \* interfaces bound to a driver of this machine's kernel
    autoDetach,     \* libusb's auto-detach flag of the handle
    cache,          \* alt_settings_
    hostConfig,     \* the configuration the host has been told it set
    hostAlt,        \* likewise the alternate settings
    keptAlts,       \* a SET_CONFIGURATION left alternate settings as they were
    failures,       \* calls to libusb that failed
    tries,          \* reconfigurations begun since the last of them, up to 2
    crashed

host == <<hostConfig, hostAlt>>
vars == <<pc, ifc, asked, active, alt, claimed, driven, autoDetach, cache, host,
          keptAlts, failures, tries, crashed>>

\* open_cloned_libusb_device (start, open), set_configuration (compare to reply)
\* and close.
Phases == {"start", "open", "idle", "compare", "off", "release", "set", "on", "claim",
           "reply", "close", "drop", "closed"}

TypeOK ==
    /\ pc \in Phases
    /\ ifc \in 0 .. MaxCount
    /\ asked \in Configs \cup {Unconfigured}
    /\ active \in Configs \cup {Unconfigured}
    /\ alt \in [Interfaces -> Alts]
    /\ claimed \subseteq Interfaces
    /\ driven \subseteq Interfaces
    /\ claimed \cap driven = {}
    /\ autoDetach \in BOOLEAN
    /\ DOMAIN cache \subseteq Interfaces /\ Range(cache) \subseteq Alts
    /\ hostConfig \in Configs \cup {Unconfigured}
    /\ hostAlt \in [Interfaces -> Alts]
    /\ failures \in 0 .. MaxFailures
    /\ tries \in 0 .. 2
    /\ {keptAlts, crashed} \subseteq BOOLEAN

AllZero == [i \in Interfaces |-> 0]
InterfacesOf(c) == 0 .. (Count[c] - 1)

-----------------------------------------------------------------------------
(* libusb and usbfs, as far as the code relies on them. *)

\* A call that could succeed is made to fail.
Fails ==
    /\ failures < MaxFailures
    /\ failures' = failures + 1
    /\ tries' = 0

Succeeds == UNCHANGED <<failures, tries>>

\* A kernel driver is in the way unless auto-detach takes it off.
CanClaim(i) == autoDetach \/ i \notin driven

LibusbClaim(i) ==
    /\ CanClaim(i)
    /\ claimed' = claimed \cup {i}
    /\ driven' = driven \ {i}
    /\ UNCHANGED alt
    /\ Succeeds

\* With auto-detach the kernel's driver gets the interface back; either way
\* the kernel puts it back in alternate setting 0.
LibusbRelease(i) ==
    /\ i \in claimed
    /\ claimed' = claimed \ {i}
    /\ driven' = IF autoDetach THEN driven \cup {i} ELSE driven
    /\ alt' = [alt EXCEPT ![i] = 0]
    /\ Succeeds

NoChange == UNCHANGED <<claimed, driven, alt>>

\* usbfs refuses while any interface has an owner.
CanSetConfiguration == claimed = {} /\ driven = {}

-----------------------------------------------------------------------------
(* usb::device *)

\* Planted bug: the last interface is left out.
MoreInterfacesButLast == active # Unconfigured /\ ifc + 1 < Count[active]

\* The condition of both loops, with count_interfaces on the configuration the
\* device is in at the time.
MoreInterfaces == active # Unconfigured /\ ifc < Count[active]

\* Without an active configuration libusb has no descriptor, and
\* count_interfaces reads bNumInterfaces through a null pointer.
CountInterfacesCrashes ==
    /\ ~crashed
    /\ pc \in {"release", "claim", "close"}
    /\ active = Unconfigured
    /\ crashed' = TRUE
    /\ UNCHANGED <<pc, ifc, asked, active, alt, claimed, driven, autoDetach, cache,
                   host, keptAlts, failures, tries>>

\* The loop of claim_interfaces or release_interfaces goes on, or is left for
\* next because of an error or at its end.
LoopOn == ifc' = ifc + 1 /\ UNCHANGED pc
LoopLeft(next) == ifc' = 0 /\ pc' = next

ClaimInterfaces(here, onError, onEnd) ==
    /\ ~crashed
    /\ pc = here
    /\ active # Unconfigured
    /\ \/ MoreInterfaces /\ LibusbClaim(ifc) /\ LoopOn
       \/ /\ MoreInterfaces
          /\ IF CanClaim(ifc) THEN Fails /\ driven' \in {driven, driven \ {ifc}}
                             ELSE Succeeds /\ UNCHANGED driven
          /\ LoopLeft(onError)
          /\ UNCHANGED <<claimed, alt>>
       \/ ~MoreInterfaces /\ NoChange /\ Succeeds /\ LoopLeft(onEnd)
    /\ UNCHANGED <<asked, active, autoDetach, cache, host, keptAlts, crashed>>

ReleaseInterfaces(here, next) ==
    /\ ~crashed
    /\ pc = here
    /\ active # Unconfigured
    /\ \/ MoreInterfaces /\ LibusbRelease(ifc) /\ LoopOn
       \/ MoreInterfaces /\ ifc \notin claimed /\ NoChange /\ Succeeds /\ LoopLeft(next)
       \/ MoreInterfaces /\ ifc \in claimed /\ NoChange /\ Fails /\ LoopLeft(next)
       \/ ~MoreInterfaces /\ NoChange /\ Succeeds /\ LoopLeft(next)
    /\ UNCHANGED <<asked, active, autoDetach, cache, host, keptAlts, crashed>>

\* libusb_set_auto_detach_kernel_driver: the flag stays as it is if the call fails.
SetAutoDetach(here, enable, next) ==
    /\ ~crashed
    /\ pc = here
    /\ \/ autoDetach' = enable /\ Succeeds
       \/ UNCHANGED autoDetach /\ Fails
    /\ pc' = next
    /\ UNCHANGED <<ifc, asked, active, alt, claimed, driven, cache, host, keptAlts, crashed>>

OpenAutoDetach == SetAutoDetach("start", TRUE, "open")

\* The constructor throws when an interface cannot be claimed: the destructor
\* does not run, and the deleter of the handle finds device_handle_ null (libc++
\* clears it first), so that it closes the handle without releasing anything.
Open == ClaimInterfaces("open", "drop", "idle")

\* A SET_CONFIGURATION arrives.
Request(c) ==
    /\ ~crashed
    /\ pc = "idle"
    /\ pc' = "compare"
    /\ asked' = c
    /\ UNCHANGED <<ifc, active, alt, claimed, driven, autoDetach, cache, host,
                   keptAlts, failures, tries, crashed>>

\* libusb_get_configuration gives the configuration in use.
Skip ==
    /\ ~crashed
    /\ pc = "compare"
    /\ asked = active
    /\ pc' = "reply"
    /\ keptAlts' = (alt # AllZero)
    /\ UNCHANGED <<ifc, asked, active, alt, claimed, driven, autoDetach, cache, host,
                   failures, tries, crashed>>

\* It is another one, or the call failed and current_index is still -1.
Reconfigure ==
    /\ ~crashed
    /\ pc = "compare"
    /\ IF asked = active THEN Fails
       ELSE tries' = (IF tries = 2 THEN 2 ELSE tries + 1) /\ UNCHANGED failures
    /\ pc' = "off"
    /\ UNCHANGED <<ifc, asked, active, alt, claimed, driven, autoDetach, cache, host,
                   keptAlts, crashed>>

\* Planted bug: the drivers of the kernel get their interfaces back.
AutoDetachKept ==
    /\ ~crashed
    /\ pc = "off"
    /\ pc' = "release"
    /\ UNCHANGED <<ifc, asked, active, alt, claimed, driven, autoDetach, cache, host,
                   keptAlts, failures, tries, crashed>>

AutoDetachOff == SetAutoDetach("off", FALSE, "release")

Release == ReleaseInterfaces("release", "set")

\* Planted bug: configurations are counted from 0.
SetConfigurationByIndex ==
    /\ ~crashed
    /\ pc = "set"
    /\ CanSetConfiguration
    /\ active' = IF asked = Unconfigured THEN Unconfigured ELSE asked - 1
    /\ alt' = AllZero
    /\ driven' = IF active' = Unconfigured THEN {} ELSE InterfacesOf(active')
    /\ keptAlts' = FALSE
    /\ Succeeds
    /\ pc' = "on"
    /\ UNCHANGED <<ifc, asked, claimed, autoDetach, cache, host, crashed>>

\* libusb_set_configuration.  When the device refuses, the kernel is left with
\* the old configuration or with none.
SetConfiguration ==
    /\ ~crashed
    /\ pc = "set"
    /\ \/ /\ CanSetConfiguration
          /\ active' = asked
          /\ alt' = AllZero
          /\ driven' = IF asked = Unconfigured THEN {} ELSE InterfacesOf(asked)
          /\ keptAlts' = FALSE
          /\ Succeeds
       \/ /\ CanSetConfiguration
          /\ active' \in {active, Unconfigured}
          /\ Fails
          /\ UNCHANGED <<alt, driven, keptAlts>>
       \/ /\ ~CanSetConfiguration
          /\ Succeeds
          /\ UNCHANGED <<active, alt, driven, keptAlts>>
    /\ pc' = "on"
    /\ UNCHANGED <<ifc, asked, claimed, autoDetach, cache, host, crashed>>

AutoDetachOn == SetAutoDetach("on", TRUE, "claim")

Claim == ClaimInterfaces("claim", "reply", "reply")

\* proxy::set_configuration: the reply has status 0 whatever happened, and the
\* host takes all interfaces to be in alternate setting 0.
Reply ==
    /\ ~crashed
    /\ pc = "reply"
    /\ pc' = "idle"
    /\ hostConfig' = asked
    /\ hostAlt' = AllZero
    /\ UNCHANGED <<ifc, asked, active, alt, claimed, driven, autoDetach, cache,
                   keptAlts, failures, tries, crashed>>

\* insert does not replace a value that alt_settings_ has already.
CacheInsert(i, a) ==
    cache' = [j \in DOMAIN cache \cup {i} |-> IF j \in DOMAIN cache THEN cache[j] ELSE a]

\* libusb needs the interface to be claimed.  The reply has status 0 here too.
SetInterface(i, a) ==
    /\ ~crashed
    /\ pc = "idle"
    /\ hostConfig # Unconfigured
    /\ i \in InterfacesOf(hostConfig)
    /\ \/ /\ i \in claimed
          /\ alt' = [alt EXCEPT ![i] = a]
          /\ CacheInsert(i, a)
          /\ Succeeds
       \/ /\ i \in claimed /\ Fails
          /\ UNCHANGED <<alt, cache>>
       \/ /\ i \notin claimed /\ Succeeds
          /\ UNCHANGED <<alt, cache>>
    /\ hostAlt' = [hostAlt EXCEPT ![i] = a]
    /\ UNCHANGED <<pc, ifc, asked, active, claimed, driven, autoDetach, hostConfig,
                   keptAlts, crashed>>

\* Planted bug: the handle is closed with the interfaces still claimed.
CloseUnreleased ==
    /\ ~crashed
    /\ pc = "idle"
    /\ pc' = "drop"
    /\ UNCHANGED <<ifc, asked, active, alt, claimed, driven, autoDetach, cache, host,
                   keptAlts, failures, tries, crashed>>

\* The device is unplugged.
Close ==
    /\ ~crashed
    /\ pc = "idle"
    /\ pc' = "close"
    /\ UNCHANGED <<ifc, asked, active, alt, claimed, driven, autoDetach, cache, host,
                   keptAlts, failures, tries, crashed>>

CloseRelease == ReleaseInterfaces("close", "drop")

\* libusb_close drops the claims that are left; no driver is attached then.
LibusbClose ==
    /\ ~crashed
    /\ pc = "drop"
    /\ pc' = "closed"
    /\ claimed' = {}
    /\ UNCHANGED <<ifc, asked, active, alt, driven, autoDetach, cache, host, keptAlts,
                   failures, tries, crashed>>

-----------------------------------------------------------------------------
Init ==
    /\ pc = "start"
    /\ ifc = 0
    /\ active \in Configs
    /\ asked = active
    /\ alt = AllZero
    /\ claimed = {}
    /\ driven = InterfacesOf(active)
    /\ autoDetach = FALSE
    /\ cache = <<>>
    /\ hostConfig = Unconfigured
    /\ hostAlt = AllZero
    /\ keptAlts = FALSE
    /\ failures = 0
    /\ tries = 0
    /\ crashed = FALSE

Next ==
    \/ OpenAutoDetach \/ Open
    \/ \E c \in Configs \cup {Unconfigured} : Request(c)
    \/ Skip \/ Reconfigure \/ AutoDetachOff \/ Release \/ SetConfiguration
    \/ AutoDetachOn \/ Claim \/ Reply
    \/ CountInterfacesCrashes
    \/ \E i \in Interfaces, a \in Alts : SetInterface(i, a)
    \/ Close \/ CloseRelease \/ LibusbClose

Spec == Init /\ [][Next]_vars

-----------------------------------------------------------------------------
(* Properties. *)

\* As long as no call to libusb fails, host and device are in the same
\* configuration with all its interfaces claimed, and agree on the alternate
\* settings, although the host is told of success without looking.  The
\* exception: a SET_CONFIGURATION for the configuration in use is skipped and
\* resets no alternate setting.
HostAgrees ==
    failures = 0 /\ pc = "idle" =>
        /\ hostConfig \in {active, Unconfigured}
        /\ claimed = InterfacesOf(active)
        /\ keptAlts \/ hostAlt = alt

\* Partial failure is repaired by trying again: whatever calls have failed,
\* at most one more reconfiguration is lost (to a driver of the kernel that
\* still has an interface the code could not claim), and the next takes effect.
RetryTakesEffect ==
    pc = "reply" /\ (failures = 0 \/ tries = 2) => active = asked

\* When the device is closed, and no call has failed, the kernel's drivers have
\* the interfaces of its configuration back, whichever that is by now.
DriversReturn ==
    pc = "closed" /\ failures = 0 => driven = InterfacesOf(active)

\* count_interfaces goes through a null pointer only when the host has asked
\* for configuration 0, or a call to libusb has failed: no other order of
\* requests leaves the device without a configuration.
CrashesOnlyUnconfigured ==
    crashed => asked = Unconfigured \/ failures > 0
=============================================================================
