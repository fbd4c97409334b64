------------------------ MODULE ControlRequestsProofs ------------------------
(***************************************************************************)
(* Proofs about ControlRequests for every device (any configurations with  *)
(* any numbers of interfaces), any order of requests and any number of     *)
(* failing calls to libusb.                                                *)
(***************************************************************************)
EXTENDS ControlRequests, FiniteSetTheorems, TLAPS

-----------------------------------------------------------------------------
(* The inductive invariant. *)

\* No call has failed, or none since a reconfiguration (since two of them)
\* began.
Sound == failures = 0 \/ tries \in {1, 2}
Twice == failures = 0 \/ tries = 2

\* The device has its interfaces, and no driver of the kernel has one.
Settled == claimed = InterfacesOf(active) /\ driven = {}

\* What holds whatever has failed: a loop has left no interface out, and only the
\* claim after a set_configuration meets a device that is in no configuration.
\* Unless a call has failed, libusb's auto-detach is off from the release to the
\* set_configuration only.
Always ==
    /\ pc \in Phases
    /\ ifc \in Nat
    /\ pc \notin {"open", "release", "claim", "close"} => ifc = 0
    /\ asked \in Configs \cup {Unconfigured}
    /\ active \in Configs \cup {Unconfigured}
    /\ active = Unconfigured =>
           pc \in {"on", "claim"} /\ (asked = Unconfigured \/ failures > 0)
    /\ autoDetach \in BOOLEAN
    /\ pc \in {"release", "set", "on"} /\ Sound => ~autoDetach
    /\ pc \in {"open", "idle", "compare", "claim", "reply", "close"} /\ Sound => autoDetach
    /\ claimed \cap driven = {}
    /\ active # Unconfigured => claimed \cup driven \subseteq InterfacesOf(active)
    /\ failures \in Nat
    /\ tries \in 0 .. 2
    /\ pc \in {"start", "open", "on", "claim"} => 0 .. (ifc - 1) \subseteq claimed

\* Who has the interfaces, once a reconfiguration has gone through its claim
\* and none of its calls has failed.
Ownership ==
    /\ pc \in {"idle", "compare", "reply"} /\ Sound => Settled
    /\ pc = "off" /\ Twice => Settled
    /\ pc = "release" /\ Twice => claimed = ifc .. (Count[active] - 1) /\ driven = {}
    /\ pc = "set" /\ Twice => claimed = {} /\ driven = {}
    /\ pc \in {"on", "claim", "reply"} /\ Twice => active = asked
    /\ pc = "close" /\ failures = 0 =>
           /\ claimed = ifc .. (Count[active] - 1)
           /\ claimed \cup driven = InterfacesOf(active)
    /\ pc \in {"drop", "closed"} /\ failures = 0 => driven = InterfacesOf(active)

\* What the host takes to be so, as long as no call has failed.
HostView ==
    failures = 0 =>
        /\ pc \in {"start", "open"} => alt = AllZero /\ hostAlt = AllZero /\ hostConfig = Unconfigured
        /\ pc \in {"idle", "compare"} =>
               hostConfig \in {active, Unconfigured} /\ (keptAlts \/ hostAlt = alt)
        /\ pc \in {"on", "claim"} => alt = AllZero
        /\ pc = "reply" => keptAlts \/ alt = AllZero

Inv == Always /\ Ownership /\ HostView /\ CrashesOnlyUnconfigured
-----------------------------------------------------------------------------
(* Every step keeps the invariant. *)

\* Every configuration has an interface, and none is configuration 0.
LEMMA Counts ==
    /\ \A c \in Configs : Count[c] \in Nat \ {0} /\ c # Unconfigured
    /\ Unconfigured = 0
  BY CountAssumption DEF Configs, Range, Unconfigured

LEMMA InitInv ==
    ASSUME Init
    PROVE  Inv
<1>1. Always
  <2>1. autoDetach \in BOOLEAN
    BY DEF Init
  <2>2. 0 .. (ifc - 1) \subseteq claimed
    BY DEF Init
  <2>3. claimed \cap driven = {} /\ claimed \cup driven \subseteq InterfacesOf(active)
    BY DEF Init
  <2>4. active \in Configs /\ asked \in Configs /\ active # Unconfigured
    BY Counts DEF Init
  <2>5. QED
    BY <2>1, <2>2, <2>3, <2>4 DEF Init, Always, Phases
<1>2. Ownership
  BY DEF Init, Ownership
<1>3. HostView
  BY DEF Init, HostView
<1>4. QED
  BY <1>1, <1>2, <1>3 DEF Inv, Init, CrashesOnlyUnconfigured

\* Requests of the host, answers to it, and the steps around the loops.
LEMMA RequestInv ==
    ASSUME Inv, NEW c \in Configs \cup {Unconfigured}, Request(c)
    PROVE  Inv'
<1> USE DEF Inv, Request, host
<1>1. Always'
  BY DEF Always, Phases, InterfacesOf, Sound
<1>2. Ownership'
  BY DEF Always, Ownership, Sound, Twice, Settled, InterfacesOf
<1>3. HostView'
  BY DEF Always, HostView
<1>4. QED
  BY <1>1, <1>2, <1>3 DEF CrashesOnlyUnconfigured

LEMMA SkipInv ==
    ASSUME Inv, Skip
    PROVE  Inv'
<1> USE DEF Inv, Skip, host
<1>1. Always'
  BY DEF Always, Phases, InterfacesOf, Sound
<1>2. Ownership'
  BY DEF Always, Ownership, Sound, Twice, Settled, InterfacesOf
<1>3. HostView'
  BY DEF Always, HostView, AllZero
<1>4. QED
  BY <1>1, <1>2, <1>3 DEF CrashesOnlyUnconfigured

LEMMA ReplyInv ==
    ASSUME Inv, Reply
    PROVE  Inv'
<1> USE DEF Inv, Reply, host
<1>1. Always'
  BY DEF Always, Phases, InterfacesOf, Sound
<1>2. Ownership'
  BY DEF Always, Ownership, Sound, Twice, Settled, InterfacesOf
<1>3. HostView'
  BY DEF Always, Ownership, Twice, HostView, AllZero
<1>4. QED
  BY <1>1, <1>2, <1>3 DEF CrashesOnlyUnconfigured

LEMMA CloseInv ==
    ASSUME Inv, Close
    PROVE  Inv'
<1> USE DEF Inv, Close, host
<1>1. Always'
  BY DEF Always, Phases, InterfacesOf, Sound
<1>2. Ownership'
  BY DEF Always, Ownership, Sound, Twice, Settled, InterfacesOf
<1>3. HostView'
  BY DEF Always, HostView
<1>4. QED
  BY <1>1, <1>2, <1>3 DEF CrashesOnlyUnconfigured

LEMMA LibusbCloseInv ==
    ASSUME Inv, LibusbClose
    PROVE  Inv'
<1> USE DEF Inv, LibusbClose, host
<1>1. Always'
  BY DEF Always, Phases, InterfacesOf, Sound
<1>2. Ownership'
  BY DEF Always, Ownership, Sound, Twice, Settled, InterfacesOf
<1>3. HostView'
  BY DEF Always, HostView
<1>4. QED
  BY <1>1, <1>2, <1>3 DEF CrashesOnlyUnconfigured

\* count_interfaces meets a device in no configuration only in the claim.
LEMMA CrashInv ==
    ASSUME Inv, CountInterfacesCrashes
    PROVE  Inv'
<1> USE DEF Inv, CountInterfacesCrashes, host
<1>1. Always'
  BY DEF Always, Phases, InterfacesOf, Sound
<1>2. Ownership'
  BY DEF Always, Ownership, Sound, Twice, Settled, InterfacesOf
<1>3. HostView'
  BY DEF Always, HostView, AllZero
<1>4. CrashesOnlyUnconfigured'
  BY DEF Always, CrashesOnlyUnconfigured
<1>5. QED
  BY <1>1, <1>2, <1>3, <1>4

LEMMA SetInterfaceInv ==
    ASSUME Inv, NEW i, NEW a, SetInterface(i, a)
    PROVE  Inv'
<1> USE DEF Inv, SetInterface, Succeeds, Fails
<1>1. Always'
  BY FailuresAssumption DEF Always, Phases, InterfacesOf, Sound
<1>2. Ownership'
  BY DEF Always, Ownership, Sound, Twice, Settled, InterfacesOf
<1>3. HostView'
  BY DEF Always, HostView, Ownership, Sound, Settled
<1>4. QED
  BY <1>1, <1>2, <1>3 DEF Always, CrashesOnlyUnconfigured

\* A second reconfiguration in a row begins with the interfaces all claimed.
LEMMA ReconfigureInv ==
    ASSUME Inv, Reconfigure
    PROVE  Inv'
<1> USE DEF Inv, Reconfigure, Fails, host
<1>1. Always'
  <2>1. failures \in Nat /\ tries \in 0 .. 2 /\ active # Unconfigured
    BY DEF Always
  <2>2. failures' \in Nat /\ tries' \in 0 .. 2
    BY <2>1
  <2>3. pc' = "off" /\ autoDetach' = autoDetach
    OBVIOUS
  <2>4. QED
    BY <2>1, <2>2, <2>3 DEF Always, Phases, InterfacesOf
<1>2. Ownership'
  <2>1. Twice' => Sound
    BY DEF Always, Sound, Twice
  <2>2. Sound => Settled
    BY DEF Ownership
  <2>3. pc' = "off" /\ UNCHANGED <<active, claimed, driven>>
    OBVIOUS
  <2>4. QED
    BY <2>1, <2>2, <2>3 DEF Ownership, Settled, InterfacesOf
<1>3. HostView'
  BY DEF Always, HostView, AllZero
<1>4. QED
  BY <1>1, <1>2, <1>3 DEF Always, CrashesOnlyUnconfigured

\* libusb_set_auto_detach_kernel_driver: when it fails nothing is promised until the
\* next reconfiguration.
LEMMA SetAutoDetachInv ==
    ASSUME Inv, OpenAutoDetach \/ AutoDetachOff \/ AutoDetachOn
    PROVE  Inv'
<1> USE DEF Inv
<1>1. PICK here, enable, next :
          /\ \/ here = "start" /\ enable = TRUE /\ next = "open"
             \/ here = "off" /\ enable = FALSE /\ next = "release"
             \/ here = "on" /\ enable = TRUE /\ next = "claim"
          /\ SetAutoDetach(here, enable, next)
  BY DEF OpenAutoDetach, AutoDetachOff, AutoDetachOn
<1>2. /\ ~crashed /\ pc = here /\ pc' = next /\ ifc = 0 /\ autoDetach \in BOOLEAN
      /\ failures \in Nat /\ tries \in 0 .. 2
      /\ UNCHANGED <<ifc, asked, active, alt, claimed, driven, cache, hostConfig, hostAlt,
                     keptAlts, crashed>>
  BY <1>1 DEF SetAutoDetach, Always, host
<1>3. ASSUME /\ failures' \in Nat /\ tries' \in 0 .. 2 /\ autoDetach' \in BOOLEAN
             /\ Sound' => autoDetach' = enable
             /\ failures > 0 => failures' > 0
      PROVE  Always' /\ CrashesOnlyUnconfigured'
  <2>1. 0 .. (ifc' - 1) \subseteq claimed'
    BY <1>2
  <2>2. QED
    BY <1>1, <1>2, <1>3, <2>1 DEF Always, Phases, InterfacesOf, CrashesOnlyUnconfigured
<1>4. CASE autoDetach' = enable /\ Succeeds
  <2>1. UNCHANGED <<failures, tries>> /\ autoDetach' \in BOOLEAN
    BY <1>1, <1>4 DEF Succeeds
  <2>2. Ownership'
    BY <1>1, <1>2, <2>1 DEF Ownership, Settled, Twice, Sound, InterfacesOf
  <2>3. HostView'
    BY <1>1, <1>2, <2>1 DEF HostView, AllZero
  <2>4. QED
    BY <1>2, <1>3, <1>4, <2>1, <2>2, <2>3
<1>5. CASE UNCHANGED autoDetach /\ Fails
  <2>1. failures' \in Nat /\ failures' > 0 /\ tries' = 0 /\ autoDetach' \in BOOLEAN
    BY <1>2, <1>5 DEF Fails
  <2>2. ~Sound' /\ ~Twice'
    BY <2>1 DEF Sound, Twice
  <2>3. Ownership' /\ HostView'
    BY <2>1, <2>2 DEF Ownership, HostView
  <2>4. QED
    BY <1>3, <2>1, <2>2, <2>3
<1>6. QED
  BY <1>1, <1>4, <1>5 DEF SetAutoDetach

\* The kernel refuses only when an interface still has an owner, which it has
\* not in the second reconfiguration in a row.
LEMMA SetConfigurationInv ==
    ASSUME Inv, SetConfiguration
    PROVE  Inv'
<1> USE DEF Inv
<1>1. /\ ~ crashed /\ pc = "set" /\ pc' = "on" /\ ifc = 0
      /\ active \in Configs /\ active # Unconfigured
      /\ UNCHANGED <<ifc, asked, claimed, autoDetach, cache, hostConfig, hostAlt, crashed>>
  BY DEF SetConfiguration, Always, host
<1>2. 0 .. (ifc' - 1) \subseteq claimed'
  BY <1>1
<1>3. autoDetach' \in BOOLEAN /\ (Sound => ~autoDetach')
  BY <1>1 DEF Always
<1>4. CASE /\ CanSetConfiguration
           /\ active' = asked
           /\ alt' = AllZero
           /\ driven' = IF asked = Unconfigured THEN {} ELSE InterfacesOf(asked)
           /\ keptAlts' = FALSE
           /\ Succeeds
  <2>1. claimed = {} /\ UNCHANGED <<failures, tries>>
    BY <1>4 DEF CanSetConfiguration, Succeeds
  <2>2. Always'
    <3>1. active' # Unconfigured => claimed' \cup driven' \subseteq InterfacesOf(active)'
      BY <1>1, <1>4, <2>1 DEF InterfacesOf
    <3>2. QED
      BY <1>2, <1>3, <3>1, <1>1, <1>4, <2>1 DEF Always, Phases, Sound
  <2>3. Ownership'
    BY <1>1, <1>4 DEF Ownership
  <2>4. HostView'
    BY <1>1, <1>4 DEF HostView, AllZero
  <2>5. QED
    BY <1>1, <2>2, <2>3, <2>4 DEF CrashesOnlyUnconfigured
<1>5. CASE /\ CanSetConfiguration
           /\ active' \in {active, Unconfigured}
           /\ Fails
           /\ UNCHANGED <<alt, driven, keptAlts>>
  <2>1. /\ claimed = {} /\ driven = {} /\ failures' \in Nat /\ failures' > 0 /\ tries' = 0
    BY <1>5 DEF CanSetConfiguration, Fails, Always
  <2>2. Always'
    <3>1. claimed' = {} /\ driven' = {}
      BY <1>1, <1>5, <2>1
    <3>2. QED
      BY <3>1, <1>1, <1>5, <1>2, <1>3, <2>1 DEF Always, Phases, Sound
  <2>3. Ownership'
    BY <1>1, <2>1 DEF Ownership, Sound, Twice
  <2>4. HostView'
    BY <2>1 DEF HostView
  <2>5. QED
    BY <1>1, <2>2, <2>3, <2>4 DEF CrashesOnlyUnconfigured
<1>6. CASE /\ ~CanSetConfiguration
           /\ Succeeds
           /\ UNCHANGED <<active, alt, driven, keptAlts>>
  <2>1. ~ Twice /\ UNCHANGED <<failures, tries>>
    BY <1>1, <1>6 DEF CanSetConfiguration, Succeeds, Ownership
  <2>2. Always'
    BY <1>1, <1>6, <1>2, <1>3, <2>1 DEF Always, Phases, InterfacesOf, Sound
  <2>3. Ownership'
    BY <1>1, <2>1 DEF Ownership, Twice
  <2>4. HostView'
    BY <1>1, <2>1 DEF HostView, Twice
  <2>5. QED
    BY <1>1, <2>2, <2>3, <2>4 DEF CrashesOnlyUnconfigured
<1>7. QED
  BY <1>4, <1>5, <1>6 DEF SetConfiguration

\* claim_interfaces, in the constructor and after a set_configuration: the
\* loop is at its end only when it has claimed every interface.
LEMMA ClaimInterfacesInv ==
    ASSUME Inv, NEW here, NEW onError, NEW onEnd,
           \/ here = "open" /\ onError = "drop" /\ onEnd = "idle"
           \/ here = "claim" /\ onError = "reply" /\ onEnd = "reply",
           ClaimInterfaces(here, onError, onEnd)
    PROVE  Inv'
<1> USE DEF Inv
<1>1. /\ ~ crashed /\ pc = here /\ active # Unconfigured /\ active \in Configs
      /\ autoDetach \in BOOLEAN /\ (Sound => autoDetach) /\ ifc \in Nat
      /\ 0 .. (ifc - 1) \subseteq claimed
      /\ claimed \cap driven = {}
      /\ claimed \cup driven \subseteq InterfacesOf(active)
      /\ failures \in Nat /\ tries \in 0 .. 2
      /\ UNCHANGED <<asked, active, autoDetach, cache, hostConfig, hostAlt, keptAlts,
                     crashed>>
  BY DEF ClaimInterfaces, Always, host
<1>2. Count[active] \in Nat \ {0}
  BY <1>1, Counts
<1>3. CASE MoreInterfaces /\ LibusbClaim(ifc) /\ LoopOn
  <2>1. /\ ifc < Count[active] /\ ifc' = ifc + 1 /\ pc' = pc
        /\ claimed' = claimed \cup {ifc} /\ driven' = driven \ {ifc}
        /\ UNCHANGED <<alt, failures, tries>>
    BY <1>3 DEF MoreInterfaces, LibusbClaim, LoopOn, Succeeds
  <2>2. 0 .. (ifc' - 1) \subseteq claimed'
    BY <1>1, <2>1
  <2>3. claimed' \cap driven' = {} /\ claimed' \cup driven' \subseteq InterfacesOf(active')
    BY <1>1, <1>2, <2>1 DEF InterfacesOf
  <2>4. Always'
    BY <1>1, <2>1, <2>2, <2>3 DEF Always, InterfacesOf, Sound
  <2>5. Ownership'
    BY <1>1, <2>1 DEF Ownership, Twice
  <2>6. HostView'
    BY <1>1, <2>1 DEF HostView, AllZero
  <2>7. QED
    BY <1>1, <2>4, <2>5, <2>6 DEF CrashesOnlyUnconfigured
<1>4. CASE /\ MoreInterfaces
           /\ IF CanClaim(ifc) THEN Fails /\ driven' \in {driven, driven \ {ifc}}
                               ELSE Succeeds /\ UNCHANGED driven
           /\ LoopLeft(onError)
           /\ UNCHANGED <<claimed, alt>>
  <2>1. /\ ifc' = 0 /\ pc' = onError /\ pc' \in {"drop", "reply"}
        /\ failures' \in Nat /\ failures' > 0 /\ tries' = 0
        /\ claimed' = claimed /\ driven' \in {driven, driven \ {ifc}}
    BY <1>1, <1>4 DEF CanClaim, Fails, Succeeds, LoopLeft, Sound
  <2>2. claimed' \cap driven' = {} /\ claimed' \cup driven' \subseteq InterfacesOf(active')
    BY <1>1, <2>1
  <2>3. Always'
    BY <1>1, <2>1, <2>2 DEF Always, Phases, InterfacesOf, Sound
  <2>4. Ownership'
    BY <2>1 DEF Ownership, Sound, Twice
  <2>5. HostView'
    BY <2>1 DEF HostView
  <2>6. QED
    BY <1>1, <2>3, <2>4, <2>5 DEF CrashesOnlyUnconfigured
<1>5. CASE ~MoreInterfaces /\ NoChange /\ Succeeds /\ LoopLeft(onEnd)
  <2>1. /\ ~ (ifc < Count[active]) /\ ifc' = 0 /\ pc' = onEnd /\ pc' \in {"idle", "reply"}
        /\ UNCHANGED <<claimed, driven, alt, failures, tries>>
    BY <1>1, <1>5 DEF MoreInterfaces, NoChange, Succeeds, LoopLeft
  <2>2. InterfacesOf(active) \subseteq claimed
    BY <1>1, <1>2, <2>1 DEF InterfacesOf
  <2>3. Settled
    BY <1>1, <2>2 DEF Settled
  <2>4. Always'
    BY <1>1, <2>1 DEF Always, Phases, InterfacesOf, Sound
  <2>5. Ownership'
    BY <1>1, <2>1, <2>3 DEF Ownership, Settled, InterfacesOf, Twice
  <2>6. HostView'
    BY <1>1, <2>1 DEF HostView, AllZero
  <2>7. QED
    BY <1>1, <2>4, <2>5, <2>6 DEF CrashesOnlyUnconfigured
<1>6. QED
  BY <1>3, <1>4, <1>5 DEF ClaimInterfaces

\* release_interfaces, before a set_configuration and when the device is
\* closed: it gives up at an interface that is not claimed, which there is not
\* after a claim that went through.
LEMMA ReleaseInterfacesInv ==
    ASSUME Inv, NEW here, NEW next,
           (here = "release" /\ next = "set") \/ (here = "close" /\ next = "drop"),
           ReleaseInterfaces(here, next)
    PROVE  Inv'
<1> USE DEF Inv
<1> DEFINE Whole == IF here = "release" THEN Twice ELSE failures = 0
<1>1. /\ ~ crashed /\ pc = here /\ active # Unconfigured /\ active \in Configs
      /\ autoDetach \in BOOLEAN /\ (Sound => autoDetach = (here = "close")) /\ ifc \in Nat
      /\ claimed \cap driven = {}
      /\ claimed \cup driven \subseteq InterfacesOf(active)
      /\ failures \in Nat /\ tries \in 0 .. 2
      /\ UNCHANGED <<asked, active, autoDetach, cache, hostConfig, hostAlt, keptAlts,
                     crashed>>
  BY DEF ReleaseInterfaces, Always, host
<1>2. Count[active] \in Nat \ {0}
  BY <1>1, Counts
<1>3. Whole => /\ claimed = ifc .. (Count[active] - 1)
               /\ here = "release" => driven = {}
               /\ here = "close" => claimed \cup driven = InterfacesOf(active)
  BY <1>1 DEF Ownership
<1>4. CASE MoreInterfaces /\ LibusbRelease(ifc) /\ LoopOn
  <2>1. /\ ifc < Count[active] /\ ifc' = ifc + 1 /\ pc' = pc /\ ifc \in claimed
        /\ claimed' = claimed \ {ifc}
        /\ driven' = IF autoDetach THEN driven \cup {ifc} ELSE driven
        /\ UNCHANGED <<failures, tries>>
    BY <1>1, <1>4 DEF MoreInterfaces, LibusbRelease, LoopOn, Succeeds
  <2>2. claimed' \cap driven' = {} /\ claimed' \cup driven' \subseteq InterfacesOf(active')
    BY <1>1, <2>1
  <2>3. Whole => /\ claimed' = ifc' .. (Count[active'] - 1)
                 /\ here = "release" => driven' = {}
                 /\ here = "close" => claimed' \cup driven' = InterfacesOf(active')
    <3>1. Whole => autoDetach = (here = "close")
      BY <1>1 DEF Sound, Twice
    <3>2. QED
      BY <1>1, <1>2, <1>3, <2>1, <3>1
  <2>4. Always'
    BY <1>1, <2>1, <2>2 DEF Always, InterfacesOf, Sound
  <2>5. Ownership'
    BY <1>1, <2>1, <2>3 DEF Ownership, Twice, InterfacesOf
  <2>6. HostView'
    BY <1>1, <2>1 DEF HostView
  <2>7. QED
    BY <1>1, <2>4, <2>5, <2>6 DEF CrashesOnlyUnconfigured
<1>5. CASE /\ MoreInterfaces /\ ifc \notin claimed /\ NoChange /\ Succeeds
           /\ LoopLeft(next)
  <2>1. /\ ifc < Count[active] /\ ifc \notin claimed /\ ifc' = 0 /\ pc' = next
        /\ UNCHANGED <<claimed, driven, alt, failures, tries>>
    BY <1>5 DEF MoreInterfaces, NoChange, Succeeds, LoopLeft
  <2>2. ~ Whole
    BY <1>1, <1>2, <1>3, <2>1
  <2>3. Always'
    BY <1>1, <2>1 DEF Always, Phases, InterfacesOf, Sound
  <2>4. Ownership'
    BY <1>1, <2>1, <2>2 DEF Ownership, Twice
  <2>5. HostView'
    BY <1>1, <2>1 DEF HostView
  <2>6. QED
    BY <1>1, <2>3, <2>4, <2>5 DEF CrashesOnlyUnconfigured
<1>6. CASE MoreInterfaces /\ ifc \in claimed /\ NoChange /\ Fails /\ LoopLeft(next)
  <2>1. /\ ifc' = 0 /\ pc' = next /\ UNCHANGED <<claimed, driven, alt>>
        /\ failures' \in Nat /\ failures' > 0 /\ tries' = 0
    BY <1>1, <1>6 DEF NoChange, Fails, LoopLeft
  <2>2. Always'
    BY <1>1, <2>1 DEF Always, Phases, InterfacesOf, Sound
  <2>3. Ownership'
    BY <1>1, <2>1 DEF Ownership, Twice
  <2>4. HostView'
    BY <2>1 DEF HostView
  <2>5. QED
    BY <1>1, <2>2, <2>3, <2>4 DEF CrashesOnlyUnconfigured
<1>7. CASE ~MoreInterfaces /\ NoChange /\ Succeeds /\ LoopLeft(next)
  <2>1. /\ ~ (ifc < Count[active]) /\ ifc' = 0 /\ pc' = next
        /\ UNCHANGED <<claimed, driven, alt, failures, tries>>
    BY <1>1, <1>7 DEF MoreInterfaces, NoChange, Succeeds, LoopLeft
  <2>2. Whole => claimed = {}
    BY <1>1, <1>2, <1>3, <2>1
  <2>3. Always'
    BY <1>1, <2>1 DEF Always, Phases, InterfacesOf, Sound
  <2>4. Ownership'
    BY <1>1, <1>3, <2>1, <2>2 DEF Ownership, Twice, InterfacesOf
  <2>5. HostView'
    BY <1>1, <2>1 DEF HostView
  <2>6. QED
    BY <1>1, <2>3, <2>4, <2>5 DEF CrashesOnlyUnconfigured
<1>8. QED
  BY <1>4, <1>5, <1>6, <1>7 DEF ReleaseInterfaces
-----------------------------------------------------------------------------
(* What follows for set_configuration, the host and the drivers. *)

\* The invariant holds in every state of an open proxied device.
THEOREM InvTheorem == Spec => []Inv
<1>1. Init => Inv
  BY InitInv
<1>2. Inv /\ [Next]_vars => Inv'
  <2> SUFFICES ASSUME Inv, [Next]_vars
               PROVE  Inv'
    OBVIOUS
  <2>1. CASE UNCHANGED vars
    BY <2>1 DEF vars, host, Inv, Always, Ownership, HostView, CrashesOnlyUnconfigured,
               Sound, Twice, Settled, InterfacesOf, AllZero
  <2>2. CASE Open
    BY <2>2, ClaimInterfacesInv DEF Open
  <2>3. CASE Claim
    BY <2>3, ClaimInterfacesInv DEF Claim
  <2>4. CASE Release
    BY <2>4, ReleaseInterfacesInv DEF Release
  <2>5. CASE CloseRelease
    BY <2>5, ReleaseInterfacesInv DEF CloseRelease
  <2>6. CASE \E c \in Configs \cup {Unconfigured} : Request(c)
    BY <2>6, RequestInv
  <2>7. CASE \E i \in Interfaces, a \in Alts : SetInterface(i, a)
    BY <2>7, SetInterfaceInv
  <2>8. QED
    BY <2>1, <2>2, <2>3, <2>4, <2>5, <2>6, <2>7, SkipInv, ReconfigureInv,
       SetAutoDetachInv, SetConfigurationInv, ReplyInv, CrashInv, CloseInv, LibusbCloseInv DEF Next
<1>3. QED
  BY <1>1, <1>2, PTL DEF Spec

\* As long as no call to libusb fails, what the host has been told of the
\* configuration and the alternate settings is so, although no result is looked at.
THEOREM HostAgreesTheorem == Spec => []HostAgrees
<1>1. Inv => HostAgrees
  BY DEF Inv, HostView, Ownership, Sound, Settled, HostAgrees
<1>2. QED
  BY <1>1, InvTheorem, PTL

\* Whatever has failed, of two reconfigurations in a row without a failing call the
\* second takes effect.
THEOREM RetryTakesEffectTheorem == Spec => []RetryTakesEffect
<1>1. Inv => RetryTakesEffect
  BY DEF Inv, Ownership, Twice, RetryTakesEffect
<1>2. QED
  BY <1>1, InvTheorem, PTL

\* When the device is closed without a failed call, the kernel's drivers have the
\* interfaces back.
THEOREM DriversReturnTheorem == Spec => []DriversReturn
<1>1. Inv => DriversReturn
  BY DEF Inv, Ownership, DriversReturn
<1>2. QED
  BY <1>1, InvTheorem, PTL

\* count_interfaces reads through a null pointer only after a request for
\* configuration 0 or a failed call.
THEOREM CrashesOnlyUnconfiguredTheorem == Spec => []CrashesOnlyUnconfigured
<1>1. Inv => CrashesOnlyUnconfigured
  BY DEF Inv
<1>2. QED
  BY <1>1, InvTheorem, PTL
-----------------------------------------------------------------------------
(* The type invariant, which needs the greatest number of interfaces. *)

\* The number of configurations is finite, so that their numbers of interfaces
\* have a bound.
LEMMA CountsBounded == \E b \in Nat : \A c \in Configs : Count[c] <= b
<1>1. PICK n \in Nat : ExistsSurjection(1 .. n, Configs)
  BY CountAssumption, FS_NatSurjection
<1>2. PICK f \in [1 .. n -> Configs] : \A c \in Configs : \E i \in 1 .. n : f[i] = c
  BY <1>1 DEF ExistsSurjection, Surjection
<1> DEFINE Bounds(i, b) == \A j \in 1 .. i : Count[f[j]] <= b
           Bad == {i \in 0 .. n : \A b \in Nat : ~ Bounds(i, b)}
<1>3. \A i \in 1 .. n : Count[f[i]] \in Nat
  BY <1>2, Counts
<1>4. Bad = {}
  <2> SUFFICES ASSUME Bad # {} PROVE FALSE
    OBVIOUS
  <2>1. Bad \subseteq Nat
    OBVIOUS
  <2>2. PICK x \in Bad : \A y \in Bad : ~ (<<y, x>> \in OpToRel(<, Nat))
    <3> HIDE DEF Bad
    <3>1. QED
      BY <2>1, NatLessThanWellFounded, WFMin
  <2>3. x \in 0 .. n /\ \A b \in Nat : \E j \in 1 .. x : ~ (Count[f[j]] <= b)
    OBVIOUS
  <2>4. x # 0
    <3>1. \E j \in 1 .. x : ~ (Count[f[j]] <= 0)
      BY <2>3
    <3>2. QED
      BY <3>1
  <2> HIDE DEF Bad
  <2>5. x \in 1 .. n /\ x - 1 \in 0 .. n
    BY <2>3, <2>4
  <2>6. <<x - 1, x>> \in OpToRel(<, Nat)
    BY <2>5 DEF OpToRel
  <2>7. x - 1 \notin Bad
    BY <2>2, <2>6
  <2>8. PICK b \in Nat : \A j \in 1 .. (x - 1) : Count[f[j]] <= b
    BY <2>5, <2>7 DEF Bad
  <2>9. Count[f[x]] \in Nat
    BY <2>5, <1>3
  <2>10. PICK c \in Nat : b <= c /\ Count[f[x]] <= c
    <3>1. b + Count[f[x]] \in Nat /\ b <= b + Count[f[x]] /\ Count[f[x]] <= b + Count[f[x]]
      BY <2>9
    <3>2. QED
      BY <3>1
  <2>11. ASSUME NEW j \in 1 .. x PROVE Count[f[j]] <= c
    <3>1. CASE j = x
      BY <3>1, <2>10
    <3>2. CASE j # x
      <4>1. j \in 1 .. (x - 1) /\ j \in 1 .. n
        BY <3>2, <2>5
      <4>2. Count[f[j]] \in Nat /\ Count[f[j]] <= b
        BY <4>1, <2>8, <1>3
      <4>3. QED
        BY <4>2, <2>10
    <3>3. QED
      BY <3>1, <3>2
  <2>12. QED
    BY <2>3, <2>11
<1>5. PICK b \in Nat : Bounds(n, b)
  <2>1. n \in 0 .. n
    OBVIOUS
  <2>2. QED
    BY <1>4, <2>1
<1>6. QED
  BY <1>2, <1>5

\* MaxCount is the greatest of them.
LEMMA GreatestCount == MaxCount \in Nat /\ \A c \in Configs : InterfacesOf(c) \subseteq Interfaces
<1> DEFINE Upper == {b \in Nat : \A c \in Configs : Count[c] <= b}
           Greatest(n) == \A m \in Range(Count) : m <= n
<1>1. Upper \subseteq Nat /\ Upper # {}
  BY CountsBounded
<1>2. PICK b \in Upper : \A y \in Upper : ~ (<<y, b>> \in OpToRel(<, Nat))
  <2> HIDE DEF Upper
  <2>1. QED
    BY <1>1, NatLessThanWellFounded, WFMin
<1>3. b \in Nat /\ \A c \in Configs : Count[c] \in Nat \ {0} /\ Count[c] <= b
  BY Counts
<1>4. b # 0
  <2>1. PICK c \in Configs : TRUE
    BY CountAssumption
  <2>2. QED
    BY <1>3, <2>1
<1>5. \E c \in Configs : Count[c] = b
  <2> SUFFICES ASSUME \A c \in Configs : Count[c] # b PROVE FALSE
    OBVIOUS
  <2>1. b - 1 \in Upper
    BY <1>3, <1>4
  <2>2. <<b - 1, b>> \in OpToRel(<, Nat)
    BY <1>3, <1>4 DEF OpToRel
  <2>3. QED
    BY <1>2, <2>1, <2>2
<1>6. b \in Range(Count) /\ Greatest(b)
  BY <1>3, <1>5 DEF Range, Configs
<1>7. MaxCount \in Range(Count) /\ Greatest(MaxCount)
  BY <1>6 DEF MaxCount
<1>8. MaxCount \in Nat /\ \A c \in Configs : Count[c] <= MaxCount
  BY <1>7, Counts DEF Range, Configs
<1>9. QED
  BY <1>8, Counts DEF InterfacesOf, Interfaces

\* The types of what the loops of claim_ and release_interfaces change.
LoopTypes == ifc \in 0 .. MaxCount /\ claimed \subseteq Interfaces /\ driven \subseteq Interfaces

\* The members of TypeOK that are not in Always.
MemberTypes ==
    /\ alt \in [Interfaces -> Alts]
    /\ autoDetach \in BOOLEAN
    /\ DOMAIN cache \subseteq Interfaces /\ Range(cache) \subseteq Alts
    /\ hostConfig \in Configs \cup {Unconfigured}
    /\ hostAlt \in [Interfaces -> Alts]
    /\ failures \in 0 .. MaxFailures
    /\ {keptAlts, crashed} \subseteq BOOLEAN

Typed == LoopTypes /\ MemberTypes

\* A device that is being opened is well typed.
LEMMA InitTyped ==
    ASSUME Init
    PROVE  Typed
<1>1. LoopTypes
  BY GreatestCount DEF Init, LoopTypes
<1>2. AllZero \in [Interfaces -> Alts]
  BY AltsAssumption DEF AllZero
<1>3. DOMAIN cache = {}
  BY DEF Init
<1>4. DOMAIN cache \subseteq Interfaces /\ Range(cache) \subseteq Alts
  BY <1>3 DEF Range
<1>5. failures \in 0 .. MaxFailures
  BY FailuresAssumption DEF Init
<1>6. autoDetach \in BOOLEAN /\ {keptAlts, crashed} \subseteq BOOLEAN
  BY DEF Init
<1>7. MemberTypes
  BY <1>2, <1>4, <1>5, <1>6 DEF Init, MemberTypes
<1>8. QED
  BY <1>1, <1>7 DEF Typed

\* A loop stays below the number of interfaces of its configuration, and so
\* below the greatest.
LEMMA LoopTyped ==
    ASSUME Inv, Typed, active \in Configs,
           \/ \E here, onError, onEnd : ClaimInterfaces(here, onError, onEnd)
           \/ \E here, next : ReleaseInterfaces(here, next)
    PROVE  Typed'
<1>1. MaxCount \in Nat /\ Count[active] \in Nat \ {0} /\ ifc \in Nat
  BY GreatestCount, Counts DEF Inv, Always
<1>2. InterfacesOf(active) \subseteq Interfaces
  BY GreatestCount
<1>3. MoreInterfaces => ifc \in Interfaces
  BY <1>1, <1>2 DEF MoreInterfaces, InterfacesOf
<1>4. MoreInterfaces => ifc + 1 \in 0 .. MaxCount
  BY <1>1, <1>3 DEF Interfaces
<1>5. 0 \in Alts /\ failures \in 0 .. MaxFailures /\ MaxFailures \in Nat
  BY AltsAssumption, FailuresAssumption DEF Typed, MemberTypes
<1>6. LoopTypes'
  BY <1>1, <1>3, <1>4 DEF Typed, LoopTypes, ClaimInterfaces, ReleaseInterfaces,
     LibusbClaim, LibusbRelease, LoopOn, LoopLeft, NoChange
<1>7. failures' \in 0 .. MaxFailures
  BY <1>5 DEF ClaimInterfaces, ReleaseInterfaces, LibusbClaim, LibusbRelease, Fails, Succeeds
<1>8. alt' \in [Interfaces -> Alts]
  BY <1>5 DEF Typed, MemberTypes, ClaimInterfaces, ReleaseInterfaces, LibusbClaim,
     LibusbRelease, NoChange
<1>9. UNCHANGED <<autoDetach, cache, hostConfig, hostAlt, keptAlts, crashed>>
  BY DEF ClaimInterfaces, ReleaseInterfaces, host
<1>10. MemberTypes'
  BY <1>7, <1>8, <1>9 DEF Typed, MemberTypes
<1>11. QED
  BY <1>6, <1>10 DEF Typed

\* set_configuration hands the interfaces of the new configuration to the
\* kernel's drivers.
LEMMA SetConfigurationTyped ==
    ASSUME Inv, Typed, SetConfiguration
    PROVE  Typed'
<1>1. asked # Unconfigured => InterfacesOf(asked) \subseteq Interfaces
  BY GreatestCount DEF Inv, Always
<1>2. LoopTypes'
  BY <1>1 DEF SetConfiguration, Typed, LoopTypes
<1>3. AllZero \in [Interfaces -> Alts]
  BY AltsAssumption DEF AllZero
<1>4. alt' \in [Interfaces -> Alts]
  BY <1>3 DEF SetConfiguration, Typed, MemberTypes
<1>5. failures' \in 0 .. MaxFailures
  BY FailuresAssumption DEF SetConfiguration, Typed, MemberTypes, Fails, Succeeds
<1>6. autoDetach' \in BOOLEAN /\ {keptAlts', crashed'} \subseteq BOOLEAN
  BY DEF SetConfiguration, Typed, MemberTypes
<1>7. UNCHANGED <<cache, hostConfig, hostAlt>>
  BY DEF SetConfiguration, host
<1>8. MemberTypes'
  BY <1>4, <1>5, <1>6, <1>7 DEF Typed, MemberTypes
<1>9. QED
  BY <1>2, <1>8 DEF Typed

\* SET_INTERFACE keeps settings and alt_settings_ to interfaces and settings
\* that exist.
LEMMA SetInterfaceTyped ==
    ASSUME Inv, Typed, NEW i \in Interfaces, NEW a \in Alts, SetInterface(i, a)
    PROVE  Typed'
<1>1. LoopTypes'
  BY DEF SetInterface, Typed, LoopTypes
<1>2. alt' \in [Interfaces -> Alts] /\ hostAlt' \in [Interfaces -> Alts]
  BY DEF SetInterface, Typed, MemberTypes
<1>3. DOMAIN cache' \subseteq Interfaces /\ Range(cache') \subseteq Alts
  <2>1. CASE CacheInsert(i, a)
    BY <2>1 DEF CacheInsert, Typed, MemberTypes, Range
  <2>2. CASE UNCHANGED cache
    BY <2>2 DEF Typed, MemberTypes
  <2>3. QED
    BY <2>1, <2>2 DEF SetInterface
<1>4. failures' \in 0 .. MaxFailures
  BY FailuresAssumption DEF SetInterface, Typed, MemberTypes, Fails, Succeeds
<1>5. UNCHANGED <<autoDetach, hostConfig, keptAlts, crashed>>
  BY DEF SetInterface
<1>6. MemberTypes'
  BY <1>2, <1>3, <1>4, <1>5 DEF Typed, MemberTypes
<1>7. QED
  BY <1>1, <1>6 DEF Typed

\* The steps that leave interfaces and settings alone.
LEMMA OtherTyped ==
    ASSUME Inv, Typed,
           \/ \E c \in Configs \cup {Unconfigured} : Request(c)
           \/ Skip \/ Reconfigure \/ Reply \/ CountInterfacesCrashes \/ Close \/ LibusbClose
    PROVE  Typed'
<1>1. LoopTypes'
  BY DEF Typed, LoopTypes, Request, Skip, Reconfigure, Reply, CountInterfacesCrashes, Close,
     LibusbClose
<1>2. AllZero \in [Interfaces -> Alts]
  BY AltsAssumption DEF AllZero
<1>3. hostAlt' \in [Interfaces -> Alts] /\ hostConfig' \in Configs \cup {Unconfigured}
  BY <1>2 DEF Typed, MemberTypes, Inv, Always, Request, Skip, Reconfigure, Reply,
     CountInterfacesCrashes, Close, LibusbClose, host
<1>4. UNCHANGED <<alt, cache>>
  BY DEF Request, Skip, Reconfigure, Reply, CountInterfacesCrashes, Close, LibusbClose
<1>5. failures' \in 0 .. MaxFailures
  BY FailuresAssumption DEF Typed, MemberTypes, Request, Skip, Reconfigure, Reply,
     CountInterfacesCrashes, Close, LibusbClose, Fails
<1>6. autoDetach' \in BOOLEAN /\ {keptAlts', crashed'} \subseteq BOOLEAN
  BY DEF Typed, MemberTypes, Request, Skip, Reconfigure, Reply, CountInterfacesCrashes, Close,
     LibusbClose
<1>7. MemberTypes'
  BY <1>3, <1>4, <1>5, <1>6 DEF Typed, MemberTypes
<1>8. QED
  BY <1>1, <1>7 DEF Typed

\* The steps that set libusb's auto-detach flag.
LEMMA AutoDetachTyped ==
    ASSUME Typed, OpenAutoDetach \/ AutoDetachOff \/ AutoDetachOn
    PROVE  Typed'
<1>1. UNCHANGED <<ifc, alt, claimed, driven, cache, hostConfig, hostAlt, keptAlts, crashed>>
  BY DEF OpenAutoDetach, AutoDetachOff, AutoDetachOn, SetAutoDetach, host
<1>2. autoDetach' \in BOOLEAN
  BY DEF OpenAutoDetach, AutoDetachOff, AutoDetachOn, SetAutoDetach, Typed, MemberTypes
<1>3. failures' \in 0 .. MaxFailures
  BY FailuresAssumption DEF OpenAutoDetach, AutoDetachOff, AutoDetachOn, SetAutoDetach, Typed,
     MemberTypes, Fails, Succeeds
<1>4. QED
  BY <1>1, <1>2, <1>3 DEF Typed, LoopTypes, MemberTypes

\* The state of a proxied device is well typed: no loop over interfaces, claim or
\* alternate setting is outside of what its configurations have, and no
\* interface is claimed and driven by the kernel at once.
THEOREM TypeCorrect == Spec => []TypeOK
<1>1. Init => Typed
  BY InitTyped
<1>2. Inv /\ Typed /\ [Next]_vars => Typed'
  <2> SUFFICES ASSUME Inv, Typed, [Next]_vars
               PROVE  Typed'
    OBVIOUS
  <2>1. CASE UNCHANGED vars
    BY <2>1 DEF vars, host, Typed, LoopTypes, MemberTypes
  <2>2. CASE Open \/ Claim
    <3>1. active \in Configs
      BY <2>2 DEF Open, Claim, ClaimInterfaces, Inv, Always
    <3>2. QED
      BY <2>2, <3>1, LoopTyped DEF Open, Claim
  <2>3. CASE Release \/ CloseRelease
    <3>1. active \in Configs
      BY <2>3 DEF Release, CloseRelease, ReleaseInterfaces, Inv, Always
    <3>2. QED
      BY <2>3, <3>1, LoopTyped DEF Release, CloseRelease
  <2>4. CASE \E i \in Interfaces, a \in Alts : SetInterface(i, a)
    BY <2>4, SetInterfaceTyped
  <2>5. QED
    BY <2>1, <2>2, <2>3, <2>4, SetConfigurationTyped, AutoDetachTyped, OtherTyped
       DEF Next
<1>3. Inv /\ Typed => TypeOK
  BY DEF Inv, Always, Typed, LoopTypes, MemberTypes, TypeOK
<1>4. QED
  BY <1>1, <1>2, <1>3, InvTheorem, PTL DEF Spec
=============================================================================
