----------------------------- MODULE UnplugProofs -----------------------------
(***************************************************************************)
(* The life of a transfer in PendingMap, and with it in Unplug, for every  *)
(* set of transfers and of commands, for proxied devices and for mocks.    *)
(***************************************************************************)
EXTENDS Unplug, FiniteSetTheorems, SequenceTheorems, TLAPS

-----------------------------------------------------------------------------
(* The inductive invariant. *)

\* libusb knows nothing of the transfers of a mock, and the plugin of a
\* proxied device keeps none.
Modes ==
    /\ mock => /\ exec.pc \in {"idle", "request"}
               /\ \A t \in Transfers : handle[t] \notin {"inflight", "cancelling"}
               /\ event.pc = "erase" => event.status = "completed"
    /\ ~mock => plugin = {} /\ ~crashed

\* A transfer the executor has in hand, or the plugin, was not submitted and not
\* completed; one in the hands of the completing thread is done.
Hands ==
    /\ exec.pc = "idle" => exec.xfer = NoTransfer
    /\ exec.pc # "idle" => handle[exec.xfer] = "idle" /\ exec.xfer \notin plugin
    /\ \A t \in plugin : handle[t] = "idle"
    /\ event.pc # "wait" => handle[event.xfer] = "done"

\* What is in the map was not freed, and what is being called back is neither in
\* the map nor freed.
Owned ==
    /\ \A t \in Transfers : handle[t] = "new" => t \notin pending /\ freed[t] = 0
    /\ \A t \in pending : freed[t] = 0
    /\ \A t \in Transfers : freed[t] <= 1
    /\ event.pc = "callback" /\ ~crashed =>
           freed[event.xfer] = 0 /\ event.xfer \notin pending

\* The transfer of a proxied device is in the map until it is done, unless the
\* executor has it in hand; once it is done it is freed by the completing thread.
Proxied ==
    ~mock =>
        /\ event.pc = "erase" => event.xfer \in pending
        /\ exec.pc = "submit" \/ (exec.pc # "idle" /\ ~canceled) => exec.xfer \in pending
        /\ \A t \in Transfers :
               /\ handle[t] \in {"inflight", "cancelling"} => t \in pending
               /\ handle[t] = "idle" => /\ freed[t] = 0
                                        /\ t \in pending \/ exec.xfer = t
               /\ handle[t] = "done" => \/ freed[t] = 1
                                        \/ event.pc # "wait" /\ event.xfer = t

\* Once cancel() has seen the map empty, only what the executor attached since is
\* left, and that will be refused.
Late ==
    /\ device # "running" => canceled
    /\ device = "destroyed" => event.pc = "wait"
    /\ device \in {"clearing", "stopping", "destroyed"} /\ ~mock =>
           /\ exec.pc # "submit" /\ event.pc # "erase"
           /\ \A t \in Transfers :
                  /\ handle[t] \notin {"inflight", "cancelling"}
                  /\ t \in pending \/ handle[t] = "idle" => exec.xfer = t

Life == TypeOK /\ Modes /\ Hands /\ Owned /\ Proxied /\ Late

-----------------------------------------------------------------------------
(* Types. *)

\* What the hands of the threads hold.
LEMMA HandFacts ==
    ASSUME TypeOK
    PROVE  /\ exec = [pc |-> exec.pc, xfer |-> exec.xfer]
           /\ exec.pc \in {"idle", "request", "check", "submit"}
           /\ exec.pc # "idle" => exec.xfer \in Transfers
           /\ event = [pc |-> event.pc, xfer |-> event.xfer, status |-> event.status]
           /\ event.pc \in {"wait", "erase", "callback"}
           /\ event.pc # "wait" => event.xfer \in Transfers
           /\ ExecIdle.pc = "idle" /\ ExecIdle.xfer = NoTransfer
           /\ Waiting.pc = "wait" /\ Waiting.xfer = NoTransfer
           /\ NoTransfer \notin Transfers
           /\ handle \in [Transfers -> {"new", "idle", "inflight", "cancelling", "done"}]
           /\ freed \in [Transfers -> Nat] /\ \A t \in Transfers : freed[t] \in Nat
           /\ pending \subseteq Transfers /\ plugin \subseteq Transfers
  BY NoTransferAssumption DEF TypeOK, ExecIdle, Waiting

\* What give_away_transfer leaves.
LEMMA GiveAwayFacts ==
    ASSUME TypeOK, NEW T, GiveAway(T)
    PROVE  /\ freed' \in [Transfers -> Nat]
           /\ \A t \in Transfers : /\ t \in T => freed'[t] = freed[t] + 1
                                   /\ t \notin T => freed'[t] = freed[t]
                                   /\ freed[t] \in Nat
  BY DEF TypeOK, GiveAway

\* A step keeps the types.
LEMMA TypeStep == ASSUME TypeOK, [Next]_vars PROVE TypeOK'
<1>1. ASSUME NEW t \in Transfers, Attach(t) PROVE TypeOK'
  BY <1>1 DEF Attach, TypeOK, Check, Assertions
<1>2. CASE Request
  <2>1. /\ exec' \in [pc : {"idle", "request", "check", "submit"}, xfer : Transfers \cup {NoTransfer}]
        /\ exec'.pc # "idle" => exec'.xfer \in Transfers
        /\ plugin' \subseteq Transfers
    <3>1. CASE mock
      BY <1>2, <3>1, HandFacts DEF Request, ExecIdle
    <3>2. CASE ~mock
      BY <1>2, <3>2, HandFacts DEF Request, TypeOK
    <3>3. QED
      BY <3>1, <3>2
  <2>2. QED
    BY <1>2, <2>1 DEF Request, TypeOK
<1>3. CASE SubmitRefused
  BY <1>3, GiveAwayFacts DEF SubmitRefused, ExecIdle, TypeOK, Check, Assertions
<1>4. CASE SubmitAllowed
  BY <1>4 DEF SubmitAllowed, TypeOK
<1>5. ASSUME NEW ok \in BOOLEAN, LibusbSubmit(ok) PROVE TypeOK'
  BY <1>5 DEF LibusbSubmit, ExecIdle, TypeOK, Check, Assertions
<1>6. ASSUME NEW t \in Transfers, NEW status \in {"completed", "cancelled"}, LibusbDone(t, status)
      PROVE  TypeOK'
  BY <1>6 DEF LibusbDone, TypeOK
<1>7. ASSUME NEW t \in Transfers, PluginComplete(t) PROVE TypeOK'
  BY <1>7 DEF PluginComplete, TypeOK
<1>8. CASE EraseCancelled
  BY <1>8, GiveAwayFacts DEF EraseCancelled, Waiting, TypeOK, Check, Assertions
<1>9. CASE EraseCompleted
  BY <1>9 DEF EraseCompleted, TypeOK, Check, Assertions
<1>10. CASE Callback
  <2>1. freed' \in [Transfers -> Nat]
    BY <1>10, GiveAwayFacts DEF Callback
  <2>2. called' \in [Transfers -> Nat]
    BY <1>10, HandFacts DEF Callback, TypeOK
  <2>3. QED
    BY <1>10, <2>1, <2>2 DEF Callback, Waiting, TypeOK
<1>11. CASE Cancel
  <2>1. /\ freed' \in [Transfers -> Nat] /\ pending' \subseteq Transfers
        /\ handle' \in [Transfers -> {"new", "idle", "inflight", "cancelling", "done"}]
    <3>1. CASE mock
      BY <1>11, <3>1, GiveAwayFacts, HandFacts DEF Cancel
    <3>2. CASE ~mock
      BY <1>11, <3>2, HandFacts DEF Cancel
    <3>3. QED
      BY <3>1, <3>2
  <2>2. QED
    BY <1>11, <2>1 DEF Cancel, TypeOK
<1>12. CASE WaitForCanceled \/ Clear \/ JoinAndDestroy
  BY <1>12 DEF WaitForCanceled, Clear, JoinAndDestroy, TypeOK
<1>13. CASE UNCHANGED vars
  BY <1>13 DEF vars, TypeOK
<1>14. QED
  BY <1>1, <1>2, <1>3, <1>4, <1>5, <1>6, <1>7, <1>8, <1>9, <1>10, <1>11, <1>12, <1>13
     DEF Next, ExecutorStep, DeviceStep
-----------------------------------------------------------------------------
(* The life of a transfer, step by step. *)

\* The invariant is inductive.
LEMMA LifeStep == ASSUME Life, [Next]_vars PROVE Life'
<1> DEFINE Kept == Modes' /\ Hands' /\ Owned' /\ Proxied' /\ Late'
<1>0. TypeOK /\ TypeOK'
  BY TypeStep DEF Life
<1>1. ASSUME NEW t \in Transfers, Attach(t) PROVE Kept
  <2>1. /\ ~crashed /\ exec.pc = "idle" /\ handle[t] = "new" /\ device # "destroyed"
        /\ exec'.pc = "request" /\ exec'.xfer = t /\ pending' = pending \cup {t}
        /\ \A u \in Transfers : handle'[u] = IF u = t THEN "idle" ELSE handle[u]
        /\ UNCHANGED <<mock, canceled, plugin, event, device, freed, crashed>>
    BY <1>0, <1>1, HandFacts DEF Attach, Alive
  <2>2. Modes'
    BY <2>1, <1>0, HandFacts DEF Life, Modes, Hands
  <2>3. Hands'
    BY <2>1, <1>0, HandFacts DEF Life, Modes, Hands
  <2>4. Owned'
    BY <2>1, <1>0, HandFacts DEF Life, Modes, Hands, Owned, Proxied
  <2>5. Proxied'
    BY <2>1, <1>0, HandFacts DEF Life, Modes, Hands, Owned, Proxied, Late
  <2>6. Late'
    BY <2>1, <1>0, HandFacts DEF Life, Modes, Hands, Proxied, Late
  <2>7. QED
    BY <2>2, <2>3, <2>4, <2>5, <2>6
<1>2. ASSUME Request PROVE Kept
  <2>1. /\ exec.pc = "request" /\ ~crashed /\ device # "destroyed"
        /\ mock => plugin' = plugin \cup {exec.xfer} /\ exec'.pc = "idle" /\ exec'.xfer = NoTransfer
        /\ ~mock => plugin' = plugin /\ exec'.pc = "check" /\ exec'.xfer = exec.xfer
        /\ UNCHANGED <<mock, pending, canceled, handle, event, device, freed, crashed>>
    BY <1>0, <1>2, HandFacts DEF Request, Alive
  <2>2. Modes'
    BY <2>1, <1>0, HandFacts DEF Life, Modes, Hands
  <2>3. Hands'
    BY <2>1, <1>0, HandFacts DEF Life, Modes, Hands
  <2>4. Owned'
    BY <2>1, <1>0, HandFacts DEF Life, Modes, Hands, Owned, Proxied
  <2>5. Proxied'
    BY <2>1, <1>0, HandFacts DEF Life, Modes, Hands, Owned, Proxied, Late
  <2>6. Late'
    BY <2>1, <1>0, HandFacts DEF Life, Modes, Hands, Proxied, Late
  <2>7. QED
    BY <2>2, <2>3, <2>4, <2>5, <2>6
<1>3. ASSUME SubmitRefused PROVE Kept
  <2>1. /\ exec.pc = "check" /\ canceled /\ ~crashed /\ device # "destroyed"
        /\ exec'.pc = "idle" /\ exec'.xfer = NoTransfer /\ pending' = pending \ {exec.xfer}
        /\ \A u \in Transfers :
               /\ handle'[u] = IF u = exec.xfer THEN "done" ELSE handle[u]
               /\ freed'[u] = IF u = exec.xfer THEN freed[u] + 1 ELSE freed[u]
        /\ UNCHANGED <<mock, canceled, plugin, event, device, crashed>>
    <3>1. GiveAway({exec.xfer})
      BY <1>3 DEF SubmitRefused
    <3>2. \A u \in Transfers : freed'[u] = IF u = exec.xfer THEN freed[u] + 1 ELSE freed[u]
      BY <3>1, <1>0, GiveAwayFacts
    <3>3. QED
      BY <3>2, <1>0, <1>3, HandFacts DEF SubmitRefused, Alive
  <2>2. Modes'
    BY <2>1, <1>0, HandFacts DEF Life, Modes, Hands
  <2>3. Hands'
    BY <2>1, <1>0, HandFacts DEF Life, Modes, Hands
  <2>4. Owned'
    BY <2>1, <1>0, HandFacts DEF Life, Modes, Hands, Owned, Proxied
  <2>5. Proxied'
    BY <2>1, <1>0, HandFacts DEF Life, Modes, Hands, Owned, Proxied, Late
  <2>6. Late'
    BY <2>1, <1>0, HandFacts DEF Life, Modes, Hands, Proxied, Late
  <2>7. QED
    BY <2>2, <2>3, <2>4, <2>5, <2>6
<1>4. ASSUME SubmitAllowed PROVE Kept
  <2>1. /\ exec.pc = "check" /\ ~canceled /\ ~crashed /\ device # "destroyed"
        /\ exec'.pc = "submit" /\ exec'.xfer = exec.xfer
        /\ UNCHANGED <<mock, pending, canceled, handle, plugin, event, device, freed, crashed>>
    BY <1>0, <1>4, HandFacts DEF SubmitAllowed, Alive
  <2>2. Modes'
    BY <2>1, <1>0, HandFacts DEF Life, Modes, Hands
  <2>3. Hands'
    BY <2>1, <1>0, HandFacts DEF Life, Modes, Hands
  <2>4. Owned'
    BY <2>1, <1>0, HandFacts DEF Life, Modes, Hands, Owned, Proxied
  <2>5. Proxied'
    BY <2>1, <1>0, HandFacts DEF Life, Modes, Hands, Owned, Proxied, Late
  <2>6. Late'
    BY <2>1, <1>0, HandFacts DEF Life, Modes, Hands, Proxied, Late
  <2>7. QED
    BY <2>2, <2>3, <2>4, <2>5, <2>6
<1>5. ASSUME NEW ok \in BOOLEAN, LibusbSubmit(ok) PROVE Kept
  <2>1. /\ exec.pc = "submit" /\ ~crashed /\ device # "destroyed"
        /\ exec'.pc = "idle" /\ exec'.xfer = NoTransfer
        /\ \/ \A u \in Transfers : handle'[u] = IF u = exec.xfer THEN "inflight" ELSE handle[u]
           \/ \A u \in Transfers : handle'[u] = IF u = exec.xfer THEN "idle" ELSE handle[u]
        /\ UNCHANGED <<mock, pending, canceled, plugin, event, device, freed, crashed>>
    BY <1>0, <1>5, HandFacts DEF LibusbSubmit, Alive
  <2>2. Modes'
    BY <2>1, <1>0, HandFacts DEF Life, Modes, Hands
  <2>3. Hands'
    BY <2>1, <1>0, HandFacts DEF Life, Modes, Hands
  <2>4. Owned'
    BY <2>1, <1>0, HandFacts DEF Life, Modes, Hands, Owned, Proxied
  <2>5. Proxied'
    BY <2>1, <1>0, HandFacts DEF Life, Modes, Hands, Owned, Proxied, Late
  <2>6. Late'
    BY <2>1, <1>0, HandFacts DEF Life, Modes, Hands, Proxied, Late
  <2>7. QED
    BY <2>2, <2>3, <2>4, <2>5, <2>6
<1>6. ASSUME NEW t \in Transfers, NEW status \in {"completed", "cancelled"}, LibusbDone(t, status)
      PROVE  Kept
  <2>1. /\ event.pc = "wait" /\ handle[t] \in {"inflight", "cancelling"} /\ ~crashed /\ device # "destroyed"
        /\ event'.pc = "erase" /\ event'.xfer = t
        /\ \A u \in Transfers : handle'[u] = IF u = t THEN "done" ELSE handle[u]
        /\ UNCHANGED <<mock, pending, canceled, exec, plugin, device, freed, crashed>>
    BY <1>0, <1>6, HandFacts DEF LibusbDone, Alive
  <2>2. Modes'
    BY <2>1, <1>0, HandFacts DEF Life, Modes, Hands
  <2>3. Hands'
    BY <2>1, <1>0, HandFacts DEF Life, Modes, Hands
  <2>4. Owned'
    BY <2>1, <1>0, HandFacts DEF Life, Modes, Hands, Owned, Proxied
  <2>5. Proxied'
    BY <2>1, <1>0, HandFacts DEF Life, Modes, Hands, Owned, Proxied, Late
  <2>6. Late'
    BY <2>1, <1>0, HandFacts DEF Life, Modes, Hands, Proxied, Late
  <2>7. QED
    BY <2>2, <2>3, <2>4, <2>5, <2>6
<1>7. ASSUME NEW t \in Transfers, PluginComplete(t) PROVE Kept
  <2>1. /\ event.pc = "wait" /\ t \in plugin /\ plugin' = plugin \ {t} /\ ~crashed /\ device # "destroyed"
        /\ event'.pc = "erase" /\ event'.xfer = t /\ event'.status = "completed"
        /\ \A u \in Transfers : handle'[u] = IF u = t THEN "done" ELSE handle[u]
        /\ UNCHANGED <<mock, pending, canceled, exec, device, freed, crashed>>
    BY <1>0, <1>7, HandFacts DEF PluginComplete, Alive
  <2>2. Modes'
    BY <2>1, <1>0, HandFacts DEF Life, Modes, Hands
  <2>3. Hands'
    BY <2>1, <1>0, HandFacts DEF Life, Modes, Hands
  <2>4. Owned'
    BY <2>1, <1>0, HandFacts DEF Life, Modes, Hands, Owned, Proxied
  <2>5. Proxied'
    BY <2>1, <1>0, HandFacts DEF Life, Modes, Hands, Owned, Proxied, Late
  <2>6. Late'
    BY <2>1, <1>0, HandFacts DEF Life, Modes, Hands, Proxied, Late
  <2>7. QED
    BY <2>2, <2>3, <2>4, <2>5, <2>6
<1>8. ASSUME EraseCancelled PROVE Kept
  <2>1. /\ event.pc = "erase" /\ event.status = "cancelled" /\ ~crashed /\ device # "destroyed"
        /\ pending' = pending \ {event.xfer} /\ event'.pc = "wait"
        /\ \A u \in Transfers : freed'[u] = IF u = event.xfer THEN freed[u] + 1 ELSE freed[u]
        /\ UNCHANGED <<mock, canceled, exec, handle, plugin, device, crashed>>
    <3>1. GiveAway({event.xfer})
      BY <1>8 DEF EraseCancelled
    <3>2. \A u \in Transfers : freed'[u] = IF u = event.xfer THEN freed[u] + 1 ELSE freed[u]
      BY <3>1, <1>0, GiveAwayFacts
    <3>3. QED
      BY <3>2, <1>0, <1>8, HandFacts DEF EraseCancelled, Alive
  <2>2. Modes'
    BY <2>1, <1>0, HandFacts DEF Life, Modes, Hands
  <2>3. Hands'
    BY <2>1, <1>0, HandFacts DEF Life, Modes, Hands
  <2>4. Owned'
    BY <2>1, <1>0, HandFacts DEF Life, Modes, Hands, Owned, Proxied
  <2>5. Proxied'
    BY <2>1, <1>0, HandFacts DEF Life, Modes, Hands, Owned, Proxied, Late
  <2>6. Late'
    BY <2>1, <1>0, HandFacts DEF Life, Modes, Hands, Proxied, Late
  <2>7. QED
    BY <2>2, <2>3, <2>4, <2>5, <2>6
<1>9. ASSUME EraseCompleted PROVE Kept
  <2>1. /\ event.pc = "erase" /\ ~crashed /\ device # "destroyed"
        /\ pending' = pending \ {event.xfer} /\ (crashed' <=> event.xfer \notin pending)
        /\ event'.pc = "callback" /\ event'.xfer = event.xfer
        /\ UNCHANGED <<mock, canceled, exec, handle, plugin, device, freed>>
    BY <1>0, <1>9, HandFacts DEF EraseCompleted, Alive
  <2>2. Modes'
    BY <2>1, <1>0, HandFacts DEF Life, Modes, Hands, Proxied
  <2>3. Hands'
    BY <2>1, <1>0, HandFacts DEF Life, Modes, Hands
  <2>4. Owned'
    BY <2>1, <1>0, HandFacts DEF Life, Modes, Hands, Owned, Proxied
  <2>5. Proxied'
    BY <2>1, <1>0, HandFacts DEF Life, Modes, Hands, Owned, Proxied, Late
  <2>6. Late'
    BY <2>1, <1>0, HandFacts DEF Life, Modes, Hands, Proxied, Late
  <2>7. QED
    BY <2>2, <2>3, <2>4, <2>5, <2>6
<1>10. ASSUME Callback PROVE Kept
  <2>1. /\ event.pc = "callback" /\ ~crashed /\ device # "destroyed" /\ event'.pc = "wait"
        /\ \A u \in Transfers : freed'[u] = IF u = event.xfer THEN freed[u] + 1 ELSE freed[u]
        /\ UNCHANGED <<mock, pending, canceled, exec, handle, plugin, device, crashed>>
    BY <1>0, <1>10, HandFacts, GiveAwayFacts DEF Callback, Alive
  <2>2. Modes'
    BY <2>1, <1>0, HandFacts DEF Life, Modes, Hands
  <2>3. Hands'
    BY <2>1, <1>0, HandFacts DEF Life, Modes, Hands
  <2>4. Owned'
    BY <2>1, <1>0, HandFacts DEF Life, Modes, Hands, Owned, Proxied
  <2>5. Proxied'
    BY <2>1, <1>0, HandFacts DEF Life, Modes, Hands, Owned, Proxied, Late
  <2>6. Late'
    BY <2>1, <1>0, HandFacts DEF Life, Modes, Hands, Proxied, Late
  <2>7. QED
    BY <2>2, <2>3, <2>4, <2>5, <2>6
<1>11. ASSUME Cancel PROVE Kept
  <2>1. /\ device = "running" /\ canceled' = TRUE /\ device' = "waiting" /\ ~crashed
        /\ mock => /\ pending' = {} /\ handle' = handle
                   /\ \A u \in Transfers : freed'[u] = IF u \in pending THEN freed[u] + 1 ELSE freed[u]
        /\ ~mock => /\ pending' = pending /\ freed' = freed
                    /\ \A u \in Transfers :
                           handle'[u] = IF u \in pending /\ handle[u] = "inflight"
                                        THEN "cancelling" ELSE handle[u]
        /\ UNCHANGED <<mock, exec, plugin, event, crashed>>
    BY <1>0, <1>11, HandFacts, GiveAwayFacts DEF Cancel, Alive
  <2>2. Modes'
    BY <2>1, <1>0, HandFacts DEF Life, Modes, Hands
  <2>3. Hands'
    BY <2>1, <1>0, HandFacts DEF Life, Modes, Hands
  <2>4. Owned'
    BY <2>1, <1>0, HandFacts DEF Life, Modes, Hands, Owned, Proxied
  <2>5. Proxied'
    BY <2>1, <1>0, HandFacts DEF Life, Modes, Hands, Owned, Proxied, Late
  <2>6. Late'
    BY <2>1, <1>0, HandFacts DEF Life, Modes, Hands, Proxied, Late
  <2>7. QED
    BY <2>2, <2>3, <2>4, <2>5, <2>6
<1>12. ASSUME WaitForCanceled PROVE Kept
  <2>1. /\ device = "waiting" /\ pending = {} /\ device' = "clearing" /\ ~crashed
        /\ UNCHANGED <<mock, pending, canceled, exec, handle, plugin, event, freed, crashed>>
    BY <1>0, <1>12, HandFacts DEF WaitForCanceled, Alive
  <2>2. Modes'
    BY <2>1, <1>0, HandFacts DEF Life, Modes, Hands
  <2>3. Hands'
    BY <2>1, <1>0, HandFacts DEF Life, Modes, Hands
  <2>4. Owned'
    BY <2>1, <1>0, HandFacts DEF Life, Modes, Hands, Owned, Proxied
  <2>5. Proxied'
    BY <2>1, <1>0, HandFacts DEF Life, Modes, Hands, Owned, Proxied, Late
  <2>6. Late'
    BY <2>1, <1>0, HandFacts DEF Life, Modes, Hands, Proxied, Late
  <2>7. QED
    BY <2>2, <2>3, <2>4, <2>5, <2>6
<1>13. ASSUME Clear PROVE Kept
  <2>1. /\ device = "clearing" /\ pending' = {} /\ device' = "stopping" /\ ~crashed
        /\ UNCHANGED <<mock, canceled, exec, handle, plugin, event, freed, crashed>>
    BY <1>0, <1>13, HandFacts DEF Clear, Alive
  <2>2. Modes'
    BY <2>1, <1>0, HandFacts DEF Life, Modes, Hands
  <2>3. Hands'
    BY <2>1, <1>0, HandFacts DEF Life, Modes, Hands
  <2>4. Owned'
    BY <2>1, <1>0, HandFacts DEF Life, Modes, Hands, Owned, Proxied
  <2>5. Proxied'
    BY <2>1, <1>0, HandFacts DEF Life, Modes, Hands, Owned, Proxied, Late
  <2>6. Late'
    BY <2>1, <1>0, HandFacts DEF Life, Modes, Hands, Proxied, Late
  <2>7. QED
    BY <2>2, <2>3, <2>4, <2>5, <2>6
<1>14. ASSUME JoinAndDestroy PROVE Kept
  <2>1. /\ device = "stopping" /\ event.pc = "wait" /\ device' = "destroyed" /\ ~crashed
        /\ UNCHANGED <<mock, pending, canceled, exec, handle, plugin, event, freed, crashed>>
    BY <1>0, <1>14, HandFacts DEF JoinAndDestroy, Alive
  <2>2. Modes'
    BY <2>1, <1>0, HandFacts DEF Life, Modes, Hands
  <2>3. Hands'
    BY <2>1, <1>0, HandFacts DEF Life, Modes, Hands
  <2>4. Owned'
    BY <2>1, <1>0, HandFacts DEF Life, Modes, Hands, Owned, Proxied
  <2>5. Proxied'
    BY <2>1, <1>0, HandFacts DEF Life, Modes, Hands, Owned, Proxied, Late
  <2>6. Late'
    BY <2>1, <1>0, HandFacts DEF Life, Modes, Hands, Proxied, Late
  <2>7. QED
    BY <2>2, <2>3, <2>4, <2>5, <2>6
<1>15. ASSUME UNCHANGED vars PROVE Kept
  BY <1>15 DEF Life, Modes, Hands, Owned, Proxied, Late, vars
<1> HIDE DEF Kept
<1>16. Kept
  BY <1>1, <1>2, <1>3, <1>4, <1>5, <1>6, <1>7, <1>8, <1>9, <1>10, <1>11, <1>12, <1>13, <1>14, <1>15
     DEF Next, ExecutorStep, DeviceStep
<1>17. QED
  BY <1>0, <1>16 DEF Life, Kept
-----------------------------------------------------------------------------
(* The theorems. *)

LEMMA LifeInit == ASSUME Init PROVE Life
<1>1. TypeOK
  BY DEF Init, TypeOK, ExecIdle, Waiting
<1>2. Modes /\ Hands /\ Owned /\ Proxied /\ Late
  BY <1>1, HandFacts DEF Init, Modes, Hands, Owned, Proxied, Late
<1>3. QED
  BY <1>1, <1>2 DEF Life

\* The invariant holds of the map on its own, whatever the executor, the device
\* and the completing thread do.
THEOREM LifeTheorem == Spec => []Life
  BY LifeInit, LifeStep, PTL DEF Spec

\* A step of the pipeline, of the host or of ~basic is a step of the map, or leaves
\* it alone.
LEMMA UnplugStep == ASSUME [UnplugNext]_allVars PROVE [Next]_vars
<1>1. CASE \/ \E kind \in Kinds : Send(kind)
           \/ Produce \/ ProducerEnds \/ FeederThread \/ WriterThread \/ DeviceReplies
           \/ \E i \in DOMAIN Threads : SeesStop(Threads[i])
  BY <1>1 DEF Send, Produce, ProducerEnds, FeederThread, Feed, FeederEnds, WriterThread, Write,
     WriterEnds, DeviceReplies, QueueReply, SeesStop
<1>2. CASE ExecutorThread
  <2>1. CASE Pull \/ ExecutorEnds \/ EndTransfer \/ CallDevice \/ Unlink \/ UseDestroyed
    BY <2>1 DEF Pull, ExecutorEnds, EndTransfer, CallDevice, Unlink, QueueReply, UseDestroyed
  <2>2. CASE (\E t \in Transfers : StartTransfer(t)) \/ Submit
    BY <2>2 DEF StartTransfer, Submit, Next
  <2>3. QED
    BY <1>2, <2>1, <2>2 DEF ExecutorThread
<1>3. CASE \E t \in Transfers, status \in {"completed", "cancelled"} : Quiet(LibusbDone(t, status))
  BY <1>3 DEF Quiet, Next
<1>4. CASE \E t \in Transfers : Quiet(PluginComplete(t))
  BY <1>4 DEF Quiet, Next
<1>5. CASE EventThread
  BY <1>5 DEF EventThread, Quiet, Complete, Next
<1>6. CASE Quiet(Cancel)
  BY <1>6 DEF Quiet, Next
<1>7. CASE Destructors
  BY <1>7 DEF Destructors, Quiet, CloseNext, RequestStop, Join, Next
<1>8. CASE UNCHANGED allVars
  BY <1>8 DEF allVars
<1>9. QED
  BY <1>1, <1>2, <1>3, <1>4, <1>5, <1>6, <1>7, <1>8 DEF UnplugNext

\* The end of a device implements the map: the pipeline around it and the two
\* destructors add nothing to what may happen to a transfer.
THEOREM UnplugImplementsPendingMap == UnplugSpec => Spec
<1>1. UnplugInit => Init
  BY DEF UnplugInit
<1>2. QED
  BY <1>1, UnplugStep, PTL DEF UnplugSpec, Spec

\* A transfer is freed once.
THEOREM FreedOnceTheorem == UnplugSpec => []FreedOnce
<1>1. Life => FreedOnce
  BY DEF Life, Owned, FreedOnce
<1>2. QED
  BY <1>1, LifeTheorem, UnplugImplementsPendingMap, PTL

\* Memory libusb still writes to is never freed.
THEOREM NotFreedInFlightTheorem == UnplugSpec => []NotFreedInFlight
<1>1. Life => NotFreedInFlight
  BY DEF Life, Modes, Owned, Proxied, NotFreedInFlight
<1>2. QED
  BY <1>1, LifeTheorem, UnplugImplementsPendingMap, PTL

\* When cancel() has returned libusb has nothing left.
THEOREM CancelQuiescesTheorem == UnplugSpec => []CancelQuiesces
<1>1. Life => CancelQuiesces
  BY DEF Life, Modes, Late, CancelQuiesces
<1>2. QED
  BY <1>1, LifeTheorem, UnplugImplementsPendingMap, PTL

\* When a proxied device goes away every transfer has been freed but the one the
\* executor has in hand.
THEOREM NothingLeakedTheorem == UnplugSpec => []NothingLeaked
<1>1. Life => NothingLeaked
  <2> SUFFICES ASSUME Life, device = "destroyed", ~mock, NEW t \in Transfers, t # exec.xfer,
                      handle[t] # "new"
               PROVE  freed[t] = 1
    BY DEF NothingLeaked
  <2>1. handle[t] \in {"idle", "inflight", "cancelling", "done"} /\ event.pc = "wait"
    BY HandFacts DEF Life, Late
  <2>2. handle[t] = "done"
    BY <2>1 DEF Life, Late
  <2>3. QED
    BY <2>1, <2>2 DEF Life, Proxied
<1>2. QED
  BY <1>1, LifeTheorem, UnplugImplementsPendingMap, PTL

\* The completing thread of a proxied device always finds the entry of its transfer,
\* however unplugging and submitting race with it: a proxied device has none of the
\* undefined behaviour of a mock.
THEOREM ProxiedFindsEntryTheorem == UnplugSpec => []ProxiedFindsEntry
<1> DEFINE Missing == {"completed transfer is pending", "cancelled transfer is pending"}
<1> DEFINE Found == ~mock => asserts \cap Missing = {}
<1>1. Init => Found
  BY DEF Init
<1>2. Life /\ Found /\ [Next]_vars => Found'
  <2> SUFFICES ASSUME Life, Found, [Next]_vars, ~mock' PROVE asserts' \cap Missing = {}
    OBVIOUS
  <2>1. mock' = mock
    BY DEF Next, Attach, ExecutorStep, Request, SubmitRefused, SubmitAllowed,
       LibusbSubmit, LibusbDone, PluginComplete, EraseCancelled, EraseCompleted, Callback, Cancel,
       DeviceStep, WaitForCanceled, Clear, JoinAndDestroy, vars
  <2>2. ~mock /\ asserts \cap Missing = {}
    BY <2>1
  <2>3. CASE EraseCompleted \/ EraseCancelled
    <3>1. event.xfer \in pending
      BY <2>2, <2>3 DEF EraseCompleted, EraseCancelled, Life, Proxied
    <3>2. asserts' = asserts
      BY <2>3, <3>1 DEF EraseCompleted, EraseCancelled, Check
    <3>3. QED
      BY <2>2, <3>2
  <2>4. CASE ~(EraseCompleted \/ EraseCancelled)
    <3>1. asserts' \subseteq asserts \cup (Assertions \ Missing)
      BY <2>4 DEF Next, Attach, ExecutorStep, Request, SubmitRefused, SubmitAllowed,
         LibusbSubmit, LibusbDone, PluginComplete, Callback, Cancel,
         DeviceStep, WaitForCanceled, Clear, JoinAndDestroy, vars, Check, Assertions
    <3>2. QED
      BY <2>2, <3>1
  <2>5. QED
    BY <2>3, <2>4
<1>3. Life /\ Found => ProxiedFindsEntry
  BY DEF Life, Modes, ProxiedFindsEntry
<1>4. Spec => []Found
  <2> HIDE DEF Found
  <2>1. QED
    BY <1>1, <1>2, LifeTheorem, PTL DEF Spec
<1> HIDE DEF Found
<1>5. QED
  BY <1>3, <1>4, LifeTheorem, UnplugImplementsPendingMap, PTL
-----------------------------------------------------------------------------
(* Commands, data and replies are conserved. *)

\* The transfers whose callback has not run.
Under == {t \in Transfers : handle[t] # "new" /\ called[t] = 0}

\* IN and OUT transfers among them.
InWay == Cardinality(Under \ outs)
OutWay == Cardinality(Under \cap outs)

\* What the transfer thread and the executor have in hand: an IN command, its data, an
\* IN command whose transfer is being submitted, and a command that is neither
\* answered nor turned into a transfer.
HasCommand == IF feeder = "command" THEN 0 ELSE 1
HasData == IF feeder = "reply" THEN 1 ELSE 0
Submitting == IF hand = "submitting in" THEN 1 ELSE 0
InHand == IF hand \in {"none", "submitting in", "submitting out"} THEN 0 ELSE 1

\* IN transfers that were not yet given to the host: under way, in in_data_, or in
\* the hands of the transfer thread.
InDue == InWay + inData + HasData

\* A callback that ran was followed by the freeing of its transfer, once.
Counted ==
    /\ IsFiniteSet(Under)
    /\ outs \subseteq Transfers
    /\ \A t \in outs : handle[t] # "new"
    /\ \A t \in Transfers : called[t] <= freed[t]

\* The types of the queues, of what the threads have in hand, of the counters, and of
\* what the destructors keep.
QueueTypes == inbox \in Seq(Kinds) /\ commands \in Seq(Kinds)

HandTypes ==
    /\ hand \in Kinds \cup {"none", "submitting in", "submitting out", "calling"}
    /\ feeder \in {"command", "data", "reply"}

CountTypes ==
    /\ sent \in 0 .. MaxCommands
    /\ inCommands \in Nat /\ inData \in Nat /\ replies \in Nat /\ answered \in Nat

PipelineTypes == QueueTypes /\ HandTypes /\ CountTypes

EndTypes ==
    /\ gone \subseteq {Threads[i] : i \in 1 .. 4}
    /\ closing \in 0 .. 5 /\ stopping \in 0 .. 4 /\ joined \in 0 .. 4
    /\ terminated \in BOOLEAN

\* Every IN command in the pipeline has a transfer of its own that is still due,
\* and everything the host is still to get or has got is due to a command of its.
Flow ==
    /\ inCommands + HasCommand + Submitting <= InDue
    /\ Len(inbox) + Len(commands) + InHand + OutWay + InDue + replies + answered <= sent

UnplugInv == Life /\ Counted /\ PipelineTypes /\ EndTypes /\ Flow

\* A queue, and what is left when an element is added or taken.
LEMMA QueueFacts ==
    ASSUME NEW S, NEW q \in Seq(S)
    PROVE  /\ Len(q) \in Nat
           /\ \A e \in S : Append(q, e) \in Seq(S) /\ Len(Append(q, e)) = Len(q) + 1
           /\ q # <<>> => Head(q) \in S /\ Tail(q) \in Seq(S) /\ Len(Tail(q)) = Len(q) - 1
  OBVIOUS

\* What is counted are numbers.
LEMMA Numbers ==
    ASSUME UnplugInv
    PROVE  /\ IsFiniteSet(Under \ outs) /\ IsFiniteSet(Under \cap outs)
           /\ InWay \in Nat /\ OutWay \in Nat
           /\ HasCommand \in {0, 1} /\ HasData \in {0, 1}
           /\ Submitting \in {0, 1} /\ InHand \in {0, 1}
           /\ Len(inbox) \in Nat /\ Len(commands) \in Nat
           /\ inCommands \in Nat /\ inData \in Nat /\ replies \in Nat /\ answered \in Nat
           /\ sent \in Nat /\ MaxCommands \in Nat /\ sent <= MaxCommands
<1>1. IsFiniteSet(Under \ outs) /\ IsFiniteSet(Under \cap outs)
  BY FS_Subset DEF UnplugInv, Counted
<1>2. InWay \in Nat /\ OutWay \in Nat
  BY <1>1, FS_CardinalityType DEF InWay, OutWay
<1>3. HasCommand \in {0, 1} /\ HasData \in {0, 1} /\ Submitting \in {0, 1} /\ InHand \in {0, 1}
  BY DEF HasCommand, HasData, Submitting, InHand
<1>4. Len(inbox) \in Nat /\ Len(commands) \in Nat
  BY QueueFacts DEF UnplugInv, PipelineTypes, QueueTypes
<1>5. CountTypes
  BY DEF UnplugInv, PipelineTypes
<1>6. QED
  BY <1>1, <1>2, <1>3, <1>4, <1>5, MaxCommandsAssumption DEF CountTypes

\* The steps of the map other than Attach and Callback.
Elsewhere ==
    \/ ExecutorStep
    \/ \E t \in Transfers, status \in {"completed", "cancelled"} : LibusbDone(t, status)
    \/ \E t \in Transfers : PluginComplete(t)
    \/ EraseCancelled \/ EraseCompleted
    \/ Cancel
    \/ DeviceStep
    \/ UNCHANGED vars

\* Attaching a transfer puts it, and only it, under way.
LEMMA AttachUnder ==
    ASSUME Life, Counted, NEW t \in Transfers, Attach(t)
    PROVE  /\ t \notin Under /\ t \notin outs /\ Under' = Under \cup {t}
           /\ \A u \in Transfers : handle[u] # "new" => handle'[u] # "new"
           /\ handle'[t] # "new" /\ UNCHANGED <<called, freed>>
<1>1. /\ handle[t] = "new" /\ handle \in [Transfers -> {"new", "idle", "inflight", "cancelling", "done"}]
      /\ handle' = [handle EXCEPT ![t] = "idle"] /\ UNCHANGED <<called, freed>>
  BY DEF Attach, Life, TypeOK
<1>2. called[t] = 0
  BY <1>1 DEF Life, Owned, TypeOK, Counted
<1>3. QED
  BY <1>1, <1>2 DEF Under, Counted

\* The callback of a transfer takes it, and only it, out of what is under way.
LEMMA CallbackUnder ==
    ASSUME Life, Counted, Callback
    PROVE  /\ event.xfer \in Under /\ Under' = Under \ {event.xfer}
           /\ UNCHANGED handle
           /\ \A u \in Transfers : called'[u] <= freed'[u]
<1>1. /\ event.xfer \in Transfers /\ handle[event.xfer] = "done" /\ freed[event.xfer] = 0
      /\ called \in [Transfers -> Nat] /\ freed \in [Transfers -> Nat]
      /\ called' = [called EXCEPT ![event.xfer] = called[event.xfer] + 1]
      /\ freed' = [u \in Transfers |-> IF u = event.xfer THEN freed[u] + 1 ELSE freed[u]]
      /\ UNCHANGED handle
  BY DEF Callback, GiveAway, Alive, Life, TypeOK, Hands, Owned
<1>2. called[event.xfer] = 0
  BY <1>1 DEF Counted
<1>3. QED
  BY <1>1, <1>2 DEF Under, Counted

\* No other step of the map changes what is under way.
LEMMA OtherUnder ==
    ASSUME Life, Counted, Elsewhere
    PROVE  /\ Under' = Under
           /\ \A u \in Transfers : handle[u] # "new" => handle'[u] # "new"
           /\ \A u \in Transfers : called'[u] <= freed'[u]
<1>1. /\ called \in [Transfers -> Nat] /\ freed \in [Transfers -> Nat]
      /\ handle \in [Transfers -> {"new", "idle", "inflight", "cancelling", "done"}]
      /\ \A u \in Transfers : called[u] <= freed[u]
      /\ \A u \in plugin : u \in Transfers /\ handle[u] = "idle"
  BY DEF Life, TypeOK, Counted, Hands
<1>2. UNCHANGED called
  BY DEF Elsewhere, ExecutorStep, Request, SubmitRefused, SubmitAllowed, LibusbSubmit, LibusbDone,
     PluginComplete, EraseCancelled, EraseCompleted, Cancel, DeviceStep, WaitForCanceled, Clear,
     JoinAndDestroy, vars
<1>3. \A u \in Transfers : freed'[u] >= freed[u] /\ freed'[u] \in Nat
  <2>1. CASE UNCHANGED freed
    BY <1>1, <2>1
  <2>2. CASE \E T : GiveAway(T)
    BY <1>1, <2>2 DEF GiveAway
  <2>3. QED
    BY <2>1, <2>2 DEF Elsewhere, ExecutorStep, Request, SubmitRefused, SubmitAllowed, LibusbSubmit,
       LibusbDone, PluginComplete, EraseCancelled, EraseCompleted, Cancel, DeviceStep,
       WaitForCanceled, Clear, JoinAndDestroy, vars
<1>4. \A u \in Transfers : handle[u] # "new" <=> handle'[u] # "new"
  <2>1. CASE ExecutorStep
    <3>1. exec.pc # "idle" => exec.xfer \in Transfers /\ handle[exec.xfer] = "idle"
      BY DEF Life, TypeOK, Hands
    <3>2. QED
      BY <2>1, <3>1, <1>1 DEF ExecutorStep, Request, SubmitRefused, SubmitAllowed, LibusbSubmit
  <2>2. CASE \/ \E t \in Transfers, status \in {"completed", "cancelled"} : LibusbDone(t, status)
             \/ \E t \in Transfers : PluginComplete(t)
    BY <2>2, <1>1 DEF LibusbDone, PluginComplete
  <2>3. CASE Cancel
    BY <2>3, <1>1 DEF Cancel
  <2>4. CASE UNCHANGED handle
    BY <2>4
  <2>5. QED
    BY <2>1, <2>2, <2>3, <2>4 DEF Elsewhere, EraseCancelled, EraseCompleted, DeviceStep,
       WaitForCanceled, Clear, JoinAndDestroy, vars
<1>5. QED
  BY <1>1, <1>2, <1>3, <1>4 DEF Under

\* The steps of the pipeline's own threads, which leave the map alone.
LEMMA PipelineFlow ==
    ASSUME UnplugInv, UNCHANGED vars, UNCHANGED outs,
           \/ \E kind \in Kinds : Send(kind)
           \/ Produce \/ Pull \/ EndTransfer \/ CallDevice \/ Unlink \/ DeviceReplies
           \/ Feed \/ Write
    PROVE  Counted' /\ PipelineTypes' /\ Flow'
<1>1. Counted' /\ InWay' = InWay /\ OutWay' = OutWay
  <2>1. Under' = Under
    BY DEF Under, vars
  <2>2. QED
    BY <2>1 DEF Counted, UnplugInv, InWay, OutWay, vars
<1>2. /\ InWay \in Nat /\ OutWay \in Nat
      /\ HasCommand \in {0, 1} /\ HasData \in {0, 1}
      /\ Submitting \in {0, 1} /\ InHand \in {0, 1}
      /\ Len(inbox) \in Nat /\ Len(commands) \in Nat
      /\ inCommands \in Nat /\ inData \in Nat /\ replies \in Nat /\ answered \in Nat
      /\ sent \in Nat /\ MaxCommands \in Nat /\ sent <= MaxCommands
  BY Numbers
<1>3. QueueTypes /\ HandTypes /\ CountTypes
  BY DEF UnplugInv, PipelineTypes
<1>4. Flow
  BY DEF UnplugInv
<1>5. CASE \E kind \in Kinds : Send(kind)
  <2>1. /\ sent < MaxCommands /\ sent' = sent + 1
        /\ inbox' \in Seq(Kinds) /\ Len(inbox') = Len(inbox) + 1
        /\ UNCHANGED <<commands, hand, inCommands, inData, replies, answered, feeder>>
    <3>1. PICK kind \in Kinds : Send(kind)
      BY <1>5
    <3>2. inbox' = Append(inbox, kind) /\ inbox \in Seq(Kinds)
      BY <1>3, <3>1 DEF Send, QueueTypes
    <3>3. inbox' \in Seq(Kinds) /\ Len(inbox') = Len(inbox) + 1
      BY <3>2, QueueFacts
    <3>4. QED
      BY <3>1, <3>3 DEF Send
  <2>2. /\ HasCommand' = HasCommand /\ HasData' = HasData
        /\ Submitting' = Submitting /\ InHand' = InHand
    BY <2>1 DEF HasCommand, HasData, Submitting, InHand, Kinds
  <2>3. PipelineTypes'
    <3>1. QueueTypes'
      BY <1>3, <2>1 DEF QueueTypes
    <3>2. HandTypes'
      BY <1>3, <2>1 DEF HandTypes, Kinds
    <3>3. CountTypes'
      BY <1>2, <1>3, <2>1, <2>2 DEF CountTypes
    <3>4. QED
      BY <3>1, <3>2, <3>3 DEF PipelineTypes
  <2>4. Flow'
    BY <1>1, <1>2, <1>4, <2>1, <2>2 DEF Flow, InDue
  <2>5. QED
    BY <1>1, <2>3, <2>4
<1>6. CASE Produce
  <2>1. /\ inbox' \in Seq(Kinds) /\ Len(inbox') = Len(inbox) - 1
        /\ commands' \in Seq(Kinds) /\ Len(commands') \in {Len(commands), Len(commands) + 1}
        /\ UNCHANGED <<sent, hand, inCommands, inData, replies, answered, feeder>>
    <3>1. inbox \in Seq(Kinds) /\ commands \in Seq(Kinds) /\ inbox # <<>> /\ inbox' = Tail(inbox)
      BY <1>3, <1>6 DEF Produce, QueueTypes
    <3>2. Head(inbox) \in Kinds /\ inbox' \in Seq(Kinds) /\ Len(inbox') = Len(inbox) - 1
      BY <3>1, QueueFacts
    <3>3. commands' \in {commands, Append(commands, Head(inbox))}
      BY <1>6 DEF Produce
    <3>4. commands' \in Seq(Kinds) /\ Len(commands') \in {Len(commands), Len(commands) + 1}
      <4>1. CASE commands' = commands
        BY <3>1, <4>1
      <4>2. CASE commands' = Append(commands, Head(inbox))
        BY <3>1, <3>2, <4>2, QueueFacts
      <4>3. QED
        BY <3>3, <4>1, <4>2
    <3>5. QED
      BY <1>6, <3>2, <3>4 DEF Produce
  <2>2. /\ HasCommand' = HasCommand /\ HasData' = HasData
        /\ Submitting' = Submitting /\ InHand' = InHand
    BY <2>1 DEF HasCommand, HasData, Submitting, InHand, Kinds
  <2>3. PipelineTypes'
    <3>1. QueueTypes'
      BY <1>3, <2>1 DEF QueueTypes
    <3>2. HandTypes'
      BY <1>3, <2>1 DEF HandTypes, Kinds
    <3>3. CountTypes'
      BY <1>2, <1>3, <2>1, <2>2 DEF CountTypes
    <3>4. QED
      BY <3>1, <3>2, <3>3 DEF PipelineTypes
  <2>4. Flow'
    BY <1>1, <1>2, <1>4, <2>1, <2>2 DEF Flow, InDue
  <2>5. QED
    BY <1>1, <2>3, <2>4
<1>7. CASE Pull
  <2>1. /\ hand = "none" /\ hand' \in Kinds
        /\ commands' \in Seq(Kinds) /\ Len(commands') = Len(commands) - 1
        /\ UNCHANGED <<inbox, sent, inCommands, inData, replies, answered, feeder>>
    <3>1. commands \in Seq(Kinds) /\ commands # <<>> /\ hand' = Head(commands)
          /\ commands' = Tail(commands)
      BY <1>3, <1>7 DEF Pull, QueueTypes
    <3>2. hand' \in Kinds /\ commands' \in Seq(Kinds) /\ Len(commands') = Len(commands) - 1
      BY <3>1, QueueFacts
    <3>3. QED
      BY <1>7, <3>2 DEF Pull
  <2>2. /\ HasCommand' = HasCommand /\ HasData' = HasData
        /\ Submitting' = 0 /\ InHand = 0 /\ InHand' = 1
    BY <2>1 DEF HasCommand, HasData, Submitting, InHand, Kinds
  <2>3. PipelineTypes'
    <3>1. QueueTypes'
      BY <1>3, <2>1 DEF QueueTypes
    <3>2. HandTypes'
      BY <1>3, <2>1 DEF HandTypes, Kinds
    <3>3. CountTypes'
      BY <1>2, <1>3, <2>1, <2>2 DEF CountTypes
    <3>4. QED
      BY <3>1, <3>2, <3>3 DEF PipelineTypes
  <2>4. Flow'
    BY <1>1, <1>2, <1>4, <2>1, <2>2 DEF Flow, InDue
  <2>5. QED
    BY <1>1, <2>3, <2>4
<1>8. CASE EndTransfer
  <2>1. /\ hand \in {"submitting in", "submitting out"} /\ hand' = "none"
        /\ inCommands' = inCommands \/ inCommands' = inCommands + Submitting
        /\ UNCHANGED <<inbox, sent, commands, inData, replies, answered, feeder>>
    BY <1>3, <1>8 DEF EndTransfer, Submitting
  <2>2. /\ HasCommand' = HasCommand /\ HasData' = HasData
        /\ Submitting' = 0 /\ InHand = 0 /\ InHand' = 0
    BY <2>1 DEF HasCommand, HasData, Submitting, InHand, Kinds
  <2>3. PipelineTypes'
    <3>1. QueueTypes'
      BY <1>3, <2>1 DEF QueueTypes
    <3>2. HandTypes'
      BY <1>3, <2>1 DEF HandTypes, Kinds
    <3>3. CountTypes'
      <4>1. inCommands' = inCommands \/ inCommands' = inCommands + Submitting
        BY <2>1
      <4>2. inCommands' \in Nat
        BY <1>2, <4>1
      <4>3. QED
        BY <1>3, <2>1, <4>2 DEF CountTypes
    <3>4. QED
      BY <3>1, <3>2, <3>3 DEF PipelineTypes
  <2>4. Flow'
    <3>1. inCommands' + HasCommand' + Submitting' <= InDue'
      <4>1. /\ inCommands' = inCommands \/ inCommands' = inCommands + Submitting
            /\ inData' = inData
        BY <2>1
      <4>2. QED
        BY <1>1, <1>2, <1>4, <2>2, <4>1 DEF Flow, InDue
    <3>2. /\ Len(inbox') = Len(inbox) /\ Len(commands') = Len(commands) /\ InDue' = InDue
          /\ UNCHANGED <<replies, answered, sent>>
      BY <1>1, <2>1, <2>2 DEF InDue
    <3>3. QED
      BY <1>1, <1>4, <2>2, <3>1, <3>2 DEF Flow
  <2>5. QED
    BY <1>1, <2>3, <2>4
<1>9. CASE CallDevice
  <2>1. /\ hand = "control" /\ hand' = "calling"
        /\ UNCHANGED <<inbox, sent, commands, inCommands, inData, replies, answered, feeder>>
    BY <1>3, <1>9 DEF CallDevice
  <2>2. /\ HasCommand' = HasCommand /\ HasData' = HasData
        /\ Submitting' = 0 /\ InHand = 1 /\ InHand' = 1
    BY <2>1 DEF HasCommand, HasData, Submitting, InHand, Kinds
  <2>3. PipelineTypes'
    <3>1. QueueTypes'
      BY <1>3, <2>1 DEF QueueTypes
    <3>2. HandTypes'
      BY <1>3, <2>1 DEF HandTypes, Kinds
    <3>3. CountTypes'
      BY <1>2, <1>3, <2>1, <2>2 DEF CountTypes
    <3>4. QED
      BY <3>1, <3>2, <3>3 DEF PipelineTypes
  <2>4. Flow'
    BY <1>1, <1>2, <1>4, <2>1, <2>2 DEF Flow, InDue
  <2>5. QED
    BY <1>1, <2>3, <2>4
<1>10. CASE Unlink \/ DeviceReplies
  <2>1. /\ hand \in {"unlink", "calling"} /\ hand' = "none"
        /\ replies' \in {replies, replies + 1}
        /\ UNCHANGED <<inbox, sent, commands, inCommands, inData, answered, feeder>>
    BY <1>3, <1>10 DEF Unlink, DeviceReplies, QueueReply
  <2>2. /\ HasCommand' = HasCommand /\ HasData' = HasData
        /\ Submitting' = 0 /\ InHand = 1 /\ InHand' = 0
    BY <2>1 DEF HasCommand, HasData, Submitting, InHand, Kinds
  <2>3. PipelineTypes'
    <3>1. QueueTypes'
      BY <1>3, <2>1 DEF QueueTypes
    <3>2. HandTypes'
      BY <1>3, <2>1 DEF HandTypes, Kinds
    <3>3. CountTypes'
      BY <1>2, <1>3, <2>1, <2>2 DEF CountTypes
    <3>4. QED
      BY <3>1, <3>2, <3>3 DEF PipelineTypes
  <2>4. Flow'
    BY <1>1, <1>2, <1>4, <2>1, <2>2 DEF Flow, InDue
  <2>5. QED
    BY <1>1, <2>3, <2>4
<1>11. CASE Write
  <2>1. /\ replies > 0 /\ replies' = replies - 1 /\ answered' = answered + 1
        /\ UNCHANGED <<inbox, sent, commands, hand, inCommands, inData, feeder>>
    BY <1>3, <1>11 DEF Write
  <2>2. /\ HasCommand' = HasCommand /\ HasData' = HasData
        /\ Submitting' = Submitting /\ InHand' = InHand
    BY <2>1 DEF HasCommand, HasData, Submitting, InHand, Kinds
  <2>3. PipelineTypes'
    <3>1. QueueTypes'
      BY <1>3, <2>1 DEF QueueTypes
    <3>2. HandTypes'
      BY <1>3, <2>1 DEF HandTypes, Kinds
    <3>3. CountTypes'
      BY <1>2, <1>3, <2>1, <2>2 DEF CountTypes
    <3>4. QED
      BY <3>1, <3>2, <3>3 DEF PipelineTypes
  <2>4. Flow'
    BY <1>1, <1>2, <1>4, <2>1, <2>2 DEF Flow, InDue
  <2>5. QED
    BY <1>1, <2>3, <2>4
<1>12. CASE Feed
  <2>1. UNCHANGED <<inbox, sent, commands, hand, answered>> /\ Submitting' = Submitting /\ InHand' = InHand
    BY <1>12 DEF Feed, Submitting, InHand
  <2>2. \/ /\ HasCommand = 0 /\ HasCommand' = 1 /\ HasData = 0 /\ HasData' = 0
           /\ inCommands > 0 /\ inCommands' = inCommands - 1 /\ UNCHANGED <<inData, replies>>
        \/ /\ HasCommand = 1 /\ HasCommand' = 1 /\ HasData = 0 /\ HasData' = 1
           /\ inData > 0 /\ inData' = inData - 1 /\ UNCHANGED <<inCommands, replies>>
        \/ /\ HasCommand = 1 /\ HasCommand' = 0 /\ HasData = 1 /\ HasData' = 0
           /\ replies' = replies + 1 /\ UNCHANGED <<inCommands, inData>>
    BY <1>12 DEF Feed, HasCommand, HasData
  <2>3. feeder' \in {"command", "data", "reply"}
    BY <1>12 DEF Feed
  <2>4. PipelineTypes'
    <3>1. QueueTypes'
      BY <1>3, <2>1 DEF QueueTypes
    <3>2. HandTypes'
      BY <1>3, <2>1, <2>3 DEF HandTypes
    <3>3. CountTypes'
      BY <1>2, <1>3, <2>1, <2>2 DEF CountTypes
    <3>4. QED
      BY <3>1, <3>2, <3>3 DEF PipelineTypes
  <2>5. Flow'
    <3>1. CASE /\ HasCommand = 0 /\ HasCommand' = 1 /\ HasData = 0 /\ HasData' = 0
               /\ inCommands > 0 /\ inCommands' = inCommands - 1 /\ UNCHANGED <<inData, replies>>
      BY <1>1, <1>2, <1>4, <2>1, <3>1 DEF Flow, InDue
    <3>2. CASE /\ HasCommand = 1 /\ HasCommand' = 1 /\ HasData = 0 /\ HasData' = 1
               /\ inData > 0 /\ inData' = inData - 1 /\ UNCHANGED <<inCommands, replies>>
      BY <1>1, <1>2, <1>4, <2>1, <3>2 DEF Flow, InDue
    <3>3. CASE /\ HasCommand = 1 /\ HasCommand' = 0 /\ HasData = 1 /\ HasData' = 0
               /\ replies' = replies + 1 /\ UNCHANGED <<inCommands, inData>>
      BY <1>1, <1>2, <1>4, <2>1, <3>3 DEF Flow, InDue
    <3>4. QED
      BY <2>2, <3>1, <3>2, <3>3
  <2>6. QED
    BY <1>1, <2>4, <2>5
<1>13. QED
  BY <1>5, <1>6, <1>7, <1>8, <1>9, <1>10, <1>11, <1>12

\* A command becomes a transfer.
LEMMA StartFlow ==
    ASSUME UnplugInv, NEW t \in Transfers, StartTransfer(t)
    PROVE  Counted' /\ PipelineTypes' /\ Flow'
<1>1. /\ t \notin Under /\ t \notin outs /\ Under' = Under \cup {t}
      /\ \A u \in Transfers : handle[u] # "new" => handle'[u] # "new"
      /\ handle'[t] # "new" /\ UNCHANGED <<called, freed>>
  BY AttachUnder DEF UnplugInv, StartTransfer
<1>2. /\ hand \in {"in", "out"}
      /\ hand' = IF hand = "in" THEN "submitting in" ELSE "submitting out"
      /\ outs' = IF hand = "out" THEN outs \cup {t} ELSE outs
      /\ UNCHANGED <<inbox, sent, commands, inCommands, inData, replies, answered, feeder>>
  BY DEF StartTransfer
<1>3. Counted'
  <2>1. IsFiniteSet(Under')
    BY <1>1, FS_AddElement DEF UnplugInv, Counted
  <2>2. QED
    BY <1>1, <1>2, <2>1 DEF UnplugInv, Counted
<1>4. /\ IsFiniteSet(Under \ outs) /\ IsFiniteSet(Under \cap outs)
      /\ InWay \in Nat /\ OutWay \in Nat
      /\ HasCommand \in {0, 1} /\ HasData \in {0, 1}
      /\ Submitting \in {0, 1} /\ InHand \in {0, 1}
      /\ Len(inbox) \in Nat /\ Len(commands) \in Nat
      /\ inCommands \in Nat /\ inData \in Nat /\ replies \in Nat /\ answered \in Nat
      /\ sent \in Nat
  BY Numbers
<1>5. /\ InWay' = IF hand = "in" THEN InWay + 1 ELSE InWay
      /\ OutWay' = IF hand = "in" THEN OutWay ELSE OutWay + 1
  <2>1. CASE hand = "in"
    <3>1. (Under \ outs)' = (Under \ outs) \cup {t} /\ (Under \cap outs)' = Under \cap outs
      BY <1>1, <1>2, <2>1
    <3>2. QED
      BY <1>1, <1>4, <2>1, <3>1, FS_AddElement DEF InWay, OutWay
  <2>2. CASE hand = "out"
    <3>1. (Under \ outs)' = Under \ outs /\ (Under \cap outs)' = (Under \cap outs) \cup {t}
      BY <1>1, <1>2, <2>2
    <3>2. QED
      BY <1>1, <1>4, <2>2, <3>1, FS_AddElement DEF InWay, OutWay
  <2>3. QED
    BY <1>2, <2>1, <2>2
<1>6. PipelineTypes'
  <2>1. QueueTypes'
    BY <1>2 DEF UnplugInv, PipelineTypes, QueueTypes
  <2>2. HandTypes'
    BY <1>2 DEF UnplugInv, PipelineTypes, HandTypes
  <2>3. CountTypes'
    BY <1>2, <1>4 DEF UnplugInv, PipelineTypes, CountTypes
  <2>4. QED
    BY <2>1, <2>2, <2>3 DEF PipelineTypes
<1>7. Flow'
  <2>1. /\ HasCommand' = HasCommand /\ HasData' = HasData /\ InHand = 1 /\ InHand' = 0
        /\ Submitting = 0 /\ Submitting' = IF hand = "in" THEN 1 ELSE 0
    BY <1>2 DEF HasCommand, HasData, Submitting, InHand
  <2>2. Flow
    BY DEF UnplugInv
  <2>3. CASE hand = "in"
    <3>1. /\ InWay' = InWay + 1 /\ OutWay' = OutWay /\ Submitting' = 1
          /\ HasCommand' = HasCommand /\ HasData' = HasData /\ InHand = 1 /\ InHand' = 0
          /\ Submitting = 0
          /\ UNCHANGED <<inbox, sent, commands, inCommands, inData, replies, answered>>
      BY <1>2, <1>5, <2>1, <2>3
    <3>2. QED
      BY <1>4, <2>2, <3>1 DEF Flow, InDue
  <2>4. CASE hand = "out"
    <3>1. /\ InWay' = InWay /\ OutWay' = OutWay + 1 /\ Submitting' = 0
          /\ HasCommand' = HasCommand /\ HasData' = HasData /\ InHand = 1 /\ InHand' = 0
          /\ Submitting = 0
          /\ UNCHANGED <<inbox, sent, commands, inCommands, inData, replies, answered>>
      BY <1>2, <1>5, <2>1, <2>4
    <3>2. QED
      BY <1>4, <2>2, <3>1 DEF Flow, InDue
  <2>5. QED
    BY <1>2, <2>3, <2>4
<1>8. QED
  BY <1>3, <1>6, <1>7

\* A callback turns a transfer into data or into a reply.
LEMMA CompleteFlow ==
    ASSUME UnplugInv, Complete
    PROVE  Counted' /\ PipelineTypes' /\ Flow'
<1> DEFINE t == event.xfer
<1>1. /\ t \in Under /\ Under' = Under \ {t} /\ UNCHANGED handle
      /\ \A u \in Transfers : called'[u] <= freed'[u]
  BY CallbackUnder DEF UnplugInv, Complete
<1>2. /\ IF t \in outs THEN replies' = replies + 1 /\ UNCHANGED inData
                       ELSE inData' = inData + 1 /\ UNCHANGED replies
      /\ UNCHANGED <<inbox, sent, commands, hand, outs, inCommands, answered, feeder>>
  BY DEF Complete
<1> HIDE DEF t
<1>3. Counted'
  <2>1. IsFiniteSet(Under')
    BY <1>1, FS_RemoveElement DEF UnplugInv, Counted
  <2>2. QED
    BY <1>1, <1>2, <2>1 DEF UnplugInv, Counted
<1>4. /\ IsFiniteSet(Under \ outs) /\ IsFiniteSet(Under \cap outs)
      /\ InWay \in Nat /\ OutWay \in Nat
      /\ HasCommand \in {0, 1} /\ HasData \in {0, 1}
      /\ Submitting \in {0, 1} /\ InHand \in {0, 1}
      /\ Len(inbox) \in Nat /\ Len(commands) \in Nat
      /\ inCommands \in Nat /\ inData \in Nat /\ replies \in Nat /\ answered \in Nat
      /\ sent \in Nat
  BY Numbers
<1>5. /\ InWay' = IF t \in outs THEN InWay ELSE InWay - 1
      /\ OutWay' = IF t \in outs THEN OutWay - 1 ELSE OutWay
  <2>1. CASE t \in outs
    <3>1. (Under \ outs)' = Under \ outs /\ (Under \cap outs)' = (Under \cap outs) \ {t}
      BY <1>1, <1>2, <2>1
    <3>2. QED
      BY <1>1, <1>4, <2>1, <3>1, FS_RemoveElement, ZenonT(40) DEF InWay, OutWay
  <2>2. CASE t \notin outs
    <3>1. (Under \ outs)' = (Under \ outs) \ {t} /\ (Under \cap outs)' = Under \cap outs
      BY <1>1, <1>2, <2>2
    <3>2. QED
      BY <1>1, <1>4, <2>2, <3>1, FS_RemoveElement, ZenonT(40) DEF InWay, OutWay
  <2>3. QED
    BY <2>1, <2>2
<1>6. PipelineTypes'
  <2>1. QueueTypes'
    BY <1>2 DEF UnplugInv, PipelineTypes, QueueTypes
  <2>2. HandTypes'
    BY <1>2 DEF UnplugInv, PipelineTypes, HandTypes
  <2>3. CountTypes'
    BY <1>2, <1>4 DEF UnplugInv, PipelineTypes, CountTypes
  <2>4. QED
    BY <2>1, <2>2, <2>3 DEF PipelineTypes
<1>7. Flow'
  <2>1. HasCommand' = HasCommand /\ HasData' = HasData /\ InHand' = InHand /\ Submitting' = Submitting
    BY <1>2 DEF HasCommand, HasData, Submitting, InHand
  <2>2. Flow
    BY DEF UnplugInv
  <2>3. QED
    BY <1>2, <1>4, <1>5, <2>1, <2>2, SMTT(30) DEF Flow, InDue
<1>8. QED
  BY <1>3, <1>6, <1>7

\* Steps of the map and of the destructors that leave the queues alone.
LEMMA QuietFlow ==
    ASSUME UnplugInv, Elsewhere,
           UNCHANGED <<inbox, sent, commands, hand, outs, inCommands, inData, replies, answered,
                       feeder>>
    PROVE  Counted' /\ PipelineTypes' /\ Flow'
<1>1. /\ Under' = Under
      /\ \A u \in Transfers : handle[u] # "new" => handle'[u] # "new"
      /\ \A u \in Transfers : called'[u] <= freed'[u]
  BY OtherUnder DEF UnplugInv
<1>2. Counted'
  BY <1>1 DEF UnplugInv, Counted
<1>3. PipelineTypes'
  BY DEF UnplugInv, PipelineTypes, QueueTypes, HandTypes, CountTypes
<1>4. Flow'
  BY <1>1 DEF UnplugInv, Flow, InDue, InWay, OutWay, HasCommand, HasData, Submitting, InHand
<1>5. QED
  BY <1>2, <1>3, <1>4

\* Threads leave, and ~basic closes, stops and joins, within the bounds of its
\* lists.
LEMMA EndStep ==
    ASSUME EndTypes, [UnplugNext]_allVars
    PROVE  EndTypes'
<1>1. Len(CloseOrder) = 5 /\ Len(Threads) = 4 /\ DOMAIN Threads = 1 .. 4
  BY DEF CloseOrder, Threads
<1>2. \A th : th \in {"producer", "writer", "feeder", "executor"} => th \in {Threads[i] : i \in 1 .. 4}
  <2>1. Threads[1] = "producer" /\ Threads[2] = "writer" /\ Threads[3] = "feeder" /\ Threads[4] = "executor"
    BY DEF Threads
  <2>2. QED
    BY <2>1
<1>3. CASE \/ CloseNext \/ RequestStop \/ Join \/ UseDestroyed
  <2>1. UNCHANGED gone
    BY <1>3 DEF CloseNext, RequestStop, Join, UseDestroyed, pipelineVars
  <2>2. closing' \in 0 .. 5 /\ stopping' \in 0 .. 4 /\ joined' \in 0 .. 4
    BY <1>1, <1>3 DEF CloseNext, RequestStop, Join, UseDestroyed, EndTypes
  <2>3. terminated' \in BOOLEAN
    BY <1>3 DEF CloseNext, RequestStop, Join, UseDestroyed, EndTypes
  <2>4. QED
    BY <2>1, <2>2, <2>3 DEF EndTypes
<1>4. CASE /\ UNCHANGED endVars
           /\ \/ UNCHANGED gone
              \/ \E th \in {Threads[i] : i \in 1 .. 4} : Leave(th)
  BY <1>4 DEF EndTypes, endVars, Leave
<1>5. CASE \/ \E kind \in Kinds : Send(kind)
           \/ Produce \/ ProducerEnds \/ FeederThread \/ WriterThread \/ DeviceReplies
           \/ Pull \/ ExecutorEnds \/ EndTransfer \/ CallDevice \/ Unlink
           \/ \E t \in Transfers : StartTransfer(t)
           \/ Complete
  BY <1>2, <1>4, <1>5 DEF Send, Produce, ProducerEnds, FeederThread, Feed, FeederEnds,
     WriterThread, Write, WriterEnds, DeviceReplies, QueueReply, Pull, ExecutorEnds,
     EndTransfer, CallDevice, Unlink, StartTransfer, Complete
<1>6. CASE \E i \in DOMAIN Threads : SeesStop(Threads[i])
  BY <1>1, <1>4, <1>6 DEF SeesStop
<1>7. CASE UNCHANGED basicVars
  BY <1>4, <1>7 DEF basicVars, pipelineVars
<1>8. QED
  BY <1>3, <1>5, <1>6, <1>7 DEF UnplugNext, ExecutorThread, Submit, EventThread, Destructors,
     Quiet, allVars

\* Every step of the device conserves what flows through it.
LEMMA FlowStep ==
    ASSUME UnplugInv, [UnplugNext]_allVars
    PROVE  Counted' /\ PipelineTypes' /\ Flow'
<1>1. CASE \/ \E kind \in Kinds : Send(kind)
           \/ Produce \/ Pull \/ EndTransfer \/ CallDevice \/ Unlink \/ DeviceReplies
           \/ Feed \/ Write
  <2>1. UNCHANGED vars /\ UNCHANGED outs
    BY <1>1 DEF Send, Produce, Pull, EndTransfer, CallDevice, Unlink, DeviceReplies, QueueReply,
       Feed, Write
  <2>2. QED
    BY <1>1, <2>1, PipelineFlow
<1>2. CASE \E t \in Transfers : StartTransfer(t)
  BY <1>2, StartFlow
<1>3. CASE Complete
  BY <1>3, CompleteFlow
<1>4. CASE UNCHANGED vars /\ UNCHANGED <<inbox, sent, commands, hand, outs, inCommands, inData,
                                         replies, answered, feeder>>
  BY <1>4, QuietFlow DEF Elsewhere
<1>5. CASE \/ \E i \in DOMAIN Threads : SeesStop(Threads[i])
           \/ ProducerEnds \/ ExecutorEnds \/ FeederEnds \/ WriterEnds \/ UseDestroyed
           \/ CloseNext \/ RequestStop \/ Join \/ UNCHANGED allVars
  BY <1>4, <1>5 DEF SeesStop, ProducerEnds, ExecutorEnds, FeederEnds, WriterEnds, UseDestroyed,
     CloseNext, RequestStop, Join, allVars, basicVars, pipelineVars
<1>6. CASE UNCHANGED basicVars /\ Elsewhere
  BY <1>6, QuietFlow DEF basicVars, pipelineVars
<1>7. QED
  BY <1>1, <1>2, <1>3, <1>5, <1>6 DEF UnplugNext, ExecutorThread, Submit, EventThread,
     FeederThread, WriterThread, Destructors, Quiet, Elsewhere

\* Initially nothing is under way, queued or answered.
LEMMA FlowInit ==
    ASSUME UnplugInit
    PROVE  UnplugInv
<1>1. Life
  BY LifeInit DEF UnplugInit
<1>2. Under = {}
  BY DEF UnplugInit, Init, Under
<1>3. Counted
  BY <1>2, FS_EmptySet DEF UnplugInit, Init, Counted
<1>4. PipelineTypes
  <2>1. <<>> \in Seq(Kinds)
    OBVIOUS
  <2>2. QueueTypes
    BY <2>1 DEF UnplugInit, QueueTypes
  <2>3. HandTypes /\ CountTypes
    BY MaxCommandsAssumption DEF UnplugInit, HandTypes, CountTypes
  <2>4. QED
    BY <2>2, <2>3 DEF PipelineTypes
<1>5. EndTypes
  <2>1. gone \subseteq {Threads[i] : i \in 1 .. 4} /\ terminated \in BOOLEAN
    BY DEF UnplugInit
  <2>2. QED
    BY <2>1 DEF UnplugInit, EndTypes
<1>6. Flow
  <2>1. InWay = 0 /\ OutWay = 0
    BY <1>2, FS_EmptySet DEF InWay, OutWay
  <2>2. HasCommand = 0 /\ HasData = 0 /\ Submitting = 0 /\ InHand = 0
    BY DEF UnplugInit, HasCommand, HasData, Submitting, InHand
  <2>3. /\ Len(inbox) = 0 /\ Len(commands) = 0
        /\ inCommands = 0 /\ inData = 0 /\ replies = 0 /\ answered = 0 /\ sent = 0
    BY DEF UnplugInit
  <2>4. QED
    BY <2>1, <2>2, <2>3 DEF Flow, InDue
<1>7. QED
  BY <1>1, <1>3, <1>4, <1>5, <1>6 DEF UnplugInv

\* Nothing is invented on the way through the pipeline: the commands under way, the
\* data, the replies queued and the replies written are together never more than the
\* commands the host has sent, and every IN command in the pipeline has an IN
\* transfer of its own whose data the host has not got. Both hold for any number of
\* commands and transfers and up to the end of both destructors.
THEOREM FlowTheorem == UnplugSpec => []UnplugInv
<1>1. UnplugInit => UnplugInv
  BY FlowInit
<1>2. UnplugInv /\ [UnplugNext]_allVars => UnplugInv'
  <2> SUFFICES ASSUME UnplugInv, [UnplugNext]_allVars PROVE UnplugInv'
    OBVIOUS
  <2>1. Life'
    BY UnplugStep, LifeStep DEF UnplugInv
  <2>2. QED
    BY <2>1, FlowStep, EndStep DEF UnplugInv
<1>3. QED
  BY <1>1, <1>2, PTL DEF UnplugSpec

\* The state of the pipeline and the destructors is well typed: no queue is ever
\* longer than the number of commands.
THEOREM UnplugTypeTheorem == UnplugSpec => []UnplugTypeOK
<1>1. ASSUME UnplugInv PROVE UnplugTypeOK
  <2>1. Flow /\ PipelineTypes
    BY <1>1 DEF UnplugInv
  <2>2. /\ InWay \in Nat /\ OutWay \in Nat
        /\ HasCommand \in {0, 1} /\ HasData \in {0, 1}
        /\ Submitting \in {0, 1} /\ InHand \in {0, 1}
        /\ Len(inbox) \in Nat /\ Len(commands) \in Nat
        /\ inCommands \in Nat /\ inData \in Nat /\ replies \in Nat /\ answered \in Nat
        /\ sent \in Nat /\ MaxCommands \in Nat /\ sent <= MaxCommands
    BY <1>1, Numbers
  <2>3. inCommands <= sent /\ inData <= sent /\ replies <= sent /\ answered <= sent
    BY <2>1, <2>2 DEF Flow, InDue
  <2>4. {sent, inCommands, inData, replies, answered} \subseteq 0 .. MaxCommands
    BY <2>2, <2>3
  <2>5. QED
    BY <1>1, <2>1, <2>4 DEF UnplugInv, Life, Counted, PipelineTypes, QueueTypes, HandTypes,
       EndTypes, UnplugTypeOK
<1>2. QED
  BY <1>1, FlowTheorem, PTL
=============================================================================
