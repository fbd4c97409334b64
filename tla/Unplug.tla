-------------------------------- MODULE Unplug --------------------------------
(***************************************************************************)
(* The end of a device: the pipeline of viu::device::basic around the      *)
(* transfers of PendingMap, and the two destructors that take them down.   *)
(*                                                                         *)
(*   ~proxy   joins the device thread (PendingMap: Cancel to               *)
(*            JoinAndDestroy) and lets go of usb_device_;                  *)
(*   ~basic   closes the queues and the socket and joins the producer, the *)
(*            reply writer, the transfer threads and the executor.         *)
(*                                                                         *)
(* The threads of basic run until ~basic joins them, so they live on while *)
(* the device they use is gone.  DeviceBasic says which reply carries what;*)
(* here commands have only a kind, and the other queues only a length.     *)
(***************************************************************************)
EXTENDS PendingMap, Sequences

CONSTANT MaxCommands    \* commands the host sends

ASSUME MaxCommandsAssumption ==
    MaxCommands \in Nat /\ Cardinality(Transfers) >= MaxCommands

VARIABLES
    inbox,          \* kinds of the commands in the socket
    sent,           \* number of commands the host has sent
    commands,       \* commands_queue_
    hand,           \* what the executor is doing
    outs,           \* the transfers of OUT commands
    inCommands,     \* length of in_commands_[ep], for one endpoint
    inData,         \* length of in_data_[ep]
    replies,        \* length of replies_queue_
    answered,       \* replies the writer has taken
    feeder,         \* the transfer thread of the endpoint
    gone,           \* threads that have left their loop
    closing,        \* how many entries of CloseOrder ~basic has closed
    stopping,       \* how many threads it has asked to stop
    joined,         \* how many it has joined
    terminated      \* a thread has used the destroyed device

pipelineVars == <<inbox, sent, commands, hand, outs, inCommands, inData, replies,
                  answered, feeder, gone>>
endVars == <<closing, stopping, joined, terminated>>
basicVars == <<pipelineVars, endVars>>
allVars == <<vars, basicVars>>

Kinds == {"in", "out", "control", "unlink"}

\* Planted bug: the command queue stays open.
CloseOrderForgets == <<"replies", "in_commands", "in_data", "socket", "socket">>

\* What ~basic closes, in this order, and the threads in the order of start().
CloseOrder == <<"commands", "replies", "in_commands", "in_data", "socket">>
Threads == <<"producer", "writer", "feeder", "executor">>

UnplugTypeOK ==
    /\ TypeOK
    /\ inbox \in Seq(Kinds) /\ commands \in Seq(Kinds)
    /\ hand \in Kinds \cup {"none", "submitting in", "submitting out", "calling"}
    /\ outs \subseteq Transfers
    /\ {sent, inCommands, inData, replies, answered} \subseteq 0..MaxCommands
    /\ feeder \in {"command", "data", "reply"}
    /\ gone \subseteq {Threads[i] : i \in 1..4}
    /\ closing \in 0..5 /\ stopping \in 0..4 /\ joined \in 0..4
    /\ terminated \in BOOLEAN

Closed(what) == \E i \in 1..closing : CloseOrder[i] = what
Stopped(thread) == \E i \in 1..stopping : Threads[i] = thread
Running(thread) == ~crashed /\ ~terminated /\ thread \notin gone
Leave(thread) == gone' = gone \cup {thread}

-----------------------------------------------------------------------------
(* The host and the producer thread. *)

Send(kind) ==
    /\ ~crashed /\ ~terminated
    /\ ~Closed("socket")
    /\ sent < MaxCommands
    /\ sent' = sent + 1
    /\ inbox' = Append(inbox, kind)
    /\ UNCHANGED <<vars, endVars, commands, hand, outs, inCommands, inData, replies,
                   answered, feeder, gone>>

\* A command read after the queue was closed is lost and ends the thread.
Produce ==
    /\ Running("producer")
    /\ ~Closed("socket")
    /\ inbox # <<>>
    /\ inbox' = Tail(inbox)
    /\ IF Closed("commands") THEN Leave("producer") /\ UNCHANGED commands
       ELSE commands' = Append(commands, Head(inbox)) /\ UNCHANGED gone
    /\ UNCHANGED <<vars, endVars, sent, hand, outs, inCommands, inData, replies,
                   answered, feeder>>

\* On a socket that was shut down a read ends the thread if it reports the
\* end of file; any other error is ignored until the thread is asked to stop.
ProducerEnds ==
    /\ Running("producer")
    /\ Closed("socket")
    /\ Leave("producer")
    /\ UNCHANGED <<vars, endVars, inbox, sent, commands, hand, outs, inCommands, inData,
                   replies, answered, feeder>>

-----------------------------------------------------------------------------
(* The executor thread. *)

Pull ==
    /\ Running("executor")
    /\ hand = "none"
    /\ commands # <<>>
    /\ hand' = Head(commands)
    /\ commands' = Tail(commands)
    /\ UNCHANGED <<vars, endVars, inbox, sent, outs, inCommands, inData, replies,
                   answered, feeder, gone>>

\* A closed queue is drained first.
ExecutorEnds ==
    /\ Running("executor")
    /\ hand = "none"
    /\ Closed("commands")
    /\ commands = <<>>
    /\ Leave("executor")
    /\ UNCHANGED <<vars, endVars, inbox, sent, commands, hand, outs, inCommands, inData,
                   replies, answered, feeder>>

\* read_data_from_device and send_data_to_device attach a new transfer.
StartTransfer(t) ==
    /\ Running("executor")
    /\ hand \in {"in", "out"}
    /\ Attach(t)
    /\ hand' = IF hand = "in" THEN "submitting in" ELSE "submitting out"
    /\ outs' = IF hand = "out" THEN outs \cup {t} ELSE outs
    /\ UNCHANGED <<endVars, inbox, sent, commands, inCommands, inData, replies, answered,
                   feeder, gone>>

Submit ==
    /\ Running("executor")
    /\ ExecutorStep
    /\ UNCHANGED basicVars

\* The command of an IN transfer is queued once the transfer is submitted.
EndTransfer ==
    /\ Running("executor")
    /\ hand \in {"submitting in", "submitting out"}
    /\ exec.pc = "idle"
    /\ hand' = "none"
    /\ IF hand = "submitting out" THEN UNCHANGED <<inCommands, gone>>
       ELSE IF Closed("in_commands") THEN Leave("executor") /\ UNCHANGED inCommands
       ELSE inCommands' = inCommands + 1 /\ UNCHANGED gone
    /\ UNCHANGED <<vars, endVars, inbox, sent, commands, outs, inData, replies, answered,
                   feeder>>

\* A control transfer is synchronous: libusb or the plugin has no time limit.
CallDevice ==
    /\ Running("executor")
    /\ hand = "control"
    /\ Alive
    /\ hand' = "calling"
    /\ UNCHANGED <<vars, endVars, inbox, sent, commands, outs, inCommands, inData,
                   replies, answered, feeder, gone>>

\* queue_reply_to_host on the executor.
QueueReply ==
    /\ hand' = "none"
    /\ IF Closed("replies") THEN Leave("executor") /\ UNCHANGED replies
       ELSE replies' = replies + 1 /\ UNCHANGED gone
    /\ UNCHANGED <<vars, endVars, inbox, sent, commands, outs, inCommands, inData,
                   answered, feeder>>

DeviceReplies == Running("executor") /\ hand = "calling" /\ Alive /\ QueueReply

Unlink == Running("executor") /\ hand = "unlink" /\ QueueReply

UsesDevice == hand \in {"in", "out", "control", "calling"} \/ exec.pc # "idle"

\* usb_device_ is gone, and once ~basic runs the handlers of proxy are too:
\* undefined behaviour, or the call of a pure virtual function.
UseDestroyed ==
    /\ Running("executor")
    /\ UsesDevice
    /\ device = "destroyed"
    /\ terminated' = TRUE
    /\ UNCHANGED <<vars, pipelineVars, closing, stopping, joined>>

-----------------------------------------------------------------------------
(* The completing thread: the callback queues IN data, or an OUT reply. *)

Complete ==
    /\ ~terminated
    /\ Callback
    /\ IF event.xfer \in outs THEN replies' = replies + 1 /\ UNCHANGED inData
                              ELSE inData' = inData + 1 /\ UNCHANGED replies
    /\ UNCHANGED <<endVars, inbox, sent, commands, hand, outs, inCommands, answered,
                   feeder, gone>>

-----------------------------------------------------------------------------
(* The transfer thread and the reply writer. *)

\* send_data_to_host: first a command, then its data, then the reply.
Feed ==
    /\ Running("feeder")
    /\ \/ /\ feeder = "command" /\ inCommands > 0
          /\ inCommands' = inCommands - 1 /\ feeder' = "data"
          /\ UNCHANGED <<inData, replies>>
       \/ /\ feeder = "data" /\ inData > 0
          /\ inData' = inData - 1 /\ feeder' = "reply"
          /\ UNCHANGED <<inCommands, replies>>
       \/ /\ feeder = "reply" /\ ~Closed("replies")
          /\ replies' = replies + 1 /\ feeder' = "command"
          /\ UNCHANGED <<inCommands, inData>>
    /\ UNCHANGED <<vars, endVars, inbox, sent, commands, hand, outs, answered, gone>>

FeederEnds ==
    /\ Running("feeder")
    /\ \/ feeder = "command" /\ Closed("in_commands") /\ inCommands = 0
       \/ feeder = "data" /\ Closed("in_data") /\ inData = 0
       \/ feeder = "reply" /\ Closed("replies")
    /\ Leave("feeder")
    /\ UNCHANGED <<vars, endVars, inbox, sent, commands, hand, outs, inCommands, inData,
                   replies, answered, feeder>>

\* Writing to a socket that was shut down fails and the loop goes on.
Write ==
    /\ Running("writer")
    /\ replies > 0
    /\ replies' = replies - 1
    /\ answered' = answered + 1
    /\ UNCHANGED <<vars, endVars, inbox, sent, commands, hand, outs, inCommands, inData,
                   feeder, gone>>

WriterEnds ==
    /\ Running("writer")
    /\ Closed("replies")
    /\ replies = 0
    /\ Leave("writer")
    /\ UNCHANGED <<vars, endVars, inbox, sent, commands, hand, outs, inCommands, inData,
                   replies, answered, feeder>>

\* The head of a loop looks at the stop token, but a thread that waits for a
\* queue is already past it and is not woken by the request.
AtLoopHead(thread) ==
    \/ thread = "writer"
    \/ thread = "feeder" /\ feeder = "command"
    \/ thread = "executor" /\ hand = "none"

SeesStop(thread) ==
    /\ Running(thread)
    /\ Stopped(thread)
    /\ AtLoopHead(thread)
    /\ Leave(thread)
    /\ UNCHANGED <<vars, endVars, inbox, sent, commands, hand, outs, inCommands, inData,
                   replies, answered, feeder>>

-----------------------------------------------------------------------------
(* ~basic, once ~proxy has ended. *)

Destroying == ~crashed /\ ~terminated /\ device = "destroyed"

CloseNext ==
    /\ Destroying
    /\ closing < Len(CloseOrder)
    /\ closing' = closing + 1
    /\ UNCHANGED <<vars, pipelineVars, stopping, joined, terminated>>

RequestStop ==
    /\ Destroying
    /\ closing = Len(CloseOrder)
    /\ stopping = joined
    /\ stopping < Len(Threads)
    /\ stopping' = stopping + 1
    /\ UNCHANGED <<vars, pipelineVars, closing, joined, terminated>>

Join ==
    /\ Destroying
    /\ joined < stopping
    /\ Threads[stopping] \in gone
    /\ joined' = joined + 1
    /\ UNCHANGED <<vars, pipelineVars, closing, stopping, terminated>>

-----------------------------------------------------------------------------
UnplugInit ==
    /\ Init
    /\ inbox = <<>> /\ sent = 0
    /\ commands = <<>>
    /\ hand = "none"
    /\ outs = {}
    /\ inCommands = 0 /\ inData = 0 /\ replies = 0 /\ answered = 0
    /\ feeder = "command"
    /\ gone = {}
    /\ closing = 0 /\ stopping = 0 /\ joined = 0
    /\ terminated = FALSE

\* Steps of PendingMap that leave the pipeline alone.
Quiet(A) == ~terminated /\ A /\ UNCHANGED basicVars

ExecutorThread ==
    \/ Pull \/ ExecutorEnds \/ (\E t \in Transfers : StartTransfer(t)) \/ Submit
    \/ EndTransfer \/ CallDevice \/ Unlink \/ UseDestroyed
ProducerThread == Produce \/ (Stopped("producer") /\ ProducerEnds)
FeederThread == Feed \/ FeederEnds
WriterThread == Write \/ WriterEnds
EventThread == Quiet(EraseCancelled) \/ Quiet(EraseCompleted) \/ Complete
Destructors == Quiet(DeviceStep) \/ CloseNext \/ RequestStop \/ Join

UnplugNext ==
    \/ \E kind \in Kinds : Send(kind)
    \/ Produce \/ ProducerEnds
    \/ ExecutorThread
    \/ DeviceReplies
    \/ \E t \in Transfers, status \in {"completed", "cancelled"} :
           Quiet(LibusbDone(t, status))
    \/ \E t \in Transfers : Quiet(PluginComplete(t))
    \/ EventThread
    \/ FeederThread
    \/ WriterThread
    \/ \E i \in DOMAIN Threads : SeesStop(Threads[i])
    \/ Quiet(Cancel)
    \/ Destructors

UnplugSpec == UnplugInit /\ [][UnplugNext]_allVars

\* All threads run, and libusb reports what it was asked to cancel.  Nobody
\* has to unplug the device, and the device need not answer.
FairUnplugSpec ==
    /\ UnplugSpec
    /\ WF_allVars(ProducerThread)
    /\ WF_allVars(ExecutorThread)
    /\ WF_allVars(EventThread)
    /\ WF_allVars(FeederThread)
    /\ WF_allVars(WriterThread)
    /\ WF_allVars(Destructors)
    /\ \A t \in Transfers : WF_allVars(Quiet(LibusbDone(t, "cancelled")))

\* A device, or plugin, that answers what it was given.
DeviceAnswers ==
    /\ WF_allVars(DeviceReplies)
    /\ \A t \in Transfers : /\ WF_allVars(Quiet(LibusbDone(t, "completed")))
                             /\ WF_allVars(Quiet(PluginComplete(t)))

-----------------------------------------------------------------------------
(* Properties. *)

\* A transfer that slipped past cancel(): submitted between its sweep of the
\* map and the end of the wait, so that nothing but its own completion takes
\* it out of the map.
Slipped == \E t \in pending : handle[t] = "inflight" \/ t \in plugin

\* Unplugging ends, with a device that has stopped answering too: cancel()
\* returns, and so does every join of ~basic, although the threads may be
\* waiting on any of the queues, on the socket or on each other.  What can
\* keep it from ending: a transfer that slipped past cancel(), one that libusb
\* refused to submit, and undefined behaviour.
UnplugEnds ==
    (device = "waiting") ~>
        \/ joined = Len(Threads)
        \/ Slipped
        \/ "submitted" \in asserts
        \/ crashed \/ terminated

\* As long as the device answers and stays plugged in, so does the pipeline:
\* every command is answered, whatever its kind and however the callbacks and
\* the executor race for the queues.
AllAnswered ==
    DeviceAnswers => []<>(answered = sent \/ canceled \/ "submitted" \in asserts)

\* "Device unplugged successfully", as the daemon reports: no thread has
\* called into the device after it was destroyed.
NoCallIntoDestroyed == ~terminated
=============================================================================
