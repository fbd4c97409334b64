----------------------------- MODULE DeviceBasic -----------------------------
(***************************************************************************)
(* viu::device::basic with the transfer half of viu::device::proxy: the    *)
(* pipeline that turns the usbip commands the kernel writes into the       *)
(* socket into transfers of the device, and their results into replies.    *)
(*                                                                         *)
(* Threads: the command producer (socket -> commands_queue_), the          *)
(* executor, one transfer thread per IN endpoint (in_commands_ x in_data_  *)
(* -> replies_queue_), the reply writer (replies_queue_ -> socket) and the *)
(* event thread that runs the completion callbacks.  The kernel's          *)
(* vhci_hcd and the device behind libusb (or a mock plugin) are the        *)
(* environment.                                                            *)
(*                                                                         *)
(* A command is named by its sequence number, which is its index in sent;  *)
(* its payload is left out.  The data an IN transfer brings is the pair of *)
(* the command the transfer was submitted for and the transfer's status,   *)
(* neither of which the program keeps with the bytes.                      *)
(***************************************************************************)
EXTENDS Naturals, Sequences

CONSTANTS
    Addresses,      \* endpoint addresses the host uses, <<endpoint, direction>>
    Outcomes,       \* statuses of a transfer that reach its callback
    MaxCommands     \* bound: commands the host sends

ASSUME AddressesAssumption == Addresses \subseteq (0 .. 15) \X {"in", "out"}
ASSUME OutcomesAssumption  == Outcomes \subseteq {"completed", "failed"}
ASSUME MaxCommandsAssumption == MaxCommands \in Nat

VARIABLES
    sent,           \* every command the host has written, in order
    nread,          \* how many of them the producer has read off the socket
    commands_queue, \* commands_queue_
    exec,           \* the executor: program counter and command in hand
    inflight,       \* transfers submitted and not completed, per address
    refused,        \* commands whose transfer libusb refused (history)
    in_commands,    \* in_commands_, per endpoint
    in_data,        \* in_data_, per endpoint
    holding,        \* command in hand of the transfer thread of an endpoint
    replies_queue,  \* replies_queue_
    writer,         \* the reply writer: program counter and reply in hand
    unlinked,       \* unlinked_seqnums_
    wire            \* every reply written to the socket, in order

vars == <<sent, nread, commands_queue, exec, inflight, refused, in_commands, in_data,
          holding, replies_queue, writer, unlinked, wire>>

-----------------------------------------------------------------------------
(* Data. *)

Seqnums == 1 .. MaxCommands
EpAddresses == {a \in Addresses : a[1] # 0}

\* The endpoints data comes in from: the transfer threads of the other
\* endpoints never get a command.
Eps == {ep \in 1 .. 15 : <<ep, "in">> \in Addresses}

Command ==
    [req : {"submit"}, at : Addresses, victim : {0}]
        \cup [req : {"unlink"}, at : Addresses, victim : Seqnums]

NoCommand == 0
NoData == [xfer |-> 0, outcome |-> "completed"]
TransferData == [xfer : Seqnums, outcome : Outcomes]

\* "ok" is the status 0, or whatever status the control path reports.
Status == {"ok", "ECONNRESET"}

Reply == [seq : Seqnums, data : TransferData \cup {NoData}, status : Status]
NoReply == [seq |-> 0, data |-> NoData, status |-> "ok"]

Idle == [pc |-> "pull", cmd |-> NoCommand, status |-> "ok"]
ExecState == {Idle} \cup [pc : {"run", "push", "reply"}, cmd : Seqnums, status : Status]

Waiting == [pc |-> "pull", rep |-> NoReply]
WriterState == {Waiting} \cup [pc : {"check", "write"}, rep : Reply]

IsSubmit(s) == sent[s].req = "submit"
IsUnlink(s) == sent[s].req = "unlink"
IsControl(s) == IsSubmit(s) /\ sent[s].at[1] = 0
IsIn(s) == IsSubmit(s) /\ sent[s].at[1] # 0 /\ sent[s].at[2] = "in"
IsOut(s) == IsSubmit(s) /\ sent[s].at[1] # 0 /\ sent[s].at[2] = "out"
Ep(s) == sent[s].at[1]

TypeOK ==
    /\ sent \in Seq(Command) /\ Len(sent) <= MaxCommands
    /\ nread \in 0 .. Len(sent)
    /\ commands_queue \in Seq(Seqnums)
    /\ \A i \in DOMAIN commands_queue : commands_queue[i] <= nread
    /\ exec \in ExecState /\ exec.cmd <= nread
    /\ inflight \in [EpAddresses -> Seq(Seqnums)]
    /\ refused \subseteq 1 .. nread
    /\ in_commands \in [Eps -> Seq(Seqnums)]
    /\ in_data \in [Eps -> Seq(TransferData)]
    /\ holding \in [Eps -> {NoCommand} \cup Seqnums]
    /\ replies_queue \in Seq(Reply)
    /\ writer \in WriterState
    /\ unlinked \subseteq Seqnums
    /\ wire \in Seq(Reply)

-----------------------------------------------------------------------------
(* The host: vhci_hcd numbers its commands and writes them to the socket.  *)
(* It unlinks a URB once, and only one whose RET_SUBMIT it has not read;    *)
(* what it has read of wire is not state, since reading changes nothing    *)
(* else: a reply on wire may still be unread.                              *)

HostSubmit(a) ==
    /\ Len(sent) < MaxCommands
    /\ sent' = Append(sent, [req |-> "submit", at |-> a, victim |-> 0])
    /\ UNCHANGED <<nread, commands_queue, exec, inflight, refused, in_commands, in_data,
                   holding, replies_queue, writer, unlinked, wire>>

HostUnlink(v) ==
    /\ Len(sent) < MaxCommands
    /\ IsSubmit(v)
    /\ \A u \in DOMAIN sent : sent[u].victim # v
    /\ sent' = Append(sent, [req |-> "unlink", at |-> sent[v].at, victim |-> v])
    /\ UNCHANGED <<nread, commands_queue, exec, inflight, refused, in_commands, in_data,
                   holding, replies_queue, writer, unlinked, wire>>

-----------------------------------------------------------------------------
(* The command producer: read_command, then push. *)

\* Planted bug: the command is queued although the read found nothing.
CommandProduceUnread ==
    /\ nread' = nread + 1
    /\ commands_queue' = Append(commands_queue, nread + 1)
    /\ UNCHANGED <<sent, exec, inflight, refused, in_commands, in_data, holding,
                   replies_queue, writer, unlinked, wire>>

CommandProduce ==
    /\ nread < Len(sent)
    /\ nread' = nread + 1
    /\ commands_queue' = Append(commands_queue, nread + 1)
    /\ UNCHANGED <<sent, exec, inflight, refused, in_commands, in_data, holding,
                   replies_queue, writer, unlinked, wire>>

-----------------------------------------------------------------------------
(* The executor: wait_pull, then what the command asks for. *)

ExecutePull ==
    /\ exec.pc = "pull"
    /\ commands_queue # << >>
    /\ exec' = [pc |-> "run", cmd |-> Head(commands_queue), status |-> "ok"]
    /\ commands_queue' = Tail(commands_queue)
    /\ UNCHANGED <<sent, nread, inflight, refused, in_commands, in_data, holding,
                   replies_queue, writer, unlinked, wire>>

\* Every branch of the control path queues exactly one reply.
ExecuteControl ==
    /\ exec.pc = "run"
    /\ IsControl(exec.cmd)
    /\ replies_queue' = Append(replies_queue,
                               [seq |-> exec.cmd, data |-> NoData, status |-> "ok"])
    /\ exec' = Idle
    /\ UNCHANGED <<sent, nread, commands_queue, inflight, refused, in_commands, in_data,
                   holding, writer, unlinked, wire>>

\* submit: libusb takes the transfer, or refuses it.  The result is asserted on
\* and not passed on: nothing tells the caller, and no callback will come.
SubmitTransfer ==
    \/ /\ inflight' = [inflight EXCEPT ![sent[exec.cmd].at] = Append(@, exec.cmd)]
       /\ UNCHANGED refused
    \/ /\ refused' = refused \cup {exec.cmd}
       /\ UNCHANGED inflight

\* An IN transfer is submitted before its command is queued for the transfer
\* thread: it may complete between the two steps.  The command is queued as
\* well when the transfer was refused.
ReadDataFromDevice ==
    /\ exec.pc = "run"
    /\ IsIn(exec.cmd)
    /\ SubmitTransfer
    /\ exec' = [pc |-> "push", cmd |-> exec.cmd, status |-> "ok"]
    /\ UNCHANGED <<sent, nread, commands_queue, in_commands, in_data, holding,
                   replies_queue, writer, unlinked, wire>>

\* Planted bug: the newest command of an endpoint is put in front.
PushInCommandInFront ==
    /\ exec.pc = "push"
    /\ in_commands' = [in_commands EXCEPT ![Ep(exec.cmd)] = <<exec.cmd>> \o @]
    /\ exec' = Idle
    /\ UNCHANGED <<sent, nread, commands_queue, inflight, refused, in_data, holding,
                   replies_queue, writer, unlinked, wire>>

\* Planted bug: the executor waits for the data of the transfer itself.
PushInCommandSynchronous ==
    /\ exec.pc = "push"
    /\ in_data[Ep(exec.cmd)] # << >>
    /\ in_commands' = [in_commands EXCEPT ![Ep(exec.cmd)] = Append(@, exec.cmd)]
    /\ exec' = Idle
    /\ UNCHANGED <<sent, nread, commands_queue, inflight, refused, in_data, holding,
                   replies_queue, writer, unlinked, wire>>

PushInCommand ==
    /\ exec.pc = "push"
    /\ in_commands' = [in_commands EXCEPT ![Ep(exec.cmd)] = Append(@, exec.cmd)]
    /\ exec' = Idle
    /\ UNCHANGED <<sent, nread, commands_queue, inflight, refused, in_data, holding,
                   replies_queue, writer, unlinked, wire>>

SendDataToDevice ==
    /\ exec.pc = "run"
    /\ IsOut(exec.cmd)
    /\ SubmitTransfer
    /\ exec' = Idle
    /\ UNCHANGED <<sent, nread, commands_queue, in_commands, in_data, holding,
                   replies_queue, writer, unlinked, wire>>

\* unlink_command: the victim is marked under the mutex whatever became of
\* it, and the status only says whether it was marked already; its transfer is
\* left alone; then RET_UNLINK is queued.
UnlinkMark ==
    /\ exec.pc = "run"
    /\ IsUnlink(exec.cmd)
    /\ unlinked' = unlinked \cup {sent[exec.cmd].victim}
    /\ exec' = [pc |-> "reply", cmd |-> exec.cmd, status |->
                    IF sent[exec.cmd].victim \in unlinked THEN "ok"
                                                         ELSE "ECONNRESET"]
    /\ UNCHANGED <<sent, nread, commands_queue, inflight, refused, in_commands, in_data,
                   holding, replies_queue, writer, wire>>

UnlinkReply ==
    /\ exec.pc = "reply"
    /\ replies_queue' = Append(replies_queue,
                               [seq |-> exec.cmd, data |-> NoData,
                                status |-> exec.status])
    /\ exec' = Idle
    /\ UNCHANGED <<sent, nread, commands_queue, inflight, refused, in_commands, in_data,
                   holding, writer, unlinked, wire>>

-----------------------------------------------------------------------------
(* The event thread.  A device completes the transfers of one endpoint in  *)
(* the order they were submitted.  An OUT callback holds its command and    *)
(* replies to it; an IN callback holds none and queues the data alone,     *)
(* whatever the status (TIMED_OUT and CANCELLED never reach a callback).    *)

\* Planted bug: the callback runs again for the transfer it has reported.
CompleteOutTwice(a) ==
    /\ a[2] = "out"
    /\ inflight[a] # << >>
    /\ Len(replies_queue) < MaxCommands
    /\ replies_queue' = Append(replies_queue,
                               [seq |-> Head(inflight[a]), data |-> NoData,
                                status |-> "ok"])
    /\ UNCHANGED <<sent, nread, commands_queue, exec, inflight, refused, in_commands,
                   in_data, holding, writer, unlinked, wire>>

\* Planted bug: no reply is queued for an OUT transfer.
CompleteOutSilent(a) ==
    /\ a[2] = "out"
    /\ inflight[a] # << >>
    /\ inflight' = [inflight EXCEPT ![a] = Tail(@)]
    /\ UNCHANGED <<sent, nread, commands_queue, exec, refused, in_commands, in_data,
                   holding, replies_queue, writer, unlinked, wire>>

CompleteOut(a) ==
    /\ a[2] = "out"
    /\ inflight[a] # << >>
    /\ inflight' = [inflight EXCEPT ![a] = Tail(@)]
    /\ replies_queue' = Append(replies_queue,
                               [seq |-> Head(inflight[a]), data |-> NoData,
                                status |-> "ok"])
    /\ UNCHANGED <<sent, nread, commands_queue, exec, refused, in_commands, in_data,
                   holding, writer, unlinked, wire>>

\* Planted bug: the data of a failed transfer is dropped.
CompleteInDropped(a, o) ==
    /\ a[2] = "in"
    /\ inflight[a] # << >>
    /\ inflight' = [inflight EXCEPT ![a] = Tail(@)]
    /\ in_data' = IF o = "failed" THEN in_data ELSE
                  [in_data EXCEPT ![a[1]] =
                      Append(@, [xfer |-> Head(inflight[a]), outcome |-> o])]
    /\ UNCHANGED <<sent, nread, commands_queue, exec, refused, in_commands, holding,
                   replies_queue, writer, unlinked, wire>>

CompleteIn(a, o) ==
    /\ a[2] = "in"
    /\ inflight[a] # << >>
    /\ inflight' = [inflight EXCEPT ![a] = Tail(@)]
    /\ in_data' = [in_data EXCEPT ![a[1]] =
                      Append(@, [xfer |-> Head(inflight[a]), outcome |-> o])]
    /\ UNCHANGED <<sent, nread, commands_queue, exec, refused, in_commands, holding,
                   replies_queue, writer, unlinked, wire>>

-----------------------------------------------------------------------------
(* A transfer thread (send_data_to_host): the oldest command of the        *)
(* endpoint is answered with the oldest data of the endpoint.              *)

TransferPull(ep) ==
    /\ holding[ep] = NoCommand
    /\ in_commands[ep] # << >>
    /\ holding' = [holding EXCEPT ![ep] = Head(in_commands[ep])]
    /\ in_commands' = [in_commands EXCEPT ![ep] = Tail(@)]
    /\ UNCHANGED <<sent, nread, commands_queue, exec, inflight, refused, in_data,
                   replies_queue, writer, unlinked, wire>>

\* Planted bug: the command is kept in hand after it was answered.
SendDataToHostAgain(ep) ==
    /\ holding[ep] # NoCommand
    /\ in_data[ep] # << >>
    /\ replies_queue' = Append(replies_queue,
                               [seq |-> holding[ep], data |-> Head(in_data[ep]),
                                status |-> "ok"])
    /\ in_data' = [in_data EXCEPT ![ep] = Tail(@)]
    /\ UNCHANGED <<sent, nread, commands_queue, exec, inflight, refused, in_commands,
                   holding, writer, unlinked, wire>>

SendDataToHost(ep) ==
    /\ holding[ep] # NoCommand
    /\ in_data[ep] # << >>
    /\ replies_queue' = Append(replies_queue,
                               [seq |-> holding[ep], data |-> Head(in_data[ep]),
                                status |-> "ok"])
    /\ in_data' = [in_data EXCEPT ![ep] = Tail(@)]
    /\ holding' = [holding EXCEPT ![ep] = NoCommand]
    /\ UNCHANGED <<sent, nread, commands_queue, exec, inflight, refused, in_commands,
                   writer, unlinked, wire>>

-----------------------------------------------------------------------------
(* The reply writer: pull; look the number up in unlinked_seqnums_ under    *)
(* the mutex; write to the socket with the mutex released.                 *)

ReplyPull ==
    /\ writer.pc = "pull"
    /\ replies_queue # << >>
    /\ writer' = [pc |-> "check", rep |-> Head(replies_queue)]
    /\ replies_queue' = Tail(replies_queue)
    /\ UNCHANGED <<sent, nread, commands_queue, exec, inflight, refused, in_commands,
                   in_data, holding, unlinked, wire>>

ReplyDrop ==
    /\ writer.pc = "check"
    /\ writer.rep.seq \in unlinked
    /\ unlinked' = unlinked \ {writer.rep.seq}
    /\ writer' = Waiting
    /\ UNCHANGED <<sent, nread, commands_queue, exec, inflight, refused, in_commands,
                   in_data, holding, replies_queue, wire>>

\* Planted bug: the reply goes out without a look at unlinked_seqnums_.
ReplyKeepUnchecked ==
    /\ writer.pc = "check"
    /\ writer' = [pc |-> "write", rep |-> writer.rep]
    /\ UNCHANGED <<sent, nread, commands_queue, exec, inflight, refused, in_commands,
                   in_data, holding, replies_queue, unlinked, wire>>

ReplyKeep ==
    /\ writer.pc = "check"
    /\ writer.rep.seq \notin unlinked
    /\ writer' = [pc |-> "write", rep |-> writer.rep]
    /\ UNCHANGED <<sent, nread, commands_queue, exec, inflight, refused, in_commands,
                   in_data, holding, replies_queue, unlinked, wire>>

ReplyWrite ==
    /\ writer.pc = "write"
    /\ wire' = Append(wire, writer.rep)
    /\ writer' = Waiting
    /\ UNCHANGED <<sent, nread, commands_queue, exec, inflight, refused, in_commands,
                   in_data, holding, replies_queue, unlinked>>

-----------------------------------------------------------------------------
Init ==
    /\ sent = << >>
    /\ nread = 0
    /\ commands_queue = << >>
    /\ exec = Idle
    /\ inflight = [a \in EpAddresses |-> << >>]
    /\ refused = {}
    /\ in_commands = [ep \in Eps |-> << >>]
    /\ in_data = [ep \in Eps |-> << >>]
    /\ holding = [ep \in Eps |-> NoCommand]
    /\ replies_queue = << >>
    /\ writer = Waiting
    /\ unlinked = {}
    /\ wire = << >>

Host == (\E a \in Addresses : HostSubmit(a)) \/ (\E v \in DOMAIN sent : HostUnlink(v))

Executor ==
    \/ ExecutePull \/ ExecuteControl \/ ReadDataFromDevice \/ PushInCommand
    \/ SendDataToDevice \/ UnlinkMark \/ UnlinkReply

Complete(a) == CompleteOut(a) \/ \E o \in Outcomes : CompleteIn(a, o)

Transfer(ep) == TransferPull(ep) \/ SendDataToHost(ep)

Writer == ReplyPull \/ ReplyDrop \/ ReplyKeep \/ ReplyWrite

Next ==
    \/ Host
    \/ CommandProduce
    \/ Executor
    \/ \E a \in EpAddresses : Complete(a)
    \/ \E ep \in Eps : Transfer(ep)
    \/ Writer

Spec == Init /\ [][Next]_vars

\* The threads run, and a blocking control request returns; nothing is
\* assumed of the other transfers of the device, nor of the host.
ThreadFairness ==
    /\ WF_vars(CommandProduce)
    /\ WF_vars(Executor)
    /\ \A ep \in Eps : WF_vars(Transfer(ep))
    /\ WF_vars(Writer)

FairSpec == Spec /\ ThreadFairness

\* The device answers every transfer it was given, which an idle one does not.
DeviceFairness == \A a \in EpAddresses : WF_vars(Complete(a))

-----------------------------------------------------------------------------
(* Properties. *)

Submitted(s) == s \in DOMAIN sent /\ IsSubmit(s)
WrittenSubmit(s) == Submitted(s) /\ \E i \in DOMAIN wire : wire[i].seq = s
WrittenUnlinkOf(s) ==
    \E i \in DOMAIN wire : /\ IsUnlink(wire[i].seq)
                           /\ sent[wire[i].seq].victim = s

\* Once the RET_UNLINK that gives a URB back is on the socket, no RET_SUBMIT
\* of that URB follows it: the host has freed the URB by then.  The writer
\* looks the set up and writes in two steps, with the executor marking
\* victims in between.
NoReplyAfterUnlink ==
    \A i, j \in DOMAIN wire :
        (IsUnlink(wire[i].seq) /\ wire[j].seq = sent[wire[i].seq].victim) => j < i

\* No command is answered twice, whichever threads its answer went through.
AtMostOneReply ==
    \A i, j \in DOMAIN wire : wire[i].seq = wire[j].seq => i = j

\* The data that answers an IN command comes from the transfer of that command,
\* until a transfer of the endpoint is refused; from then on it comes from a
\* later one.
MayAnswer(xfer, s, spoilt) == IF \E r \in spoilt : r <= s THEN xfer > s ELSE xfer = s

RefusedAt(a) == {r \in refused : sent[r].at = a}

\* send_data_to_host pairs commands and data by position alone: the data of
\* every reply to an IN command is what the transfer submitted for that very
\* command brought, though unlinks, failures and completions that overtake
\* the push of the command all happen in between.  The one thing that breaks
\* the pairing, and for good, is a transfer that libusb refused, whose command
\* was queued all the same: its own answer and every later one of the endpoint
\* then carry the data of a later transfer, and never that of an earlier one.
OwnData ==
    \A i \in DOMAIN wire :
        IsIn(wire[i].seq) => MayAnswer(wire[i].data.xfer, wire[i].seq,
                                       RefusedAt(sent[wire[i].seq].at))

\* Commands of one endpoint address are answered in the order they were sent,
\* as usb core expects of the URBs of one pipe.
AnsweredInOrder ==
    \A i, j \in DOMAIN wire :
        ( /\ IsIn(wire[i].seq) \/ IsOut(wire[i].seq)
          /\ IsSubmit(wire[j].seq) /\ sent[wire[i].seq].at = sent[wire[j].seq].at
          /\ i < j )
        => wire[i].seq < wire[j].seq

\* Every unlink is answered, even if the device never completes a transfer.
UnlinkAnswered ==
    \A s \in Seqnums :
        (s \in DOMAIN sent /\ IsUnlink(s))
            ~> (\E i \in DOMAIN wire : wire[i].seq = s)

\* The URBs as the host sees them.
urbs ==
    [s \in Seqnums |->
        IF ~Submitted(s) THEN "free"
        ELSE IF WrittenSubmit(s) THEN "completed"
        ELSE IF WrittenUnlinkOf(s) THEN "cancelled"
        ELSE "submitted"]

Contract == INSTANCE UrbContract WITH Urbs <- Seqnums, urb <- urbs

\* The transfer of s was refused, or s waits for data on an endpoint that an
\* earlier refusal has left one transfer short.
Starved(s) ==
    \/ s \in refused
    \/ Submitted(s) /\ IsIn(s) /\ \E r \in RefusedAt(sent[s].at) : r < s

\* The pipeline keeps the contract with the host: always its safety, and its
\* liveness when the device answers, but for the URBs that a refused transfer
\* starves.
KeepsContract ==
    /\ Contract!Safety
    /\ DeviceFairness => \A s \in Seqnums : Contract!Finishes(s) \/ <>Starved(s)

-----------------------------------------------------------------------------
(* The inductive invariants behind NoReplyAfterUnlink, AtMostOneReply,     *)
(* AnsweredInOrder, OwnData and the contract.                              *)

\* How many commands the executor has pulled.  The socket and commands_queue_
\* are FIFO, so these are the first commands the host sent.
Pulled == nread - Len(commands_queue)
Busy == exec.pc # "pull"

\* The executor has pulled s and is through with it.
Done(s) == s \in 1 .. Pulled /\ (Busy => s < Pulled)

\* s is in the hands of the device or of a transfer thread.
InProgress(s) ==
    \/ \E ep \in Eps : holding[ep] = s
    \/ \E ep \in Eps : \E i \in DOMAIN in_commands[ep] : in_commands[ep][i] = s
    \/ \E a \in EpAddresses : /\ a[2] = "out"
                              /\ \E i \in DOMAIN inflight[a] : inflight[a][i] = s

\* The answer to s is queued, or in the writer's hands, or written.
IsQueued(s) == \E i \in DOMAIN replies_queue : replies_queue[i].seq = s
IsWriting(s) == writer.pc # "pull" /\ writer.rep.seq = s
IsWritten(s) == \E i \in DOMAIN wire : wire[i].seq = s
IsAnswered(s) == IsQueued(s) \/ IsWriting(s) \/ IsWritten(s)

\* Executing an unlink of s has put s in unlinked_seqnums_.
IsMarked(s) ==
    \E u \in DOMAIN sent :
        /\ IsUnlink(u) /\ sent[u].victim = s
        /\ u < Pulled \/ (u = Pulled /\ exec.pc \in {"pull", "reply"})

\* Commands are pulled in the order they were sent, and an unlink names an
\* earlier submit.
CommandOrder ==
    /\ Len(commands_queue) <= nread
    /\ \A i \in DOMAIN commands_queue : commands_queue[i] = Pulled + i
    /\ Busy => exec.cmd = Pulled
    /\ exec.pc = "push" => IsIn(exec.cmd)
    /\ exec.pc = "reply" => IsUnlink(exec.cmd)
    /\ \A u \in DOMAIN sent : IsUnlink(u) => sent[u].victim < u

InOf(ep, s) == IsIn(s) /\ Ep(s) = ep

\* What the threads hold was pulled, and is what they take it for.
SortedCommands ==
    \A ep \in Eps : \A i \in DOMAIN in_commands[ep] :
        Done(in_commands[ep][i]) /\ InOf(ep, in_commands[ep][i])

SortedHolding ==
    \A ep \in Eps : holding[ep] # NoCommand => Done(holding[ep]) /\ InOf(ep, holding[ep])

SortedTransfers ==
    \A a \in EpAddresses : \A i \in DOMAIN inflight[a] :
        /\ inflight[a][i] \in 1 .. Pulled
        /\ IsSubmit(inflight[a][i]) /\ sent[inflight[a][i]].at = a
        /\ a[2] = "out" => Done(inflight[a][i])

SortedAnswers ==
    /\ \A i \in DOMAIN replies_queue : Done(replies_queue[i].seq)
    /\ writer.pc # "pull" => Done(writer.rep.seq)
    /\ \A i \in DOMAIN wire : Done(wire[i].seq)

Sorted == SortedCommands /\ SortedHolding /\ SortedTransfers /\ SortedAnswers

\* s may be answered before t: they differ, and on one pipe s is the older one.
Before(s, t) ==
    /\ s # t
    /\ (IsIn(s) \/ IsOut(s)) /\ IsSubmit(t) /\ sent[s].at = sent[t].at => s < t

\* A command is in one place at most, once, and the commands of one pipe keep
\* their order from place to place.
InTurn ==
    /\ \A ep \in Eps : \A k, l \in DOMAIN in_commands[ep] :
           k < l => Before(in_commands[ep][k], in_commands[ep][l])
    /\ \A ep \in Eps : \A k \in DOMAIN in_commands[ep] :
           holding[ep] # NoCommand => Before(holding[ep], in_commands[ep][k])
    /\ \A a \in EpAddresses : \A k, l \in DOMAIN inflight[a] :
           k < l => Before(inflight[a][k], inflight[a][l])
    /\ exec.pc = "run" =>
           \A a \in EpAddresses : \A k \in DOMAIN inflight[a] : inflight[a][k] # exec.cmd

AnsweredInTurn ==
    /\ \A s, t \in Seqnums : IsAnswered(s) /\ InProgress(t) => Before(s, t)
    /\ \A k, l \in DOMAIN replies_queue :
           k < l => Before(replies_queue[k].seq, replies_queue[l].seq)
    /\ \A s, t \in Seqnums :
           /\ IsWriting(s) /\ IsQueued(t) => Before(s, t)
           /\ IsWritten(s) /\ (IsQueued(t) \/ IsWriting(t)) => Before(s, t)
    /\ \A k, l \in DOMAIN wire : k < l => Before(wire[k].seq, wire[l].seq)

\* Once the mark of an unlinked command has been used up no answer to it is
\* still to be checked; and an answer that passed the check goes out before
\* the RET_UNLINK does.
MarksHold ==
    /\ \A s \in Seqnums \ unlinked :
           IsMarked(s) => /\ ~InProgress(s) /\ ~IsQueued(s)
                          /\ ~(writer.pc = "check" /\ writer.rep.seq = s)
    /\ writer.pc = "write" =>
           \A i \in DOMAIN wire :
               IsUnlink(wire[i].seq) => sent[wire[i].seq].victim # writer.rep.seq
    /\ NoReplyAfterUnlink

\* What is unlinked is a URB.
UnlinksSubmits ==
    \A u \in DOMAIN sent :
        IsUnlink(u) => sent[u].victim \in DOMAIN sent /\ IsSubmit(sent[u].victim)

UnlinkInv ==
    UnlinksSubmits /\ CommandOrder /\ Sorted /\ InTurn /\ AnsweredInTurn /\ MarksHold

\* The commands of an IN endpoint that wait for data (in the hands of the
\* transfer thread, then queued, then about to be pushed), and the data and the
\* transfers that will become data, are the same commands in the same order
\* until a transfer is refused; from then on commands are left over.
InAddress(ep) == <<ep, "in">>
Pushing(ep) == IF exec.pc = "push" /\ Ep(exec.cmd) = ep THEN exec.cmd ELSE NoCommand

InHand(c) == IF c = NoCommand THEN 0 ELSE 1

WaiterAt(held, queue, pushing, i) ==
    IF i <= InHand(held) THEN held
    ELSE IF i <= InHand(held) + Len(queue) THEN queue[i - InHand(held)]
    ELSE pushing

SourceAt(data, transfers, i) ==
    IF i <= Len(data) THEN data[i].xfer ELSE transfers[i - Len(data)]

Aligned(held, queue, pushing, data, transfers, spoilt) ==
    LET waiters == InHand(held) + Len(queue) + InHand(pushing)
        sources == Len(data) + Len(transfers)
    IN  /\ sources <= waiters
        /\ sources = waiters => spoilt = {}
        /\ \A i \in 1 .. sources :
               MayAnswer(SourceAt(data, transfers, i), WaiterAt(held, queue, pushing, i), spoilt)
        /\ \A i \in sources + 1 .. waiters :
               \E r \in spoilt : r <= WaiterAt(held, queue, pushing, i)

Paired ==
    \A ep \in Eps : Aligned(holding[ep], in_commands[ep], Pushing(ep), in_data[ep],
                            inflight[InAddress(ep)], RefusedAt(InAddress(ep)))

Matches(r) == IsIn(r.seq) => MayAnswer(r.data.xfer, r.seq, RefusedAt(sent[r.seq].at))

AnswersMatch ==
    /\ \A i \in DOMAIN replies_queue : Matches(replies_queue[i])
    /\ writer.pc # "pull" => Matches(writer.rep)
    /\ \A i \in DOMAIN wire : Matches(wire[i])
=============================================================================
