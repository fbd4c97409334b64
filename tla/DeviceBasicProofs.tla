-------------------------- MODULE DeviceBasicProofs --------------------------
(***************************************************************************)
(* Proofs about DeviceBasic for every set of addresses, every set of       *)
(* outcomes and every number of commands.                                  *)
(***************************************************************************)
EXTENDS DeviceBasic, TLAPS

\* The types of the parameters of the model.
LEMMA ConstantFacts ==
    /\ Seqnums \subseteq Nat
    /\ 0 \notin Seqnums
    /\ \A ep \in Eps : ep # 0 /\ InAddress(ep) \in EpAddresses
    /\ \A a \in EpAddresses : /\ a = <<a[1], a[2]>>
                              /\ a[2] \in {"in", "out"}
                              /\ a[2] = "in" => a[1] \in Eps /\ a = InAddress(a[1])
                              /\ a \in Addresses
<1>1. Seqnums \subseteq Nat /\ 0 \notin Seqnums
  BY MaxCommandsAssumption DEF Seqnums
<1>2. \A ep \in Eps : ep # 0 /\ InAddress(ep) \in EpAddresses
  BY DEF Eps, EpAddresses, InAddress
<1>3. ASSUME NEW a \in EpAddresses
      PROVE  /\ a = <<a[1], a[2]>> /\ a[2] \in {"in", "out"} /\ a \in Addresses
             /\ a[2] = "in" => a[1] \in Eps /\ a = InAddress(a[1])
  <2>1. PICK n \in 0 .. 15, d \in {"in", "out"} : a = <<n, d>>
    BY AddressesAssumption DEF EpAddresses
  <2>2. n # 0 /\ a \in Addresses
    BY <2>1 DEF EpAddresses
  <2>3. QED
    BY <2>1, <2>2 DEF Eps, InAddress
<1>4. QED
  BY <1>1, <1>2, <1>3

\* What the constructors of records yield.
LEMMA RecordFacts ==
    /\ \A s \in Seqnums, st \in Status :
           [seq |-> s, data |-> NoData, status |-> st] \in Reply
    /\ \A s \in Seqnums, d \in TransferData, st \in Status :
           [seq |-> s, data |-> d, status |-> st] \in Reply
    /\ \A s \in Seqnums, o \in Outcomes : [xfer |-> s, outcome |-> o] \in TransferData
    /\ \A a \in Addresses : [req |-> "submit", at |-> a, victim |-> 0] \in Command
    /\ \A a \in Addresses, s \in Seqnums :
           [req |-> "unlink", at |-> a, victim |-> s] \in Command
    /\ \A r \in Reply : r.seq \in Seqnums
    /\ \A c \in Command : /\ c.at \in Addresses
                          /\ c.req = "unlink" => c.victim \in Seqnums
                          /\ c.req \in {"submit", "unlink"}
                          /\ c.req = "submit" => c.victim = 0
    /\ \A pc \in {"run", "push", "reply"}, s \in Seqnums, st \in Status :
           [pc |-> pc, cmd |-> s, status |-> st] \in ExecState
    /\ Idle \in ExecState /\ Idle.cmd = 0
    /\ \A e \in ExecState : /\ e.cmd \in Nat /\ e.pc \in {"pull", "run", "push", "reply"}
                            /\ e.pc # "pull" => e.cmd \in Seqnums /\ e.status \in Status
    /\ \A pc \in {"check", "write"}, r \in Reply : [pc |-> pc, rep |-> r] \in WriterState
    /\ Waiting \in WriterState
    /\ \A w \in WriterState : /\ w.pc \in {"pull", "check", "write"}
                              /\ w.pc # "pull" => w.rep \in Reply
    /\ "ok" \in Status /\ "ECONNRESET" \in Status
  BY ConstantFacts
     DEF Reply, TransferData, Command, ExecState, Idle, WriterState, Waiting,
         Status, NoCommand

\* Appending to one queue of a family of queues.
LEMMA AppendAt ==
    ASSUME NEW S, NEW D, NEW f \in [D -> Seq(S)], NEW d, NEW x \in S
    PROVE  [f EXCEPT ![d] = Append(@, x)] \in [D -> Seq(S)]
<1>1. CASE d \in D
  BY <1>1
<1>2. CASE d \notin D
  BY <1>2
<1>3. QED
  BY <1>1, <1>2

\* What Append and Tail do to the elements of a queue.
LEMMA AppendFacts ==
    ASSUME NEW S, NEW q \in Seq(S), NEW x \in S
    PROVE  /\ Len(q) \in Nat /\ DOMAIN q = 1 .. Len(q)
           /\ DOMAIN Append(q, x) = 1 .. Len(q) + 1 /\ Len(Append(q, x)) = Len(q) + 1
           /\ \A i \in 1 .. Len(q) : Append(q, x)[i] = q[i]
           /\ Append(q, x)[Len(q) + 1] = x
  OBVIOUS

LEMMA TailFacts ==
    ASSUME NEW S, NEW q \in Seq(S), q # << >>
    PROVE  /\ Len(q) \in Nat /\ Len(q) >= 1 /\ DOMAIN q = 1 .. Len(q)
           /\ Head(q) = q[1] /\ Head(q) \in S
           /\ DOMAIN Tail(q) = 1 .. Len(q) - 1 /\ Len(Tail(q)) = Len(q) - 1
           /\ \A i \in 1 .. Len(q) - 1 : Tail(q)[i] = q[i + 1]
  OBVIOUS

\* A transfer that libusb takes or refuses.
LEMMA SubmitTypes ==
    ASSUME inflight \in [EpAddresses -> Seq(Seqnums)], refused \subseteq 1 .. nread,
           exec.cmd \in Seqnums, exec.cmd \in 1 .. nread, SubmitTransfer
    PROVE  inflight' \in [EpAddresses -> Seq(Seqnums)] /\ refused' \subseteq 1 .. nread
<1>1. CASE /\ inflight' = [inflight EXCEPT ![sent[exec.cmd].at] = Append(@, exec.cmd)]
           /\ refused' = refused
  BY <1>1, AppendAt
<1>2. CASE refused' = refused \cup {exec.cmd} /\ inflight' = inflight
  BY <1>2
<1>3. QED
  BY <1>1, <1>2 DEF SubmitTransfer

\* Types are preserved by every step.
LEMMA TypeStep == ASSUME TypeOK, [Next]_vars PROVE TypeOK'
<1> USE ConstantFacts, RecordFacts DEF NoCommand
<1> USE DEF TypeOK
<1>1. ASSUME NEW a \in Addresses, HostSubmit(a) PROVE TypeOK'
  BY <1>1, MaxCommandsAssumption DEF HostSubmit
<1>2. ASSUME NEW v \in DOMAIN sent, HostUnlink(v) PROVE TypeOK'
  <2>1. v \in Seqnums /\ sent[v].at \in Addresses
    BY MaxCommandsAssumption DEF Seqnums
  <2>2. QED
    BY <1>2, <2>1, MaxCommandsAssumption DEF HostUnlink
<1>3. CASE CommandProduce
  <2>1. nread + 1 \in Seqnums
    BY <1>3, MaxCommandsAssumption DEF CommandProduce, Seqnums
  <2>2. QED
    BY <1>3, <2>1 DEF CommandProduce
<1>4. CASE ExecutePull
  BY <1>4, SMTT(30) DEF ExecutePull
<1>5. CASE ExecuteControl
  <2>1. exec.cmd \in Seqnums
             /\ [seq |-> exec.cmd, data |-> NoData, status |-> "ok"] \in Reply
    BY <1>5 DEF ExecuteControl
  <2>2. QED
    BY <1>5, <2>1 DEF ExecuteControl
<1>6. CASE ReadDataFromDevice
  <2>1. exec.cmd \in Seqnums /\ exec' \in ExecState
    BY <1>6 DEF ReadDataFromDevice
  <2>2. exec.cmd \in 1 .. nread
    BY <2>1 DEF Seqnums
  <2>3. inflight' \in [EpAddresses -> Seq(Seqnums)] /\ refused' \subseteq 1 .. nread
    BY <1>6, <2>1, <2>2, SubmitTypes DEF ReadDataFromDevice
  <2>4. QED
    BY <1>6, <2>1, <2>3, SMTT(30) DEF ReadDataFromDevice
<1>7. CASE PushInCommand
  <2>1. exec.cmd \in Seqnums
    BY <1>7 DEF PushInCommand
  <2>2. in_commands' \in [Eps -> Seq(Seqnums)]
    BY <1>7, <2>1, AppendAt DEF PushInCommand
  <2>3. QED
    BY <1>7, <2>1, <2>2, SMTT(30) DEF PushInCommand
<1>8. CASE SendDataToDevice
  <2>1. exec.cmd \in Seqnums
    BY <1>8 DEF SendDataToDevice
  <2>2. exec.cmd \in 1 .. nread
    BY <2>1 DEF Seqnums
  <2>3. inflight' \in [EpAddresses -> Seq(Seqnums)] /\ refused' \subseteq 1 .. nread
    BY <1>8, <2>1, <2>2, SubmitTypes DEF SendDataToDevice
  <2>4. QED
    BY <1>8, <2>1, <2>3, SMTT(30) DEF SendDataToDevice
<1>9. CASE UnlinkMark
  <2>1. exec.cmd \in Seqnums /\ exec' \in ExecState
    BY <1>9 DEF UnlinkMark
  <2>2. exec.cmd \in DOMAIN sent /\ sent[exec.cmd] \in Command
    BY <2>1, MaxCommandsAssumption DEF Seqnums
  <2>3. sent[exec.cmd].victim \in Seqnums
    BY <1>9, <2>2 DEF UnlinkMark, IsUnlink
  <2>4. QED
    BY <1>9, <2>1, <2>3 DEF UnlinkMark
<1>10. CASE UnlinkReply
  <2>1. exec.cmd \in Seqnums
             /\ [seq |-> exec.cmd, data |-> NoData, status |-> exec.status] \in Reply
    BY <1>10 DEF UnlinkReply
  <2>2. QED
    BY <1>10, <2>1 DEF UnlinkReply
<1>11. ASSUME NEW a \in EpAddresses, CompleteOut(a) PROVE TypeOK'
  BY <1>11, SMTT(30) DEF CompleteOut
<1>12. ASSUME NEW a \in EpAddresses, NEW o \in Outcomes, CompleteIn(a, o)
       PROVE TypeOK'
  BY <1>12, SMTT(30) DEF CompleteIn
<1>13. ASSUME NEW ep \in Eps, TransferPull(ep) PROVE TypeOK'
  BY <1>13, SMTT(30) DEF TransferPull
<1>14. ASSUME NEW ep \in Eps, SendDataToHost(ep) PROVE TypeOK'
  BY <1>14, SMTT(30) DEF SendDataToHost
<1>15. CASE ReplyPull
  BY <1>15 DEF ReplyPull
<1>16. CASE ReplyDrop
  BY <1>16 DEF ReplyDrop
<1>17. CASE ReplyKeep
  BY <1>17 DEF ReplyKeep
<1>18. CASE ReplyWrite
  BY <1>18 DEF ReplyWrite
<1>19. CASE UNCHANGED vars
  BY <1>19 DEF vars
<1>20. QED
  BY <1>1, <1>2, <1>3, <1>4, <1>5, <1>6, <1>7, <1>8, <1>9, <1>10, <1>11,
     <1>12, <1>13, <1>14, <1>15, <1>16, <1>17, <1>18, <1>19
     DEF Next, Host, Executor, Complete, Transfer, Writer

\* Every variable has the type the code gives it: an inductive invariant.
THEOREM TypeCorrect == Spec => []TypeOK
<1>1. Init => TypeOK
  BY ConstantFacts, RecordFacts, MaxCommandsAssumption DEF Init, TypeOK, NoCommand
<1>2. QED
  BY <1>1, TypeStep, PTL DEF Spec
-----------------------------------------------------------------------------
(* The order in which commands are pulled. *)

\* Commands the host has sent stay as they are.
LEMMA SentStep ==
    ASSUME TypeOK, [Next]_vars
    PROVE  /\ Len(sent') \in Nat /\ Len(sent) <= Len(sent')
           /\ \A s \in 1 .. Len(sent) : sent'[s] = sent[s]
<1>1. ASSUME NEW a \in Addresses, HostSubmit(a)
      PROVE  sent' = sent \/ \E c \in Command : sent' = Append(sent, c)
  BY <1>1, RecordFacts DEF HostSubmit
<1>2. ASSUME NEW v \in DOMAIN sent, HostUnlink(v)
      PROVE  sent' = sent \/ \E c \in Command : sent' = Append(sent, c)
  <2>1. v \in Seqnums /\ sent[v] \in Command
    BY MaxCommandsAssumption DEF Seqnums, TypeOK
  <2>2. QED
    BY <1>2, <2>1, RecordFacts DEF HostUnlink
<1>3. ASSUME ~Host PROVE sent' = sent
  BY <1>3 DEF Next, Executor, Complete, Transfer, Writer, CommandProduce,
     ExecutePull, ExecuteControl, ReadDataFromDevice, PushInCommand,
     SendDataToDevice, UnlinkMark, UnlinkReply, CompleteOut, CompleteIn,
     TransferPull, SendDataToHost, ReplyPull, ReplyDrop, ReplyKeep, ReplyWrite, vars
<1>4. sent' = sent \/ \E c \in Command : sent' = Append(sent, c)
  BY <1>1, <1>2, <1>3 DEF Host
<1>5. sent \in Seq(Command) /\ Len(sent) \in Nat
  BY DEF TypeOK
<1>6. CASE sent' = sent
  BY <1>5, <1>6
<1>7. ASSUME NEW c \in Command, sent' = Append(sent, c)
      PROVE  /\ Len(sent') \in Nat /\ Len(sent) <= Len(sent')
             /\ \A s \in 1 .. Len(sent) : sent'[s] = sent[s]
  BY <1>5, <1>7
<1>8. QED
  BY <1>4, <1>6, <1>7

\* The executor has pulled a prefix of the commands.
LEMMA PulledFacts ==
    ASSUME TypeOK, CommandOrder
    PROVE  /\ Pulled \in Nat /\ Pulled <= nread /\ nread <= Len(sent)
           /\ \A s \in 1 .. Pulled : s \in DOMAIN sent
           /\ Busy => exec.cmd = Pulled /\ Pulled \in 1 .. Pulled
           /\ DOMAIN sent = 1 .. Len(sent) /\ Len(sent) \in Nat
  BY RecordFacts, ConstantFacts DEF TypeOK, CommandOrder, Pulled, Busy

\* The predicates on a command the host has sent do not change.
LEMMA SentPredicates ==
    ASSUME TypeOK, [Next]_vars, NEW s \in 1 .. Len(sent)
    PROVE  /\ sent'[s] = sent[s] /\ s \in 1 .. Len(sent')
           /\ IsSubmit(s)' = IsSubmit(s) /\ IsUnlink(s)' = IsUnlink(s)
           /\ IsIn(s)' = IsIn(s) /\ Ep(s)' = Ep(s)
  BY SentStep DEF TypeOK, IsSubmit, IsUnlink, IsIn, Ep
\* CommandOrder is inductive, and what the executor is through with stays so.
LEMMA OrderStep ==
    ASSUME TypeOK, CommandOrder, [Next]_vars
    PROVE  /\ CommandOrder'
           /\ Pulled' \in Nat /\ Pulled <= Pulled'
           /\ \A s : Done(s) => Done(s)'
<1>1. CASE Host
  <2>1. UNCHANGED <<nread, commands_queue, exec>>
    BY <1>1 DEF Host, HostSubmit, HostUnlink
  <2>2. \A u \in DOMAIN sent' : (sent'[u].req = "unlink") => sent'[u].victim < u
    <3>1. ASSUME NEW a \in Addresses, HostSubmit(a)
          PROVE  \A u \in DOMAIN sent' : (sent'[u].req = "unlink") => sent'[u].victim < u
      BY <3>1 DEF HostSubmit, TypeOK, CommandOrder, IsUnlink
    <3>2. ASSUME NEW v \in DOMAIN sent, HostUnlink(v)
          PROVE  \A u \in DOMAIN sent' : (sent'[u].req = "unlink") => sent'[u].victim < u
      BY <3>2 DEF HostUnlink, TypeOK, CommandOrder, IsUnlink
    <3>3. QED
      BY <1>1, <3>1, <3>2 DEF Host
  <2>3. /\ exec.pc = "push" => IsIn(exec.cmd)'
        /\ exec.pc = "reply" => IsUnlink(exec.cmd)'
    BY <2>1, PulledFacts, SentPredicates DEF CommandOrder, Busy
  <2>4. QED
    BY <2>1, <2>2, <2>3, PulledFacts DEF CommandOrder, Pulled, Busy, Done, IsUnlink
<1>2. CASE CommandProduce
  <2>1. Pulled' = Pulled /\ UNCHANGED <<sent, exec>>
    BY <1>2 DEF CommandProduce, Pulled, TypeOK
  <2>2. \A i \in DOMAIN commands_queue' : commands_queue'[i] = Pulled + i
    <3>1. /\ commands_queue \in Seq(Seqnums) /\ nread + 1 \in Seqnums
          /\ commands_queue' = Append(commands_queue, nread + 1)
      BY <1>2, MaxCommandsAssumption DEF CommandProduce, TypeOK, Seqnums
    <3>2. Pulled = nread - Len(commands_queue) /\ nread \in Nat /\ Len(commands_queue) \in Nat
      BY DEF Pulled, TypeOK
    <3>3. \A i \in 1 .. Len(commands_queue) : commands_queue[i] = Pulled + i
      BY <3>1 DEF CommandOrder
    <3>4. QED
      BY <3>1, <3>2, <3>3, AppendFacts
  <2>3. Len(commands_queue') <= nread'
    BY <1>2 DEF CommandProduce, TypeOK, CommandOrder
  <2>4. QED
    BY <2>1, <2>2, <2>3, PulledFacts DEF CommandOrder, Busy, Done, IsIn, IsSubmit, IsUnlink
<1>3. CASE ExecutePull
  <2>1. /\ Pulled' = Pulled + 1 /\ UNCHANGED <<sent, nread>>
        /\ exec'.pc = "run" /\ exec'.cmd = Pulled + 1 /\ ~Busy
    BY <1>3, PulledFacts DEF ExecutePull, Pulled, TypeOK, CommandOrder, Busy
  <2>2. \A i \in DOMAIN commands_queue' : commands_queue'[i] = Pulled + 1 + i
    <3>1. /\ commands_queue \in Seq(Seqnums) /\ commands_queue # << >>
          /\ commands_queue' = Tail(commands_queue)
      BY <1>3 DEF ExecutePull, TypeOK
    <3>2. \A i \in 1 .. Len(commands_queue) : commands_queue[i] = Pulled + i
      BY <3>1 DEF CommandOrder
    <3>3. ASSUME NEW i \in DOMAIN commands_queue'
          PROVE  commands_queue'[i] = Pulled + 1 + i
      <4>1. i \in 1 .. Len(commands_queue) - 1 /\ Len(commands_queue) \in Nat
        BY <3>1, TailFacts
      <4>2. commands_queue'[i] = commands_queue[i + 1]
        BY <3>1, <4>1, TailFacts
      <4>3. commands_queue[i + 1] = Pulled + (i + 1)
        BY <3>2, <4>1
      <4>4. QED
        BY <4>1, <4>2, <4>3, PulledFacts
    <3>4. QED
      BY <3>3
  <2>3. Len(commands_queue') <= nread'
    BY <1>3 DEF ExecutePull, TypeOK, CommandOrder
  <2>4. QED
    BY <2>1, <2>2, <2>3, PulledFacts DEF CommandOrder, Busy, Done, IsIn, IsSubmit, IsUnlink
<1>4. CASE ReadDataFromDevice \/ UnlinkMark
  BY <1>4, PulledFacts DEF ReadDataFromDevice, UnlinkMark, CommandOrder, Pulled, Busy, Done,
     IsIn, IsUnlink, IsSubmit
<1>5. CASE ExecuteControl \/ PushInCommand \/ SendDataToDevice \/ UnlinkReply
  BY <1>5, PulledFacts DEF ExecuteControl, PushInCommand, SendDataToDevice, UnlinkReply,
     CommandOrder, Pulled, Busy, Done, Idle, IsIn, IsUnlink, IsSubmit
<1>6. CASE UNCHANGED <<sent, nread, commands_queue, exec>>
  BY <1>6, PulledFacts DEF CommandOrder, Pulled, Busy, Done, IsIn, IsUnlink, IsSubmit
<1>7. QED
  BY <1>1, <1>2, <1>3, <1>4, <1>5, <1>6
     DEF Next, Executor, Complete, Transfer, Writer, CompleteOut, CompleteIn,
         TransferPull, SendDataToHost, ReplyPull, ReplyDrop, ReplyKeep, ReplyWrite, vars
\* Which steps change which of the variables the threads share.
LEMMA WhoChanges ==
    ASSUME [Next]_vars
    PROVE  /\ \/ in_commands' = in_commands
              \/ PushInCommand
              \/ \E ep \in Eps : TransferPull(ep)
           /\ \/ holding' = holding
              \/ \E ep \in Eps : TransferPull(ep)
              \/ \E ep \in Eps : SendDataToHost(ep)
           /\ \/ inflight' = inflight
              \/ ReadDataFromDevice
              \/ SendDataToDevice
              \/ \E a \in EpAddresses : CompleteOut(a)
              \/ \E a \in EpAddresses, o \in Outcomes : CompleteIn(a, o)
           /\ \/ in_data' = in_data
              \/ \E a \in EpAddresses, o \in Outcomes : CompleteIn(a, o)
              \/ \E ep \in Eps : SendDataToHost(ep)
           /\ \/ replies_queue' = replies_queue
              \/ ExecuteControl
              \/ UnlinkReply
              \/ \E a \in EpAddresses : CompleteOut(a)
              \/ \E ep \in Eps : SendDataToHost(ep)
              \/ ReplyPull
           /\ \/ writer' = writer
              \/ ReplyPull
              \/ ReplyDrop
              \/ ReplyKeep
              \/ ReplyWrite
           /\ wire' = wire \/ ReplyWrite
           /\ unlinked' = unlinked \/ UnlinkMark \/ ReplyDrop
           /\ refused' = refused \/ ReadDataFromDevice \/ SendDataToDevice
  BY DEF Next, Host, HostSubmit, HostUnlink, CommandProduce, Executor, ExecutePull,
     ExecuteControl, ReadDataFromDevice, PushInCommand, SendDataToDevice,
     UnlinkMark, UnlinkReply, Complete, CompleteOut, CompleteIn, Transfer,
     TransferPull, SendDataToHost, Writer, ReplyPull, ReplyDrop, ReplyKeep,
     ReplyWrite, vars

\* A command that goes from the executor to a thread is one it is through with.
LEMMA HandedOver ==
    ASSUME TypeOK, CommandOrder, [Next]_vars, Busy, ~Busy'
    PROVE  exec.cmd \in 1 .. Pulled' /\ exec.cmd \in 1 .. Len(sent) /\ exec.cmd \in Seqnums
<1>1. exec.cmd = Pulled /\ Pulled \in 1 .. Pulled /\ exec.cmd \in 1 .. Len(sent)
  BY PulledFacts
<1>2. Pulled' \in Nat /\ Pulled <= Pulled' /\ Pulled \in Nat
  BY OrderStep, PulledFacts
<1>3. exec.cmd \in Seqnums
  BY RecordFacts DEF TypeOK, Busy
<1>4. QED
  BY <1>1, <1>2, <1>3

\* The element an Append or a Tail leaves at a place of a queue was in the queue
\* before, or is the appended one; the other queues of a family are left alone.
LEMMA AppendElement ==
    ASSUME NEW S, NEW q \in Seq(S), NEW x \in S, NEW i \in DOMAIN Append(q, x)
    PROVE  (i \in DOMAIN q /\ Append(q, x)[i] = q[i]) \/ (i = Len(q) + 1 /\ Append(q, x)[i] = x)
  BY AppendFacts

LEMMA AppendAtElement ==
    ASSUME NEW S, NEW D, NEW f \in [D -> Seq(S)], NEW d, NEW x \in S,
           NEW e \in D, NEW i \in DOMAIN [f EXCEPT ![d] = Append(@, x)][e]
    PROVE  \/ i \in DOMAIN f[e] /\ [f EXCEPT ![d] = Append(@, x)][e][i] = f[e][i]
           \/ e = d /\ [f EXCEPT ![d] = Append(@, x)][e][i] = x
<1>1. CASE e = d
  <2>1. [f EXCEPT ![d] = Append(@, x)][e] = Append(f[e], x)
    BY <1>1
  <2>2. QED
    BY <1>1, <2>1, AppendElement
<1>2. CASE e # d
  BY <1>2
<1>3. QED
  BY <1>1, <1>2

LEMMA TailAtElement ==
    ASSUME NEW S, NEW D, NEW f \in [D -> Seq(S)], NEW d \in D, f[d] # << >>,
           NEW e \in D, NEW i \in DOMAIN [f EXCEPT ![d] = Tail(@)][e]
    PROVE  \E j \in DOMAIN f[e] : [f EXCEPT ![d] = Tail(@)][e][i] = f[e][j]
<1>1. CASE e = d
  <2>1. [f EXCEPT ![d] = Tail(@)][e] = Tail(f[e])
    BY <1>1
  <2>2. i + 1 \in DOMAIN f[e] /\ Tail(f[e])[i] = f[e][i + 1]
    BY <1>1, <2>1, TailFacts
  <2>3. QED
    BY <2>1, <2>2
<1>2. CASE e # d
  BY <1>2
<1>3. QED
  BY <1>1, <1>2

\* Sorted is preserved: what goes from queue to queue stays what it is.
LEMMA SortedStep ==
    ASSUME TypeOK, CommandOrder, Sorted, [Next]_vars
    PROVE  Sorted'
<1> USE DEF Sorted
<1> DEFINE After(s) == s \in 1 .. Pulled' /\ (Busy' => s < Pulled')
           InAfter(ep, s) == /\ sent'[s].req = "submit" /\ sent'[s].at[1] # 0
                             /\ sent'[s].at[2] = "in" /\ sent'[s].at[1] = ep
           OkAfter(a, s) == /\ s \in 1 .. Pulled' /\ sent'[s].req = "submit"
                            /\ sent'[s].at = a /\ (a[2] = "out" => After(s))
<1>1. \A s : Done(s) => After(s) /\ s \in 1 .. Len(sent)
  BY OrderStep, PulledFacts DEF Done
<1>2. \A s \in 1 .. Pulled : s \in 1 .. Pulled' /\ s \in 1 .. Len(sent)
  BY OrderStep, PulledFacts
<1>3. \A s \in 1 .. Len(sent) : sent'[s] = sent[s]
  BY SentStep
<1>4. \A ep, s : Done(s) /\ InOf(ep, s) => After(s) /\ InAfter(ep, s)
  BY <1>1, <1>3 DEF InOf, IsIn, IsSubmit, Ep
<1>5. ASSUME Busy, ~Busy' PROVE After(exec.cmd)
  BY <1>5, HandedOver
<1>6. ASSUME \A ep \in Eps : \A i \in DOMAIN in_commands'[ep] :
                 After(in_commands'[ep][i]) /\ InAfter(ep, in_commands'[ep][i])
      PROVE  SortedCommands'
  BY <1>6 DEF SortedCommands, Done, InOf, IsIn, IsSubmit, Ep
<1>7. ASSUME \A ep \in Eps : holding'[ep] # NoCommand =>
                 After(holding'[ep]) /\ InAfter(ep, holding'[ep])
      PROVE  SortedHolding'
  BY <1>7 DEF SortedHolding, Done, InOf, IsIn, IsSubmit, Ep
<1>8. ASSUME \A a \in EpAddresses : \A i \in DOMAIN inflight'[a] : OkAfter(a, inflight'[a][i])
      PROVE  SortedTransfers'
  BY <1>8 DEF SortedTransfers, Done, IsSubmit
<1>9. ASSUME \A i \in DOMAIN replies_queue' : After(replies_queue'[i].seq),
             writer'.pc # "pull" => After(writer'.rep.seq),
             \A i \in DOMAIN wire' : After(wire'[i].seq)
      PROVE  SortedAnswers'
  BY <1>9 DEF SortedAnswers, Done
<1>10. \A a \in EpAddresses : \A i \in DOMAIN inflight[a] :
           /\ OkAfter(a, inflight[a][i])
           /\ a[2] = "out" => After(inflight[a][i])
  BY <1>1, <1>2, <1>3 DEF SortedTransfers, IsSubmit
<1>11. ASSUME ReadDataFromDevice \/ SendDataToDevice, inflight' # inflight
       PROVE  /\ OkAfter(sent[exec.cmd].at, exec.cmd) /\ exec.cmd \in Seqnums
              /\ inflight' = [inflight EXCEPT ![sent[exec.cmd].at] = Append(@, exec.cmd)]
  <2>1. Busy /\ IsSubmit(exec.cmd) /\ exec.cmd \in 1 .. Pulled
    BY <1>11, PulledFacts DEF ReadDataFromDevice, SendDataToDevice, Busy, IsIn, IsOut
  <2>2. exec.cmd \in Seqnums
    BY <2>1, RecordFacts DEF TypeOK, Busy
  <2>3. sent[exec.cmd].at[2] = "out" => After(exec.cmd)
    BY <1>11, <2>1, <1>5 DEF ReadDataFromDevice, SendDataToDevice, Busy, Idle, IsIn
  <2>4. QED
    BY <1>11, <2>1, <2>2, <2>3, <1>2, <1>3 DEF ReadDataFromDevice, SendDataToDevice,
       SubmitTransfer, IsSubmit
<1>12. ASSUME NEW r \in Reply, After(r.seq), replies_queue' = Append(replies_queue, r)
       PROVE  \A i \in DOMAIN replies_queue' : After(replies_queue'[i].seq)
  <2>1. replies_queue \in Seq(Reply)
    BY DEF TypeOK
  <2>2. \A i \in DOMAIN replies_queue' :
            \/ i \in DOMAIN replies_queue /\ replies_queue'[i] = replies_queue[i]
            \/ replies_queue'[i] = r
    BY <1>12, <2>1, AppendElement
  <2>3. QED
    BY <1>12, <2>2, <1>1 DEF SortedAnswers
<1> HIDE DEF After, InAfter, OkAfter
<1>13. SortedCommands'
  <2>1. CASE in_commands' = in_commands
    BY <2>1, <1>4, <1>6 DEF SortedCommands
  <2>2. CASE PushInCommand
    <3>1. Busy /\ ~Busy' /\ exec.pc = "push"
      BY <2>2 DEF PushInCommand, Busy, Idle
    <3>2. After(exec.cmd) /\ exec.cmd \in Seqnums /\ IsIn(exec.cmd) /\ exec.cmd \in 1 .. Len(sent)
      BY <3>1, <1>5, HandedOver DEF CommandOrder
    <3>3. InAfter(Ep(exec.cmd), exec.cmd)
      BY <3>2, <1>3 DEF InAfter, IsIn, IsSubmit, Ep
    <3>4. in_commands' = [in_commands EXCEPT ![Ep(exec.cmd)] = Append(@, exec.cmd)]
      BY <2>2 DEF PushInCommand
    <3>5. in_commands \in [Eps -> Seq(Seqnums)]
      BY DEF TypeOK
    <3>6. \A ep \in Eps : \A i \in DOMAIN in_commands'[ep] :
             \/ i \in DOMAIN in_commands[ep] /\ in_commands'[ep][i] = in_commands[ep][i]
             \/ ep = Ep(exec.cmd) /\ in_commands'[ep][i] = exec.cmd
      BY <3>2, <3>4, <3>5, AppendAtElement
    <3>7. QED
      BY <3>2, <3>3, <3>6, <1>4, <1>6 DEF SortedCommands
  <2>3. ASSUME NEW e \in Eps, TransferPull(e) PROVE SortedCommands'
    <3>1. /\ in_commands[e] # << >> /\ in_commands \in [Eps -> Seq(Seqnums)]
          /\ in_commands' = [in_commands EXCEPT ![e] = Tail(@)]
      BY <2>3 DEF TransferPull, TypeOK
    <3>2. \A ep \in Eps : \A i \in DOMAIN in_commands'[ep] :
              \E j \in DOMAIN in_commands[ep] : in_commands'[ep][i] = in_commands[ep][j]
      BY <3>1, TailAtElement
    <3>3. QED
      BY <3>2, <1>4, <1>6 DEF SortedCommands
  <2>4. QED
    BY <2>1, <2>2, <2>3, WhoChanges
<1>14. SortedHolding'
  <2>1. CASE holding' = holding
    BY <2>1, <1>4, <1>7 DEF SortedHolding
  <2>2. ASSUME NEW e \in Eps, TransferPull(e) PROVE SortedHolding'
    <3>1. Head(in_commands[e]) = in_commands[e][1] /\ 1 \in DOMAIN in_commands[e]
      BY <2>2, TailFacts DEF TransferPull, TypeOK
    <3>2. After(Head(in_commands[e])) /\ InAfter(e, Head(in_commands[e]))
      BY <3>1, <1>4 DEF SortedCommands
    <3>3. \A ep \in Eps : holding'[ep] = holding[ep] \/ (ep = e /\ holding'[ep] = Head(in_commands[e]))
      BY <2>2 DEF TransferPull, TypeOK
    <3>4. QED
      BY <3>2, <3>3, <1>4, <1>7 DEF SortedHolding
  <2>3. ASSUME NEW e \in Eps, SendDataToHost(e) PROVE SortedHolding'
    <3>1. \A ep \in Eps : holding'[ep] = holding[ep] \/ holding'[ep] = NoCommand
      BY <2>3 DEF SendDataToHost, TypeOK
    <3>2. QED
      BY <3>1, <1>4, <1>7 DEF SortedHolding
  <2>4. QED
    BY <2>1, <2>2, <2>3, WhoChanges
<1>15. SortedTransfers'
  <2>1. inflight \in [EpAddresses -> Seq(Seqnums)]
    BY DEF TypeOK
  <2>2. CASE inflight' = inflight
    BY <2>2, <1>8, <1>10
  <2>3. CASE (ReadDataFromDevice \/ SendDataToDevice) /\ inflight' # inflight
    <3>1. \A a \in EpAddresses : \A i \in DOMAIN inflight'[a] :
             \/ i \in DOMAIN inflight[a] /\ inflight'[a][i] = inflight[a][i]
             \/ a = sent[exec.cmd].at /\ inflight'[a][i] = exec.cmd
      <4>1. /\ exec.cmd \in Seqnums
            /\ inflight' = [inflight EXCEPT ![sent[exec.cmd].at] = Append(@, exec.cmd)]
        BY <2>3, <1>11
      <4>2. QED
        BY <2>1, <4>1, AppendAtElement
    <3>2. QED
      BY <3>1, <2>3, <1>8, <1>10, <1>11
  <2>4. ASSUME NEW b \in EpAddresses, CompleteOut(b) \/ \E o \in Outcomes : CompleteIn(b, o)
        PROVE  SortedTransfers'
    <3>1. inflight[b] # << >> /\ inflight' = [inflight EXCEPT ![b] = Tail(@)]
      BY <2>4 DEF CompleteOut, CompleteIn
    <3>2. \A a \in EpAddresses : \A i \in DOMAIN inflight'[a] :
              \E j \in DOMAIN inflight[a] : inflight'[a][i] = inflight[a][j]
      BY <2>1, <3>1, TailAtElement
    <3>3. QED
      BY <3>2, <1>8, <1>10
  <2>5. QED
    BY <2>2, <2>3, <2>4, WhoChanges
<1>16. \A i \in DOMAIN replies_queue' : After(replies_queue'[i].seq)
  <2>1. CASE replies_queue' = replies_queue
    BY <2>1, <1>1 DEF SortedAnswers
  <2>2. CASE ExecuteControl \/ UnlinkReply
    <3>1. Busy /\ ~Busy'
      BY <2>2 DEF ExecuteControl, UnlinkReply, Busy, Idle
    <3>2. After(exec.cmd) /\ exec.cmd \in Seqnums /\ exec.status \in Status
      BY <3>1, <1>5, RecordFacts DEF TypeOK, Busy
    <3>3. \E st \in Status : replies_queue' =
             Append(replies_queue, [seq |-> exec.cmd, data |-> NoData, status |-> st])
      BY <2>2, <3>2, RecordFacts DEF ExecuteControl, UnlinkReply
    <3>4. QED
      BY <3>2, <3>3, <1>12, RecordFacts
  <2>3. ASSUME NEW a \in EpAddresses, CompleteOut(a)
        PROVE  \A i \in DOMAIN replies_queue' : After(replies_queue'[i].seq)
    <3>1. inflight[a] \in Seq(Seqnums) /\ inflight[a] # << >> /\ a[2] = "out"
      BY <2>3 DEF TypeOK, CompleteOut
    <3>2. /\ Head(inflight[a]) = inflight[a][1] /\ 1 \in DOMAIN inflight[a]
          /\ Head(inflight[a]) \in Seqnums
      BY <3>1, TailFacts
    <3>3. After(Head(inflight[a]))
      BY <3>1, <3>2, <1>10
    <3>4. [seq |-> Head(inflight[a]), data |-> NoData, status |-> "ok"] \in Reply
      BY <3>2, RecordFacts
    <3>5. replies_queue' = Append(replies_queue,
               [seq |-> Head(inflight[a]), data |-> NoData, status |-> "ok"])
      BY <2>3 DEF CompleteOut
    <3>6. QED
      BY <3>3, <3>4, <3>5, <1>12
  <2>4. ASSUME NEW ep \in Eps, SendDataToHost(ep)
        PROVE  \A i \in DOMAIN replies_queue' : After(replies_queue'[i].seq)
    <3>1. /\ holding[ep] \in Seqnums /\ holding[ep] # NoCommand
          /\ in_data[ep] \in Seq(TransferData) /\ in_data[ep] # << >>
      BY <2>4 DEF SendDataToHost, TypeOK
    <3>2. After(holding[ep])
      BY <3>1, <1>1 DEF SortedHolding
    <3>3. Head(in_data[ep]) \in TransferData
      BY <3>1, TailFacts
    <3>4. [seq |-> holding[ep], data |-> Head(in_data[ep]), status |-> "ok"] \in Reply
      BY <3>1, <3>3, RecordFacts
    <3>5. replies_queue' = Append(replies_queue,
               [seq |-> holding[ep], data |-> Head(in_data[ep]), status |-> "ok"])
      BY <2>4 DEF SendDataToHost
    <3>6. QED
      BY <3>2, <3>4, <3>5, <1>12
  <2>5. CASE ReplyPull
    <3>1. /\ replies_queue \in Seq(Reply) /\ replies_queue # << >>
          /\ replies_queue' = Tail(replies_queue)
      BY <2>5 DEF ReplyPull, TypeOK
    <3>2. \A i \in DOMAIN replies_queue' :
              i + 1 \in DOMAIN replies_queue /\ replies_queue'[i] = replies_queue[i + 1]
      BY <3>1, TailFacts
    <3>3. QED
      BY <3>2, <1>1 DEF SortedAnswers
  <2>6. QED
    BY <2>1, <2>2, <2>3, <2>4, <2>5, WhoChanges
<1>17. writer'.pc # "pull" => After(writer'.rep.seq)
  <2>1. CASE writer' = writer
    BY <2>1, <1>1 DEF SortedAnswers
  <2>2. CASE ReplyPull
    <3>1. replies_queue \in Seq(Reply) /\ replies_queue # << >>
      BY <2>2 DEF ReplyPull, TypeOK
    <3>2. Head(replies_queue) = replies_queue[1] /\ 1 \in DOMAIN replies_queue
      BY <3>1, TailFacts
    <3>3. QED
      BY <2>2, <3>2, <1>1 DEF ReplyPull, SortedAnswers
  <2>3. CASE ReplyDrop \/ ReplyWrite
    BY <2>3 DEF ReplyDrop, ReplyWrite, Waiting
  <2>4. CASE ReplyKeep
    BY <2>4, <1>1 DEF ReplyKeep, SortedAnswers
  <2>5. QED
    BY <2>1, <2>2, <2>3, <2>4, WhoChanges
<1>18. \A i \in DOMAIN wire' : After(wire'[i].seq)
  <2>1. CASE wire' = wire
    BY <2>1, <1>1 DEF SortedAnswers
  <2>2. CASE ReplyWrite
    <3>1. wire \in Seq(Reply) /\ writer.rep \in Reply /\ writer.pc # "pull"
      BY <2>2, RecordFacts DEF ReplyWrite, TypeOK
    <3>2. wire' = Append(wire, writer.rep)
      BY <2>2 DEF ReplyWrite
    <3>3. \A i \in DOMAIN wire' : \/ i \in DOMAIN wire /\ wire'[i] = wire[i]
                                  \/ wire'[i] = writer.rep
      BY <3>1, <3>2, AppendElement
    <3>4. QED
      BY <3>1, <3>3, <1>1 DEF SortedAnswers
  <2>3. QED
    BY <2>1, <2>2, WhoChanges
<1>19. QED
  BY <1>9, <1>13, <1>14, <1>15, <1>16, <1>17, <1>18
-----------------------------------------------------------------------------
(* Commands and data of an IN endpoint pair up. *)

\* What is known of one endpoint.
Waiters(H, C, X) == InHand(H) + Len(C) + InHand(X)
Sources(D, F) == Len(D) + Len(F)

LEMMA AlignedFacts ==
    ASSUME NEW H \in Seqnums \cup {0}, NEW C \in Seq(Seqnums), NEW X \in Seqnums \cup {0},
           NEW D \in Seq(TransferData), NEW F \in Seq(Seqnums)
    PROVE  /\ Len(C) \in Nat /\ Len(D) \in Nat /\ Len(F) \in Nat
           /\ InHand(H) \in {0, 1} /\ InHand(X) \in {0, 1}
           /\ H = 0 <=> InHand(H) = 0
           /\ X = 0 <=> InHand(X) = 0
           /\ InHand(0) = 0
           /\ \A s \in Seqnums : InHand(s) = 1
           /\ Waiters(H, C, X) \in Nat /\ Sources(D, F) \in Nat
           /\ \A i \in 1 .. Waiters(H, C, X) : WaiterAt(H, C, X, i) \in Seqnums
<1>1. /\ Len(C) \in Nat /\ Len(D) \in Nat /\ Len(F) \in Nat
      /\ InHand(0) = 0 /\ \A s \in Seqnums : InHand(s) = 1
      /\ 0 \notin Seqnums
  BY ConstantFacts DEF InHand, NoCommand
<1>2. /\ InHand(H) \in {0, 1} /\ InHand(X) \in {0, 1}
      /\ H = 0 <=> InHand(H) = 0
      /\ X = 0 <=> InHand(X) = 0
  BY <1>1
<1>3. Waiters(H, C, X) \in Nat /\ Sources(D, F) \in Nat
  BY <1>1, <1>2 DEF Waiters, Sources
<1>4. ASSUME NEW i \in 1 .. Waiters(H, C, X) PROVE WaiterAt(H, C, X, i) \in Seqnums
  <2>1. CASE i <= InHand(H)
    BY <2>1, <1>1, <1>2 DEF WaiterAt
  <2>2. CASE i > InHand(H) /\ i <= InHand(H) + Len(C)
    <3>1. i - InHand(H) \in 1 .. Len(C) /\ ~(i <= InHand(H))
      BY <2>2, <1>1, <1>2
    <3>2. C[i - InHand(H)] \in Seqnums
      BY <3>1
    <3>3. QED
      BY <2>2, <3>1, <3>2 DEF WaiterAt
  <2>3. CASE i > InHand(H) + Len(C)
    BY <2>3, <1>1, <1>2 DEF WaiterAt, Waiters
  <2>4. QED
    BY <2>1, <2>2, <2>3, <1>1, <1>2
<1>5. QED
  BY <1>1, <1>2, <1>3, <1>4

\* Waiters and sources that change their places and nothing else stay aligned.
LEMMA AlignedSame ==
    ASSUME NEW H, NEW C, NEW X, NEW D, NEW F, NEW Z, Aligned(H, C, X, D, F, Z),
           NEW H2, NEW C2, NEW X2, NEW D2, NEW F2,
           Waiters(H2, C2, X2) = Waiters(H, C, X), Sources(D2, F2) = Sources(D, F),
           Waiters(H, C, X) \in Nat, Sources(D, F) \in Nat,
           \A i \in 1 .. Waiters(H, C, X) : WaiterAt(H2, C2, X2, i) = WaiterAt(H, C, X, i),
           \A i \in 1 .. Sources(D, F) : SourceAt(D2, F2, i) = SourceAt(D, F, i)
    PROVE  Aligned(H2, C2, X2, D2, F2, Z)
<1> DEFINE n == Waiters(H, C, X)
           m == Sources(D, F)
<1>1. /\ m <= n /\ (m = n => Z = {})
      /\ \A i \in 1 .. m : MayAnswer(SourceAt(D, F, i), WaiterAt(H, C, X, i), Z)
      /\ \A i \in m + 1 .. n : \E r \in Z : r <= WaiterAt(H, C, X, i)
  BY Zenon DEF Aligned, Waiters, Sources
<1>2. n \in Nat /\ m \in Nat
  OBVIOUS
<1>3. \A i \in 1 .. m : i \in 1 .. n
  BY <1>1, <1>2
<1>4. \A i \in m + 1 .. n : i \in 1 .. n
  BY <1>2
<1>5. \A i \in 1 .. m : MayAnswer(SourceAt(D2, F2, i), WaiterAt(H2, C2, X2, i), Z)
  BY <1>1, <1>3
<1>6. \A i \in m + 1 .. n : \E r \in Z : r <= WaiterAt(H2, C2, X2, i)
  BY <1>1, <1>4
<1>7. QED
  BY <1>1, <1>5, <1>6, Zenon DEF Aligned, Waiters, Sources

\* The newest command of an endpoint takes the last place, whether its transfer
\* is taken or refused.
LEMMA AlignedSubmit ==
    ASSUME NEW H \in Seqnums \cup {0}, NEW C \in Seq(Seqnums),
           NEW D \in Seq(TransferData), NEW F \in Seq(Seqnums), NEW Z \in SUBSET Nat,
           Aligned(H, C, 0, D, F, Z), NEW x \in Seqnums,
           \A i \in 1 .. Waiters(H, C, 0) : WaiterAt(H, C, 0, i) < x
    PROVE  /\ Aligned(H, C, x, D, Append(F, x), Z)
           /\ Aligned(H, C, x, D, F, Z \cup {x})
<1> DEFINE n == Waiters(H, C, 0)
           m == Sources(D, F)
           W(i) == WaiterAt(H, C, 0, i)
           V(i) == WaiterAt(H, C, x, i)
           S(i) == SourceAt(D, F, i)
           T(i) == SourceAt(D, Append(F, x), i)
<1>1. /\ m <= n /\ (m = n => Z = {})
      /\ \A i \in 1 .. m : MayAnswer(S(i), W(i), Z)
      /\ \A i \in m + 1 .. n : \E r \in Z : r <= W(i)
  BY Zenon DEF Aligned, Waiters, Sources
<1>2. /\ n \in Nat /\ m \in Nat /\ x \in Nat
      /\ \A i \in 1 .. n : W(i) \in Nat /\ W(i) < x
  BY AlignedFacts, ConstantFacts
<1>3. /\ Waiters(H, C, x) = n + 1 /\ Sources(D, Append(F, x)) = m + 1
      /\ \A i \in 1 .. n : V(i) = W(i)
      /\ V(n + 1) = x
      /\ \A i \in 1 .. m : T(i) = S(i)
      /\ T(m + 1) = x
  <2>1. /\ Len(Append(F, x)) = Len(F) + 1 /\ Append(F, x)[Len(F) + 1] = x
        /\ \A i \in 1 .. Len(F) : Append(F, x)[i] = F[i]
    BY AppendFacts
  <2>2. /\ Len(C) \in Nat /\ Len(D) \in Nat /\ Len(F) \in Nat /\ InHand(H) \in {0, 1}
        /\ InHand(0) = 0 /\ InHand(x) = 1
    BY AlignedFacts
  <2>3. n = InHand(H) + Len(C) /\ m = Len(D) + Len(F)
    BY <2>2 DEF Waiters, Sources
  <2>4. Waiters(H, C, x) = n + 1 /\ Sources(D, Append(F, x)) = m + 1
    BY <2>1, <2>2, <2>3 DEF Waiters, Sources
  <2>5. (\A i \in 1 .. n : V(i) = W(i)) /\ V(n + 1) = x
    BY <2>2, <2>3 DEF WaiterAt
  <2>6. (\A i \in 1 .. m : T(i) = S(i)) /\ T(m + 1) = x
    <3>1. ASSUME NEW i \in 1 .. m PROVE T(i) = S(i)
      <4>1. CASE i <= Len(D)
        BY <4>1 DEF SourceAt
      <4>2. CASE i > Len(D)
        <5>1. i - Len(D) \in 1 .. Len(F) /\ ~(i <= Len(D))
          BY <4>2, <2>2, <2>3
        <5>2. QED
          BY <5>1, <2>1 DEF SourceAt
      <4>3. QED
        BY <4>1, <4>2, <2>2, <2>3
    <3>2. T(m + 1) = x
      <4> DEFINE l == m + 1
      <4>1. ~(l <= Len(D)) /\ l - Len(D) = Len(F) + 1
        BY <2>2, <2>3
      <4> HIDE DEF l
      <4>2. T(l) = x
        BY <4>1, <2>1 DEF SourceAt
      <4>3. QED
        BY <4>2 DEF l
    <3>3. QED
      BY <3>1, <3>2
  <2>7. QED
    BY <2>4, <2>5, <2>6
<1> HIDE DEF n, m, W, V, S, T
<1>4. ASSUME NEW i \in 1 .. m + 1 PROVE MayAnswer(T(i), V(i), Z)
  <2>1. CASE i \in 1 .. m
    BY <2>1, <1>1, <1>2, <1>3
  <2>2. CASE i = m + 1 /\ m = n
    BY <2>2, <1>1, <1>3 DEF MayAnswer
  <2>3. CASE i = m + 1 /\ m < n
    <3>1. i \in m + 1 .. n /\ i \in 1 .. n
      BY <2>3, <1>2
    <3>2. (\E r \in Z : r <= V(i)) /\ T(i) = x /\ V(i) < x
      BY <3>1, <2>3, <1>1, <1>2, <1>3
    <3>3. QED
      BY <3>2, <3>1, <1>2, <1>3 DEF MayAnswer
  <2>4. QED
    BY <2>1, <2>2, <2>3, <1>1, <1>2
<1>5. ASSUME NEW i \in m + 2 .. n + 1 PROVE \E r \in Z : r <= V(i)
  <2>1. CASE i <= n
    <3>1. i \in m + 1 .. n /\ i \in 1 .. n
      BY <2>1, <1>2
    <3>2. QED
      BY <3>1, <1>1, <1>3
  <2>2. CASE i = n + 1
    <3>1. n \in m + 1 .. n /\ n \in 1 .. n
      BY <2>2, <1>2
    <3>2. PICK r \in Z : r <= W(n)
      BY <3>1, <1>1
    <3>3. r <= x
      BY <3>1, <3>2, <1>2
    <3>4. QED
      BY <2>2, <3>3, <1>3
  <2>3. QED
    BY <2>1, <2>2, <1>2
<1>6. Aligned(H, C, x, D, Append(F, x), Z)
  <2>1. /\ m + 1 <= n + 1 /\ (m + 1 = n + 1 => Z = {}) /\ m + 1 + 1 = m + 2
    BY <1>1, <1>2
  <2>2. QED
    BY <2>1, <1>3, <1>4, <1>5, Zenon DEF Aligned, Waiters, Sources, V, T
<1>7. ASSUME NEW i \in 1 .. m PROVE MayAnswer(S(i), V(i), Z \cup {x})
  <2>1. i \in 1 .. n /\ V(i) = W(i) /\ W(i) \in Nat /\ ~(x <= W(i))
    BY <1>1, <1>2, <1>3
  <2>2. (\E r \in Z \cup {x} : r <= V(i)) <=> (\E r \in Z : r <= W(i))
    BY <2>1
  <2>3. QED
    BY <2>1, <2>2, <1>1 DEF MayAnswer
<1>8. ASSUME NEW i \in m + 1 .. n + 1 PROVE \E r \in Z \cup {x} : r <= V(i)
  <2>1. CASE i \in m + 1 .. n
    <3>1. V(i) = W(i)
      BY <2>1, <1>2, <1>3
    <3>2. QED
      BY <2>1, <3>1, <1>1
  <2>2. CASE i = n + 1
    BY <2>2, <1>2, <1>3
  <2>3. QED
    BY <2>1, <2>2, <1>2
<1>9. Aligned(H, C, x, D, F, Z \cup {x})
  <2>1. m <= n + 1 /\ m # n + 1 /\ m = Sources(D, F)
    BY <1>1, <1>2 DEF m
  <2>2. QED
    BY <2>1, <1>3, <1>7, <1>8, Zenon DEF Aligned, Waiters, Sources, V, S
<1>10. QED
  BY <1>6, <1>9

\* What the other steps of the threads do to one endpoint.
LEMMA AlignedSteps ==
    ASSUME NEW H \in Seqnums \cup {0}, NEW C \in Seq(Seqnums), NEW X \in Seqnums \cup {0},
           NEW D \in Seq(TransferData), NEW F \in Seq(Seqnums), NEW Z,
           Aligned(H, C, X, D, F, Z)
    PROVE  /\ X # 0 => Aligned(H, Append(C, X), 0, D, F, Z)
           /\ F # << >> => \A o \in Outcomes :
                  Aligned(H, C, X, Append(D, [xfer |-> Head(F), outcome |-> o]), Tail(F), Z)
           /\ H = 0 /\ C # << >> => Aligned(Head(C), Tail(C), X, D, F, Z)
           /\ H # 0 /\ D # << >> => /\ MayAnswer(Head(D).xfer, H, Z)
                                    /\ Aligned(0, C, X, Tail(D), F, Z)
<1>1. /\ Len(C) \in Nat /\ Len(D) \in Nat /\ Len(F) \in Nat
      /\ InHand(H) \in {0, 1} /\ InHand(X) \in {0, 1}
      /\ H = 0 <=> InHand(H) = 0
      /\ X = 0 <=> InHand(X) = 0
      /\ InHand(0) = 0
      /\ \A s \in Seqnums : InHand(s) = 1
  BY AlignedFacts
<1>2. /\ Waiters(H, C, X) = InHand(H) + Len(C) + InHand(X)
      /\ Sources(D, F) = Len(D) + Len(F)
      /\ Waiters(H, C, X) \in Nat /\ Sources(D, F) \in Nat
  BY <1>1 DEF Waiters, Sources
<1>3. ASSUME X # 0 PROVE Aligned(H, Append(C, X), 0, D, F, Z)
  <2>1. /\ Len(Append(C, X)) = Len(C) + 1 /\ Append(C, X)[Len(C) + 1] = X
        /\ \A i \in 1 .. Len(C) : Append(C, X)[i] = C[i]
    BY <1>3, AppendFacts
  <2>2. ASSUME NEW i \in 1 .. Waiters(H, C, X)
        PROVE  WaiterAt(H, Append(C, X), 0, i) = WaiterAt(H, C, X, i)
    <3>1. i <= InHand(H) + Len(C) + 1 /\ InHand(H) \in {0, 1}
      BY <1>1, <1>2, <1>3
    <3>2. CASE i <= InHand(H)
      BY <3>2 DEF WaiterAt
    <3>3. CASE i > InHand(H) /\ i <= InHand(H) + Len(C)
      <4>1. i - InHand(H) \in 1 .. Len(C)
        BY <3>1, <3>3, <1>1
      <4>2. QED
        BY <3>1, <3>3, <4>1, <1>1, <2>1 DEF WaiterAt
    <3>4. CASE i = InHand(H) + Len(C) + 1
      <4>1. i - InHand(H) = Len(C) + 1
        BY <3>1, <3>4, <1>1
      <4>2. QED
        BY <3>1, <3>4, <4>1, <1>1, <2>1 DEF WaiterAt
    <3>5. QED
      BY <3>1, <3>2, <3>3, <3>4, <1>1
  <2>3. Waiters(H, Append(C, X), 0) = Waiters(H, C, X)
    BY <1>1, <1>2, <1>3, <2>1 DEF Waiters
  <2>4. QED
    BY <2>2, <2>3, <1>2, AlignedSame
<1>4. ASSUME F # << >>, NEW o \in Outcomes
      PROVE  Aligned(H, C, X, Append(D, [xfer |-> Head(F), outcome |-> o]), Tail(F), Z)
  <2> DEFINE d == [xfer |-> Head(F), outcome |-> o]
             G == Append(D, d)
             T == Tail(F)
  <2>1. /\ Head(F) = F[1] /\ Head(F) \in Seqnums /\ Len(T) = Len(F) - 1 /\ Len(F) >= 1
        /\ \A i \in 1 .. Len(F) - 1 : T[i] = F[i + 1]
    BY <1>4, TailFacts
  <2>2. d \in TransferData /\ d.xfer = F[1]
    BY <2>1, RecordFacts
  <2> HIDE DEF d, T
  <2>3. /\ Len(G) = Len(D) + 1 /\ G[Len(D) + 1] = d
        /\ \A i \in 1 .. Len(D) : G[i] = D[i]
    BY <2>2, AppendFacts
  <2> HIDE DEF G
  <2>4. ASSUME NEW i \in 1 .. Sources(D, F) PROVE SourceAt(G, T, i) = SourceAt(D, F, i)
    <3>1. i \in 1 .. Len(D) + Len(F)
      BY <1>2
    <3>2. CASE i <= Len(D)
      BY <3>1, <3>2, <1>1, <2>3 DEF SourceAt
    <3>3. CASE i = Len(D) + 1
      <4>1. i - Len(D) = 1 /\ i <= Len(D) + 1 /\ ~(i <= Len(D))
        BY <3>3, <1>1
      <4>2. QED
        BY <3>3, <4>1, <2>2, <2>3 DEF SourceAt
    <3>4. CASE i > Len(D) + 1
      <4>1. /\ i - (Len(D) + 1) \in 1 .. Len(F) - 1
            /\ i - (Len(D) + 1) + 1 = i - Len(D) /\ ~(i <= Len(D) + 1) /\ ~(i <= Len(D))
        BY <3>1, <3>4, <1>1, <2>1
      <4>2. QED
        BY <4>1, <2>1, <2>3 DEF SourceAt
    <3>5. QED
      BY <3>1, <3>2, <3>3, <3>4, <1>1
  <2>5. Sources(G, T) = Sources(D, F)
    BY <1>1, <1>2, <2>1, <2>3 DEF Sources
  <2>6. Aligned(H, C, X, G, T, Z)
    BY <2>4, <2>5, <1>2, AlignedSame
  <2>7. QED
    BY <2>6 DEF d, G, T
<1>5. ASSUME H = 0, C # << >> PROVE Aligned(Head(C), Tail(C), X, D, F, Z)
  <2> DEFINE T == Tail(C)
             h == Head(C)
  <2>1. /\ h = C[1] /\ h \in Seqnums /\ Len(T) = Len(C) - 1 /\ Len(C) >= 1
        /\ \A i \in 1 .. Len(C) - 1 : T[i] = C[i + 1]
    BY <1>5, TailFacts
  <2> HIDE DEF T, h
  <2>2. ASSUME NEW i \in 1 .. Waiters(H, C, X) PROVE WaiterAt(h, T, X, i) = WaiterAt(H, C, X, i)
    <3>1. InHand(h) = 1 /\ InHand(H) = 0 /\ i <= Len(C) + 1
      BY <1>1, <1>2, <1>5, <2>1
    <3>2. CASE i = 1
      <4>1. i - 0 = 1
        BY <3>2
      <4>2. QED
        BY <3>1, <3>2, <4>1, <2>1, <1>1 DEF WaiterAt
    <3>3. CASE i > 1 /\ i <= Len(C)
      <4>1. i - 0 = i /\ i - 1 \in 1 .. Len(C) - 1 /\ i - 1 + 1 = i
        BY <3>3, <1>1
      <4>2. QED
        BY <3>1, <3>3, <4>1, <2>1, <1>1 DEF WaiterAt
    <3>4. CASE i = Len(C) + 1
      BY <3>1, <3>4, <2>1, <1>1 DEF WaiterAt
    <3>5. QED
      BY <3>1, <3>2, <3>3, <3>4, <1>1
  <2>3. Waiters(h, T, X) = Waiters(H, C, X)
    BY <1>1, <1>2, <1>5, <2>1 DEF Waiters
  <2>4. Aligned(h, T, X, D, F, Z)
    BY <2>2, <2>3, <1>2, AlignedSame
  <2>5. QED
    BY <2>4 DEF T, h
<1>6. ASSUME H # 0, D # << >>
      PROVE  MayAnswer(Head(D).xfer, H, Z) /\ Aligned(0, C, X, Tail(D), F, Z)
  <2> DEFINE n == Waiters(H, C, X)
             m == Sources(D, F)
             T == Tail(D)
  <2>1. /\ Head(D) = D[1] /\ Len(T) = Len(D) - 1 /\ Len(D) >= 1
        /\ \A i \in 1 .. Len(D) - 1 : T[i] = D[i + 1]
    BY <1>6, TailFacts
  <2>2. /\ m <= n /\ (m = n => Z = {})
        /\ \A i \in 1 .. m : MayAnswer(SourceAt(D, F, i), WaiterAt(H, C, X, i), Z)
        /\ \A i \in m + 1 .. n : \E r \in Z : r <= WaiterAt(H, C, X, i)
    BY Zenon DEF Aligned, Waiters, Sources
  <2> HIDE DEF T
  <2>3. MayAnswer(Head(D).xfer, H, Z)
    <3>1. 1 \in 1 .. m
      BY <1>1, <1>2, <2>1
    <3>2. WaiterAt(H, C, X, 1) = H /\ SourceAt(D, F, 1) = Head(D).xfer
      BY <2>1, <1>1, <1>6 DEF WaiterAt, SourceAt
    <3>3. QED
      BY <3>1, <3>2, <2>2
  <2>4. Waiters(0, C, X) = n - 1 /\ Sources(T, F) = m - 1 /\ m \in Nat /\ n \in Nat
    BY <1>1, <1>2, <1>6, <2>1 DEF Waiters, Sources
  <2>5. ASSUME NEW i \in 1 .. n - 1 PROVE WaiterAt(0, C, X, i) = WaiterAt(H, C, X, i + 1)
    BY <1>1, <1>2, <1>6 DEF WaiterAt
  <2>6. ASSUME NEW i \in 1 .. m - 1 PROVE SourceAt(T, F, i) = SourceAt(D, F, i + 1)
    BY <1>1, <1>2, <2>1 DEF SourceAt
  <2> HIDE DEF n, m
  <2>7. ASSUME NEW i \in 1 .. m - 1 PROVE MayAnswer(SourceAt(T, F, i), WaiterAt(0, C, X, i), Z)
    <3>1. i + 1 \in 1 .. m /\ i \in 1 .. n - 1
      BY <2>2, <2>4
    <3>2. QED
      BY <3>1, <2>2, <2>5, <2>6
  <2>8. ASSUME NEW i \in m - 1 + 1 .. n - 1 PROVE \E r \in Z : r <= WaiterAt(0, C, X, i)
    <3>1. i + 1 \in m + 1 .. n /\ (i = 0 \/ i \in 1 .. n - 1)
      BY <2>4
    <3>2. m >= 1
      BY <1>1, <1>2, <2>1 DEF m
    <3>3. i \in 1 .. n - 1
      BY <3>1, <3>2, <2>4
    <3>4. QED
      BY <3>1, <3>3, <2>2, <2>5
  <2>9. m - 1 <= n - 1 /\ (m - 1 = n - 1 => Z = {})
    BY <2>2, <2>4
  <2>10. Aligned(0, C, X, T, F, Z)
    BY <2>4, <2>7, <2>8, <2>9, Zenon DEF Aligned, Waiters, Sources
  <2>11. QED
    BY <2>3, <2>10 DEF T
<1>7. QED
  BY <1>3, <1>4, <1>5, <1>6

\* The refused commands of an address were all sent; none is added but by the
\* executor.
LEMMA RefusedStep ==
    ASSUME TypeOK, [Next]_vars, NEW a
    PROVE  /\ RefusedAt(a) \subseteq 1 .. Len(sent) /\ RefusedAt(a) \in SUBSET Nat
           /\ refused' = refused => {r \in refused' : sent'[r].at = a} = RefusedAt(a)
           /\ sent' = sent /\ refused' = refused \cup {exec.cmd} =>
                  {r \in refused' : sent'[r].at = a} =
                      IF sent[exec.cmd].at = a THEN RefusedAt(a) \cup {exec.cmd}
                                               ELSE RefusedAt(a)
<1>1. /\ refused \subseteq 1 .. Len(sent) /\ refused \in SUBSET Nat
      /\ Len(sent) \in Nat
  BY DEF TypeOK
<1>2. \A s \in refused : sent'[s] = sent[s]
  BY <1>1, SentStep
<1>3. RefusedAt(a) \subseteq 1 .. Len(sent) /\ RefusedAt(a) \in SUBSET Nat
  BY <1>1 DEF RefusedAt
<1>4. refused' = refused => {r \in refused' : sent'[r].at = a} = RefusedAt(a)
  BY <1>2 DEF RefusedAt
<1>5. sent' = sent /\ refused' = refused \cup {exec.cmd} =>
          {r \in refused' : sent'[r].at = a} =
              IF sent[exec.cmd].at = a THEN RefusedAt(a) \cup {exec.cmd} ELSE RefusedAt(a)
  BY DEF RefusedAt
<1>6. QED
  BY <1>3, <1>4, <1>5

\* The commands of an endpoint that wait are older than the one the executor runs.
LEMMA WaitersOlder ==
    ASSUME TypeOK, CommandOrder, Sorted, exec.pc = "run", NEW ep \in Eps,
           NEW i \in 1 .. Waiters(holding[ep], in_commands[ep], 0)
    PROVE  WaiterAt(holding[ep], in_commands[ep], 0, i) < exec.cmd
<1> DEFINE H == holding[ep]
           C == in_commands[ep]
<1>1. \A s : Done(s) => s < exec.cmd
  BY PulledFacts DEF Done, Busy
<1>2. H \in Seqnums \cup {0} /\ C \in Seq(Seqnums)
  BY DEF TypeOK, NoCommand
<1>3. H # 0 => H < exec.cmd
  BY <1>1 DEF Sorted, SortedHolding, NoCommand
<1>4. \A k \in 1 .. Len(C) : C[k] < exec.cmd
  BY <1>1, <1>2 DEF Sorted, SortedCommands
<1>5. /\ Len(C) \in Nat /\ InHand(H) \in {0, 1} /\ InHand(0) = 0
      /\ H = 0 <=> InHand(H) = 0
  BY <1>2, ConstantFacts DEF InHand, NoCommand
<1>6. i \in 1 .. InHand(H) + Len(C)
  BY <1>5 DEF Waiters
<1>7. CASE i <= InHand(H)
  BY <1>3, <1>5, <1>6, <1>7 DEF WaiterAt
<1>8. CASE i > InHand(H)
  <2>1. i - InHand(H) \in 1 .. Len(C) /\ ~(i <= InHand(H))
    BY <1>5, <1>6, <1>8
  <2>2. QED
    BY <2>1, <1>4, <1>6 DEF WaiterAt
<1>9. QED
  BY <1>5, <1>6, <1>7, <1>8

\* Paired is preserved.
LEMMA PairedStep ==
    ASSUME TypeOK, CommandOrder, Sorted, Paired, [Next]_vars
    PROVE  Paired'
<1> SUFFICES ASSUME NEW ep \in Eps
             PROVE  Aligned(holding'[ep], in_commands'[ep], Pushing(ep)',
                            in_data'[ep], inflight'[InAddress(ep)],
                            {r \in refused' : sent'[r].at = InAddress(ep)})
  BY DEF Paired, InAddress, RefusedAt
<1> DEFINE a == InAddress(ep)
           Z == RefusedAt(a)
           After == {r \in refused' : sent'[r].at = a}
           Goal == Aligned(holding'[ep], in_commands'[ep], Pushing(ep)', in_data'[ep], inflight'[a],
                           After)
<1> SUFFICES Goal
  OBVIOUS
<1>1. /\ holding[ep] \in Seqnums \cup {0} /\ in_commands[ep] \in Seq(Seqnums)
      /\ in_data[ep] \in Seq(TransferData) /\ inflight[a] \in Seq(Seqnums)
      /\ a \in EpAddresses /\ a[1] = ep /\ a[2] = "in"
  BY ConstantFacts DEF TypeOK, NoCommand, InAddress
<1>2. Pushing(ep) \in Seqnums \cup {0}
  BY RecordFacts DEF Pushing, TypeOK, NoCommand
<1>3. Aligned(holding[ep], in_commands[ep], Pushing(ep), in_data[ep], inflight[a], Z)
  BY DEF Paired
<1>4. /\ exec.pc # "push" => Pushing(ep) = 0
      /\ exec'.pc # "push" => Pushing(ep)' = 0
  BY DEF Pushing, NoCommand
<1>5. Busy => /\ exec.cmd \in Seqnums /\ exec.cmd \in 1 .. Len(sent)
              /\ sent[exec.cmd] \in Command /\ sent[exec.cmd].at \in Addresses
  <2>1. ASSUME Busy PROVE exec.cmd \in Seqnums /\ exec.cmd \in DOMAIN sent /\ sent \in Seq(Command)
    BY <2>1, RecordFacts, PulledFacts DEF TypeOK, Busy
  <2>2. QED
    BY <2>1, RecordFacts
<1> HIDE DEF a
<1>a. Z \in SUBSET Nat /\ (refused' = refused => After = Z)
  BY RefusedStep
<1>b. Busy /\ sent' = sent /\ refused' = refused \cup {exec.cmd} =>
          After = IF sent[exec.cmd].at = a THEN Z \cup {exec.cmd} ELSE Z
  BY RefusedStep
<1> HIDE DEF Z, After
<1>6.  /\ Pushing(ep) # 0 =>
              Aligned(holding[ep], Append(in_commands[ep], Pushing(ep)), 0, in_data[ep], inflight[a], Z)
       /\ inflight[a] # << >> => \A o \in Outcomes :
              Aligned(holding[ep], in_commands[ep], Pushing(ep),
                      Append(in_data[ep], [xfer |-> Head(inflight[a]), outcome |-> o]),
                      Tail(inflight[a]), Z)
       /\ holding[ep] = 0 /\ in_commands[ep] # << >> =>
              Aligned(Head(in_commands[ep]), Tail(in_commands[ep]), Pushing(ep),
                      in_data[ep], inflight[a], Z)
       /\ holding[ep] # 0 /\ in_data[ep] # << >> =>
              Aligned(0, in_commands[ep], Pushing(ep), Tail(in_data[ep]), inflight[a], Z)
  BY <1>1, <1>2, <1>3, AlignedSteps
<1>7. CASE ReadDataFromDevice
  <2>1. /\ Busy /\ exec.pc = "run" /\ IsIn(exec.cmd) /\ sent' = sent /\ exec'.pc = "push"
        /\ exec'.cmd = exec.cmd /\ UNCHANGED <<holding, in_commands, in_data>> /\ SubmitTransfer
    BY <1>7 DEF ReadDataFromDevice, Busy
  <2>2. sent[exec.cmd].at \in EpAddresses /\ sent[exec.cmd].at = InAddress(Ep(exec.cmd))
    <3>1. sent[exec.cmd].at \in EpAddresses /\ sent[exec.cmd].at[2] = "in"
      BY <2>1, <1>5 DEF EpAddresses, IsIn
    <3>2. QED
      BY <3>1, ConstantFacts DEF Ep
  <2>3. CASE Ep(exec.cmd) = ep
    <3>1. Pushing(ep)' = exec.cmd /\ Pushing(ep) = 0 /\ sent[exec.cmd].at = a
      BY <2>1, <2>2, <2>3, <1>4 DEF Pushing, Ep, a
    <3>2. \A i \in 1 .. Waiters(holding[ep], in_commands[ep], 0) :
              WaiterAt(holding[ep], in_commands[ep], 0, i) < exec.cmd
      BY <2>1, WaitersOlder
    <3>3. /\ Aligned(holding[ep], in_commands[ep], exec.cmd, in_data[ep],
                     Append(inflight[a], exec.cmd), Z)
          /\ Aligned(holding[ep], in_commands[ep], exec.cmd, in_data[ep],
                     inflight[a], Z \cup {exec.cmd})
      BY <2>1, <3>1, <3>2, <1>1, <1>3, <1>5, <1>a, AlignedSubmit
    <3>4. CASE /\ inflight' = [inflight EXCEPT ![sent[exec.cmd].at] = Append(@, exec.cmd)]
               /\ refused' = refused
      <4>1. inflight'[a] = Append(inflight[a], exec.cmd)
        BY <3>1, <3>4, <1>1 DEF TypeOK
      <4>2. QED
        BY <2>1, <3>1, <3>3, <3>4, <4>1, <1>a
    <3>5. CASE refused' = refused \cup {exec.cmd} /\ inflight' = inflight
      <4>1. After = Z \cup {exec.cmd}
        BY <2>1, <3>1, <3>5, <1>b
      <4>2. QED
        BY <2>1, <3>1, <3>3, <3>5, <4>1
    <3>6. QED
      BY <2>1, <3>4, <3>5 DEF SubmitTransfer
  <2>4. CASE Ep(exec.cmd) # ep
    <3>1. Pushing(ep)' = 0 /\ Pushing(ep) = 0 /\ inflight'[a] = inflight[a]
      BY <2>1, <2>2, <2>4, <1>1, <1>4 DEF Pushing, Ep, TypeOK, NoCommand, SubmitTransfer
    <3>2. sent[exec.cmd].at # a
      BY <2>2, <2>4, <1>1 DEF Ep
    <3>3. After = Z
      BY <2>1, <3>2, <1>a, <1>b DEF SubmitTransfer
    <3>4. QED
      BY <2>1, <3>1, <3>3, <1>3
  <2>5. QED
    BY <2>3, <2>4
<1>8. CASE PushInCommand
  <2>1. /\ Busy /\ exec.pc = "push" /\ exec'.pc = "pull"
        /\ UNCHANGED <<holding, in_data, inflight, refused>>
        /\ in_commands' = [in_commands EXCEPT ![Ep(exec.cmd)] = Append(@, exec.cmd)]
    BY <1>8 DEF PushInCommand, Busy, Idle
  <2>2. CASE Ep(exec.cmd) = ep
    <3>1. Pushing(ep) = exec.cmd /\ in_commands'[ep] = Append(in_commands[ep], exec.cmd)
      BY <2>1, <2>2 DEF Pushing, TypeOK
    <3>2. Pushing(ep) # 0
      BY <3>1, <2>1, <1>5, ConstantFacts
    <3>3. QED
      BY <2>1, <3>1, <3>2, <1>4, <1>6, <1>a
  <2>3. CASE Ep(exec.cmd) # ep
    <3>1. Pushing(ep) = 0 /\ in_commands'[ep] = in_commands[ep]
      BY <2>1, <2>3 DEF Pushing, TypeOK, NoCommand
    <3>2. QED
      BY <2>1, <3>1, <1>3, <1>4, <1>a
  <2>4. QED
    BY <2>2, <2>3
<1>9. CASE SendDataToDevice
  <2>1. /\ Busy /\ exec.pc # "push" /\ exec'.pc # "push" /\ sent' = sent
        /\ UNCHANGED <<holding, in_commands, in_data>>
        /\ SubmitTransfer /\ sent[exec.cmd].at[2] = "out"
    BY <1>9 DEF SendDataToDevice, Idle, IsOut, Busy
  <2>2. inflight'[a] = inflight[a]
    BY <2>1, <1>1 DEF TypeOK, SubmitTransfer
  <2>3. After = Z
    BY <2>1, <1>1, <1>a, <1>b DEF SubmitTransfer
  <2>4. QED
    BY <2>1, <2>2, <2>3, <1>3, <1>4, <1>a
<1>10. ASSUME UNCHANGED <<sent, exec>> \/ Host PROVE Pushing(ep)' = Pushing(ep)
  <2>1. exec' = exec
    BY <1>10 DEF Host, HostSubmit, HostUnlink
  <2>2. ASSUME Busy PROVE Ep(exec.cmd)' = Ep(exec.cmd)
    BY <2>1, <2>2, <1>5, SentStep DEF Ep
  <2>3. QED
    BY <2>1, <2>2 DEF Pushing, Busy
<1>11. ASSUME NEW b \in EpAddresses, NEW o \in Outcomes, CompleteIn(b, o) PROVE Goal
  <2>1. /\ b[2] = "in" /\ inflight[b] # << >> /\ inflight' = [inflight EXCEPT ![b] = Tail(@)]
        /\ in_data' = [in_data EXCEPT ![b[1]] =
                          Append(@, [xfer |-> Head(inflight[b]), outcome |-> o])]
        /\ UNCHANGED <<sent, exec, holding, in_commands, refused>>
    BY <1>11 DEF CompleteIn
  <2>2. Pushing(ep)' = Pushing(ep)
    BY <2>1, <1>10
  <2>3. b = InAddress(b[1])
    BY <2>1, ConstantFacts
  <2>4. CASE b[1] = ep
    <3>1. b = a
      BY <2>3, <2>4 DEF a
    <3>2. /\ inflight[a] # << >> /\ inflight'[a] = Tail(inflight[a])
          /\ in_data'[ep] = Append(in_data[ep], [xfer |-> Head(inflight[a]), outcome |-> o])
      BY <2>1, <2>4, <3>1, <1>1 DEF TypeOK
    <3>3. QED
      BY <2>1, <2>2, <3>2, <1>6, <1>a
  <2>5. CASE b[1] # ep
    <3>1. b # a
      BY <2>5, <1>1
    <3>2. inflight'[a] = inflight[a] /\ in_data'[ep] = in_data[ep]
      BY <2>1, <2>5, <3>1, <1>1 DEF TypeOK
    <3>3. QED
      BY <2>1, <2>2, <3>2, <1>3, <1>a
  <2>6. QED
    BY <2>4, <2>5
<1>12. ASSUME NEW b \in EpAddresses, CompleteOut(b) PROVE Goal
  <2>1. /\ b[2] = "out" /\ inflight' = [inflight EXCEPT ![b] = Tail(@)]
        /\ UNCHANGED <<sent, exec, holding, in_commands, in_data, refused>>
    BY <1>12 DEF CompleteOut
  <2>2. inflight'[a] = inflight[a]
    BY <2>1, <1>1 DEF TypeOK
  <2>3. QED
    BY <2>1, <2>2, <1>3, <1>10, <1>a
<1>13. ASSUME NEW e \in Eps, TransferPull(e) PROVE Goal
  <2>1. /\ holding[e] = 0 /\ in_commands[e] # << >>
        /\ holding' = [holding EXCEPT ![e] = Head(in_commands[e])]
        /\ in_commands' = [in_commands EXCEPT ![e] = Tail(@)]
        /\ UNCHANGED <<sent, exec, in_data, inflight, refused>>
    BY <1>13 DEF TransferPull, NoCommand
  <2>2. Pushing(ep)' = Pushing(ep)
    BY <2>1, <1>10
  <2>3. CASE e = ep
    <3>1. holding'[ep] = Head(in_commands[ep]) /\ in_commands'[ep] = Tail(in_commands[ep])
      BY <2>1, <2>3 DEF TypeOK
    <3>2. QED
      BY <2>1, <2>2, <2>3, <3>1, <1>6, <1>a
  <2>4. CASE e # ep
    <3>1. holding'[ep] = holding[ep] /\ in_commands'[ep] = in_commands[ep]
      BY <2>1, <2>4 DEF TypeOK
    <3>2. QED
      BY <2>1, <2>2, <3>1, <1>3, <1>a
  <2>5. QED
    BY <2>3, <2>4
<1>14. ASSUME NEW e \in Eps, SendDataToHost(e) PROVE Goal
  <2>1. /\ holding[e] # 0 /\ in_data[e] # << >>
        /\ holding' = [holding EXCEPT ![e] = 0]
        /\ in_data' = [in_data EXCEPT ![e] = Tail(@)]
        /\ UNCHANGED <<sent, exec, in_commands, inflight, refused>>
    BY <1>14 DEF SendDataToHost, NoCommand
  <2>2. Pushing(ep)' = Pushing(ep)
    BY <2>1, <1>10
  <2>3. CASE e = ep
    <3>1. holding'[ep] = 0 /\ in_data'[ep] = Tail(in_data[ep])
      BY <2>1, <2>3 DEF TypeOK
    <3>2. QED
      BY <2>1, <2>2, <2>3, <3>1, <1>6, <1>a
  <2>4. CASE e # ep
    <3>1. holding'[ep] = holding[ep] /\ in_data'[ep] = in_data[ep]
      BY <2>1, <2>4 DEF TypeOK
    <3>2. QED
      BY <2>1, <2>2, <3>1, <1>3, <1>a
  <2>5. QED
    BY <2>3, <2>4
<1>15. CASE Host
  <2>1. UNCHANGED <<holding, in_commands, in_data, inflight, refused>>
    BY <1>15 DEF Host, HostSubmit, HostUnlink
  <2>2. QED
    BY <2>1, <1>15, <1>3, <1>10, <1>a
<1>16. CASE CommandProduce \/ Writer \/ UNCHANGED vars
  <2>1. UNCHANGED <<holding, in_commands, in_data, inflight, refused, sent, exec>>
    BY <1>16 DEF CommandProduce, Writer, ReplyPull, ReplyDrop, ReplyKeep, ReplyWrite, vars
  <2>2. QED
    BY <2>1, <1>3, <1>10, <1>a
<1>17. CASE ExecutePull \/ ExecuteControl \/ UnlinkMark \/ UnlinkReply
  <2>1. /\ exec.pc # "push" /\ exec'.pc # "push"
        /\ UNCHANGED <<holding, in_commands, in_data, inflight, refused>>
    BY <1>17 DEF ExecutePull, ExecuteControl, UnlinkMark, UnlinkReply, Idle
  <2>2. QED
    BY <2>1, <1>3, <1>4, <1>a
<1>18. QED
  BY <1>7, <1>8, <1>9, <1>11, <1>12, <1>13, <1>14, <1>15, <1>16, <1>17
     DEF Next, Executor, Complete, Transfer, a, After

\* A refusal leaves the answers to older commands what they are.
LEMMA RefusedLater ==
    ASSUME TypeOK, CommandOrder, [Next]_vars, NEW s, Done(s), NEW a
    PROVE  (\E q \in {r \in refused' : sent'[r].at = a} : q <= s)
               <=> (\E q \in RefusedAt(a) : q <= s)
<1> DEFINE After == {r \in refused' : sent'[r].at = a}
<1>1. CASE refused' = refused
  BY <1>1, RefusedStep
<1>2. CASE refused' # refused
  <2>1. Busy /\ sent' = sent /\ refused' = refused \cup {exec.cmd}
    BY <1>2, WhoChanges DEF ReadDataFromDevice, SendDataToDevice, SubmitTransfer, Busy
  <2>2. After = IF sent[exec.cmd].at = a THEN RefusedAt(a) \cup {exec.cmd} ELSE RefusedAt(a)
    BY <2>1, RefusedStep
  <2>3. ~(exec.cmd <= s)
    BY <2>1, PulledFacts DEF Done
  <2>4. QED
    BY <2>2, <2>3
<1>3. QED
  BY <1>1, <1>2

\* AnswersMatch is preserved: only a transfer thread answers IN commands, and it
\* holds the command whose transfer brought the oldest data.
LEMMA MatchStep ==
    ASSUME TypeOK, CommandOrder, Sorted, Paired, AnswersMatch, [Next]_vars
    PROVE  AnswersMatch'
<1> DEFINE Good(r) == (/\ sent'[r.seq].req = "submit" /\ sent'[r.seq].at[1] # 0
                       /\ sent'[r.seq].at[2] = "in") =>
                           MayAnswer(r.data.xfer, r.seq,
                                     {q \in refused' : sent'[q].at = sent'[r.seq].at})
<1>1. \A s \in 1 .. Len(sent) : sent'[s] = sent[s]
  BY SentStep
<1>2. \A s : Done(s) => s \in 1 .. Len(sent)
  BY PulledFacts DEF Done
<1>3. \A r : Done(r.seq) /\ Matches(r) => Good(r)
  <2> SUFFICES ASSUME NEW r, Done(r.seq), Matches(r) PROVE Good(r)
    OBVIOUS
  <2> DEFINE at == sent[r.seq].at
  <2>1. sent'[r.seq] = sent[r.seq]
    BY <1>1, <1>2
  <2>2. (\E q \in {p \in refused' : sent'[p].at = at} : q <= r.seq)
            <=> (\E q \in RefusedAt(at) : q <= r.seq)
    BY RefusedLater
  <2>3. QED
    BY <2>1, <2>2 DEF Matches, MayAnswer, IsIn, IsSubmit
<1>4. /\ \A i \in DOMAIN replies_queue : Good(replies_queue[i])
      /\ writer.pc # "pull" => Good(writer.rep)
      /\ \A i \in DOMAIN wire : Good(wire[i])
  BY <1>3 DEF AnswersMatch, Sorted, SortedAnswers
<1>5. ASSUME \A i \in DOMAIN replies_queue' : Good(replies_queue'[i]),
             writer'.pc # "pull" => Good(writer'.rep),
             \A i \in DOMAIN wire' : Good(wire'[i])
      PROVE  AnswersMatch'
  BY <1>5 DEF AnswersMatch, Matches, IsIn, IsSubmit, RefusedAt
<1>6. \A r : r.seq \in 1 .. Len(sent) /\ ~IsIn(r.seq) => Good(r)
  BY <1>1 DEF IsIn, IsSubmit
<1> HIDE DEF Good
<1>8. ASSUME NEW r \in Reply, Good(r), replies_queue' = Append(replies_queue, r)
      PROVE  \A i \in DOMAIN replies_queue' : Good(replies_queue'[i])
  <2>1. replies_queue \in Seq(Reply)
    BY DEF TypeOK
  <2>2. \A i \in DOMAIN replies_queue' :
            \/ i \in DOMAIN replies_queue /\ replies_queue'[i] = replies_queue[i]
            \/ replies_queue'[i] = r
    BY <1>8, <2>1, AppendElement
  <2>3. QED
    BY <1>8, <2>2, <1>4
<1>9. \A i \in DOMAIN replies_queue' : Good(replies_queue'[i])
  <2>1. CASE replies_queue' = replies_queue
    BY <2>1, <1>4
  <2>2. CASE ExecuteControl \/ UnlinkReply
    <3>1. Busy /\ ~Busy' /\ (ExecuteControl \/ exec.pc = "reply")
      BY <2>2 DEF ExecuteControl, UnlinkReply, Busy, Idle
    <3>2. exec.cmd \in Seqnums /\ exec.cmd \in 1 .. Len(sent) /\ exec.status \in Status
      BY <3>1, HandedOver, RecordFacts DEF TypeOK, Busy
    <3>3. ~IsIn(exec.cmd)
      BY <3>1 DEF ExecuteControl, CommandOrder, IsControl, IsIn, IsSubmit, IsUnlink
    <3>4. PICK st \in Status : replies_queue' =
             Append(replies_queue, [seq |-> exec.cmd, data |-> NoData, status |-> st])
      BY <2>2, <3>2, RecordFacts DEF ExecuteControl, UnlinkReply
    <3>5. Good([seq |-> exec.cmd, data |-> NoData, status |-> st])
      BY <3>2, <3>3, <1>6
    <3>6. QED
      BY <3>2, <3>4, <3>5, <1>8, RecordFacts
  <2>3. ASSUME NEW a \in EpAddresses, CompleteOut(a)
        PROVE  \A i \in DOMAIN replies_queue' : Good(replies_queue'[i])
    <3>1. inflight[a] \in Seq(Seqnums) /\ inflight[a] # << >> /\ a[2] = "out"
      BY <2>3 DEF TypeOK, CompleteOut
    <3>2. /\ Head(inflight[a]) = inflight[a][1] /\ 1 \in DOMAIN inflight[a]
          /\ Head(inflight[a]) \in Seqnums
      BY <3>1, TailFacts
    <3>3. Head(inflight[a]) \in 1 .. Len(sent) /\ ~IsIn(Head(inflight[a]))
      BY <3>1, <3>2, <1>2 DEF Sorted, SortedTransfers, IsIn
    <3>4. /\ [seq |-> Head(inflight[a]), data |-> NoData, status |-> "ok"] \in Reply
          /\ Good([seq |-> Head(inflight[a]), data |-> NoData, status |-> "ok"])
      BY <3>2, <3>3, <1>6, RecordFacts
    <3>5. replies_queue' = Append(replies_queue,
               [seq |-> Head(inflight[a]), data |-> NoData, status |-> "ok"])
      BY <2>3 DEF CompleteOut
    <3>6. QED
      BY <3>4, <3>5, <1>8
  <2>4. ASSUME NEW ep \in Eps, SendDataToHost(ep)
        PROVE  \A i \in DOMAIN replies_queue' : Good(replies_queue'[i])
    <3>1. /\ holding[ep] \in Seqnums /\ holding[ep] # 0
          /\ in_data[ep] \in Seq(TransferData) /\ in_data[ep] # << >>
          /\ in_commands[ep] \in Seq(Seqnums) /\ inflight[InAddress(ep)] \in Seq(Seqnums)
          /\ Pushing(ep) \in Seqnums \cup {0}
      BY <2>4, ConstantFacts, RecordFacts DEF SendDataToHost, TypeOK, Pushing, NoCommand
    <3>2. Head(in_data[ep]) \in TransferData
      BY <3>1, TailFacts
    <3>3. MayAnswer(Head(in_data[ep]).xfer, holding[ep], RefusedAt(InAddress(ep)))
      BY <3>1, AlignedSteps DEF Paired
    <3>a. Done(holding[ep]) /\ IsIn(holding[ep]) /\ Ep(holding[ep]) = ep
      BY <3>1 DEF Sorted, SortedHolding, InOf, NoCommand
    <3>b. sent[holding[ep]].at = InAddress(ep)
      <4>1. holding[ep] \in DOMAIN sent /\ sent \in Seq(Command)
        BY <3>a, <1>2 DEF TypeOK
      <4>2. sent[holding[ep]].at \in EpAddresses /\ sent[holding[ep]].at[2] = "in"
        BY <3>a, <4>1, RecordFacts DEF IsIn, EpAddresses
      <4>3. QED
        BY <3>a, <4>2, ConstantFacts DEF Ep
    <3>4. [seq |-> holding[ep], data |-> Head(in_data[ep]), status |-> "ok"] \in Reply
      BY <3>1, <3>2, RecordFacts
    <3>5. Good([seq |-> holding[ep], data |-> Head(in_data[ep]), status |-> "ok"])
      <4>1. Matches([seq |-> holding[ep], data |-> Head(in_data[ep]), status |-> "ok"])
        BY <3>3, <3>b DEF Matches
      <4>2. QED
        BY <4>1, <3>a, <1>3
    <3>6. replies_queue' = Append(replies_queue,
               [seq |-> holding[ep], data |-> Head(in_data[ep]), status |-> "ok"])
      BY <2>4 DEF SendDataToHost
    <3>7. QED
      BY <3>4, <3>5, <3>6, <1>8
  <2>5. CASE ReplyPull
    <3>1. /\ replies_queue \in Seq(Reply) /\ replies_queue # << >>
          /\ replies_queue' = Tail(replies_queue)
      BY <2>5 DEF ReplyPull, TypeOK
    <3>2. \A i \in DOMAIN replies_queue' :
              i + 1 \in DOMAIN replies_queue /\ replies_queue'[i] = replies_queue[i + 1]
      BY <3>1, TailFacts
    <3>3. QED
      BY <3>2, <1>4
  <2>6. QED
    BY <2>1, <2>2, <2>3, <2>4, <2>5, WhoChanges
<1>10. writer'.pc # "pull" => Good(writer'.rep)
  <2>1. CASE writer' = writer
    BY <2>1, <1>4
  <2>2. CASE ReplyPull
    <3>1. replies_queue \in Seq(Reply) /\ replies_queue # << >>
      BY <2>2 DEF ReplyPull, TypeOK
    <3>2. Head(replies_queue) = replies_queue[1] /\ 1 \in DOMAIN replies_queue
      BY <3>1, TailFacts
    <3>3. QED
      BY <2>2, <3>2, <1>4 DEF ReplyPull
  <2>3. CASE ReplyDrop \/ ReplyWrite
    BY <2>3 DEF ReplyDrop, ReplyWrite, Waiting
  <2>4. CASE ReplyKeep
    BY <2>4, <1>4 DEF ReplyKeep
  <2>5. QED
    BY <2>1, <2>2, <2>3, <2>4, WhoChanges
<1>11. \A i \in DOMAIN wire' : Good(wire'[i])
  <2>1. CASE wire' = wire
    BY <2>1, <1>4
  <2>2. CASE ReplyWrite
    <3>1. /\ wire \in Seq(Reply) /\ writer.rep \in Reply /\ writer.pc # "pull"
          /\ wire' = Append(wire, writer.rep)
      BY <2>2, RecordFacts DEF ReplyWrite, TypeOK
    <3>2. \A i \in DOMAIN wire' : \/ i \in DOMAIN wire /\ wire'[i] = wire[i]
                                  \/ wire'[i] = writer.rep
      BY <3>1, AppendElement
    <3>3. QED
      BY <3>1, <3>2, <1>4
  <2>3. QED
    BY <2>1, <2>2, WhoChanges
<1>12. QED
  BY <1>5, <1>9, <1>10, <1>11

\* The data of every reply to an IN command comes from the transfer submitted
\* for that command, though send_data_to_host pairs the two by position alone:
\* whatever is unlinked, fails or completes early, for any number of commands
\* and endpoints, until libusb refuses a transfer of the endpoint; the command
\* of that transfer and all later ones get the data of a later transfer.
THEOREM OwnDataTheorem == Spec => []OwnData
<1> DEFINE Inv == TypeOK /\ CommandOrder /\ Sorted /\ Paired /\ AnswersMatch
<1>1. Init => Inv
  <2> SUFFICES ASSUME Init PROVE Inv
    OBVIOUS
  <2>1. TypeOK
    BY ConstantFacts, RecordFacts, MaxCommandsAssumption DEF Init, TypeOK, NoCommand
  <2>2. CommandOrder
    BY DEF Init, CommandOrder, Busy, Idle
  <2>3. Sorted
    BY DEF Init, Sorted, SortedCommands, SortedHolding, SortedTransfers, SortedAnswers, Waiting
  <2>4. Paired
    BY ConstantFacts DEF Init, Paired, Aligned, InHand, Pushing, Idle, NoCommand, RefusedAt
  <2>5. AnswersMatch
    BY DEF Init, AnswersMatch, Waiting
  <2>6. QED
    BY <2>1, <2>2, <2>3, <2>4, <2>5
<1>2. Inv /\ [Next]_vars => Inv'
  BY TypeStep, OrderStep, SortedStep, PairedStep, MatchStep
<1>3. Inv => OwnData
  BY DEF AnswersMatch, Matches, OwnData
<1>4. QED
  BY <1>1, <1>2, <1>3, PTL DEF Spec

-----------------------------------------------------------------------------
(* Unlinking and the order of answers, and the refinement of UrbContract   *)
(* that follows.  First, commands.                                         *)

\* The order of commands that were sent does not change.
LEMMA BeforeStep ==
    ASSUME TypeOK, [Next]_vars, NEW s \in 1 .. Len(sent), NEW t \in 1 .. Len(sent)
    PROVE  Before(s, t)' = Before(s, t)
  BY SentStep DEF Before, IsIn, IsOut, IsSubmit

\* A command the executor is through with was sent before the one in hand.
LEMMA DoneFacts ==
    ASSUME TypeOK, CommandOrder, NEW s, Done(s)
    PROVE  /\ s \in 1 .. Len(sent) /\ s \in Seqnums
           /\ Busy => s < exec.cmd /\ Before(s, exec.cmd)
<1>1. s \in 1 .. Len(sent) /\ s \in Nat
  BY PulledFacts DEF Done
<1>2. s \in Seqnums
  BY <1>1, MaxCommandsAssumption DEF Seqnums, TypeOK
<1>3. Busy => s < exec.cmd
  BY PulledFacts DEF Done
<1>4. QED
  BY <1>1, <1>2, <1>3, PulledFacts DEF Before

\* Whatever is in a place the executor is through with.
LEMMA PlacesDone ==
    ASSUME TypeOK, Sorted, NEW s
    PROVE  /\ InProgress(s) /\ s # NoCommand => Done(s)
           /\ IsAnswered(s) => Done(s)
  BY DEF Sorted, SortedCommands, SortedHolding, SortedTransfers, SortedAnswers,
     InProgress, IsAnswered, IsQueued, IsWriting, IsWritten

\* UnlinksSubmits is preserved: the host unlinks what it has submitted.
LEMMA UnlinksStep ==
    ASSUME TypeOK, UnlinksSubmits, [Next]_vars
    PROVE  UnlinksSubmits'
<1> DEFINE Names(u) == sent'[u].req = "unlink" =>
               /\ sent'[u].victim \in 1 .. Len(sent')
               /\ sent'[sent'[u].victim].req = "submit"
<1>1. /\ Len(sent) \in Nat /\ Len(sent') \in Nat /\ Len(sent) <= Len(sent')
      /\ \A u \in 1 .. Len(sent) : sent'[u] = sent[u]
      /\ DOMAIN sent = 1 .. Len(sent)
  BY SentStep DEF TypeOK
<1>2. \A u \in 1 .. Len(sent) : Names(u)
  BY <1>1 DEF UnlinksSubmits, IsUnlink, IsSubmit
<1>3. ASSUME \A u \in 1 .. Len(sent') : Names(u), DOMAIN sent' = 1 .. Len(sent')
      PROVE  UnlinksSubmits'
  BY <1>3 DEF UnlinksSubmits, IsUnlink, IsSubmit
<1>4. TypeOK'
  BY TypeStep
<1>5. DOMAIN sent' = 1 .. Len(sent')
  BY <1>4 DEF TypeOK
<1>6. ASSUME NEW a \in Addresses, HostSubmit(a) PROVE \A u \in 1 .. Len(sent') : Names(u)
  <2>1. /\ Len(sent') = Len(sent) + 1
        /\ sent'[Len(sent) + 1] = [req |-> "submit", at |-> a, victim |-> 0]
    BY <1>6, RecordFacts, AppendFacts DEF HostSubmit, TypeOK
  <2>2. QED
    BY <2>1, <1>1, <1>2
<1>7. ASSUME NEW v \in DOMAIN sent, HostUnlink(v) PROVE \A u \in 1 .. Len(sent') : Names(u)
  <2>1. v \in Seqnums /\ sent[v] \in Command
    BY MaxCommandsAssumption DEF Seqnums, TypeOK
  <2>2. [req |-> "unlink", at |-> sent[v].at, victim |-> v] \in Command
    BY <2>1, RecordFacts
  <2>3. /\ Len(sent') = Len(sent) + 1
        /\ sent'[Len(sent) + 1] = [req |-> "unlink", at |-> sent[v].at, victim |-> v]
    BY <1>7, <2>2, AppendFacts DEF HostUnlink, TypeOK
  <2>4. sent[v].req = "submit"
    BY <1>7 DEF HostUnlink, IsSubmit
  <2>5. QED
    BY <2>3, <2>4, <1>1, <1>2
<1>8. ASSUME ~Host PROVE \A u \in 1 .. Len(sent') : Names(u)
  <2>1. sent' = sent
    BY <1>8 DEF Next, Executor, Complete, Transfer, Writer, CommandProduce,
       ExecutePull, ExecuteControl, ReadDataFromDevice, PushInCommand,
       SendDataToDevice, UnlinkMark, UnlinkReply, CompleteOut, CompleteIn,
       TransferPull, SendDataToHost, ReplyPull, ReplyDrop, ReplyKeep, ReplyWrite, vars
  <2>2. QED
    BY <2>1, <1>2
<1>9. QED
  BY <1>3, <1>5, <1>6, <1>7, <1>8 DEF Host
-----------------------------------------------------------------------------
(* Commands in progress keep their turn. *)

\* Places of a queue whose front was taken.
LEMMA TailPlaces ==
    ASSUME NEW S, NEW q \in Seq(S), q # << >>
    PROVE  \A k \in DOMAIN Tail(q) : /\ k \in Nat /\ 1 \in DOMAIN q /\ k + 1 \in DOMAIN q
                                     /\ 1 < k + 1 /\ Tail(q)[k] = q[k + 1]
                                     /\ \A l \in DOMAIN Tail(q) : k < l => k + 1 < l + 1
<1>1. /\ Len(q) \in Nat /\ DOMAIN q = 1 .. Len(q) /\ DOMAIN Tail(q) = 1 .. Len(q) - 1
      /\ \A i \in 1 .. Len(q) - 1 : Tail(q)[i] = q[i + 1]
  BY TailFacts
<1>2. QED
  BY <1>1

\* The executor runs a command it has just pulled, or the one it had.
LEMMA ExecChanges ==
    ASSUME [Next]_vars
    PROVE  \/ ExecutePull
           \/ exec' = exec /\ ~ReadDataFromDevice /\ ~SendDataToDevice
           \/ exec'.pc # "run"
<1>1. CASE Executor
  <2>1. CASE ExecuteControl \/ PushInCommand \/ SendDataToDevice \/ UnlinkReply
    <3>1. exec' = Idle
      BY <2>1 DEF ExecuteControl, PushInCommand, SendDataToDevice, UnlinkReply
    <3>2. QED
      BY <3>1 DEF Idle
  <2>2. CASE ReadDataFromDevice
    BY <2>2 DEF ReadDataFromDevice
  <2>3. CASE UnlinkMark
    BY <2>3 DEF UnlinkMark
  <2>4. QED
    BY <1>1, <2>1, <2>2, <2>3 DEF Executor
<1>2. ASSUME ~Executor PROVE exec' = exec /\ ~ReadDataFromDevice /\ ~SendDataToDevice
  BY <1>2 DEF Next, Host, HostSubmit, HostUnlink, CommandProduce, Executor, Complete,
     CompleteOut, CompleteIn, Transfer, TransferPull, SendDataToHost, Writer, ReplyPull,
     ReplyDrop, ReplyKeep, ReplyWrite, vars
<1>3. QED
  BY <1>1, <1>2

\* What comes to the end of a queue is after all that was in it, and what leaves
\* its front takes nothing from the order of the rest.
LEMMA InTurnStep ==
    ASSUME TypeOK, CommandOrder, Sorted, InTurn, [Next]_vars
    PROVE  InTurn'
<1> DEFINE B(s, t) == /\ s # t
                      /\ (/\ sent'[s].req = "submit" /\ sent'[s].at[1] # 0
                          /\ sent'[s].at[2] \in {"in", "out"}
                          /\ sent'[t].req = "submit" /\ sent'[s].at = sent'[t].at) => s < t
<1>1. \A s, t \in 1 .. Len(sent) : Before(s, t) => B(s, t)
  BY SentStep DEF Before, IsIn, IsOut, IsSubmit
<1>2. \A s, t : B(s, t) => Before(s, t)'
  BY DEF Before, IsIn, IsOut, IsSubmit
<1>3. \A s, t : s < t /\ s # t => B(s, t)
  OBVIOUS
<1> HIDE DEF B
<1>4. \A s : Done(s) => s \in 1 .. Len(sent) /\ s \in Seqnums /\ s \in Nat
  BY DoneFacts
<1>5. Busy => /\ exec.cmd \in Seqnums /\ exec.cmd \in Nat
              /\ \A s : Done(s) => B(s, exec.cmd)
  <2>1. ASSUME Busy PROVE exec.cmd \in Seqnums /\ exec.cmd \in Nat
    BY <2>1, RecordFacts, ConstantFacts DEF TypeOK, Busy
  <2>2. ASSUME Busy, NEW s, Done(s) PROVE B(s, exec.cmd)
    BY <2>1, <2>2, <1>3, <1>4, DoneFacts
  <2>3. QED
    BY <2>1, <2>2
<1>6. \A ep \in Eps : /\ in_commands[ep] \in Seq(Seqnums)
                      /\ DOMAIN in_commands[ep] = 1 .. Len(in_commands[ep])
                      /\ Len(in_commands[ep]) \in Nat
                      /\ \A k \in DOMAIN in_commands[ep] : Done(in_commands[ep][k])
                      /\ holding[ep] # NoCommand => Done(holding[ep])
  BY DEF TypeOK, Sorted, SortedCommands, SortedHolding
<1>7. /\ \A ep \in Eps : \A k, l \in DOMAIN in_commands[ep] :
             k < l => B(in_commands[ep][k], in_commands[ep][l])
      /\ \A ep \in Eps : \A k \in DOMAIN in_commands[ep] :
             holding[ep] # NoCommand => B(holding[ep], in_commands[ep][k])
  BY <1>1, <1>4, <1>6 DEF InTurn
<1>8. \A ep \in Eps : \A k, l \in DOMAIN in_commands'[ep] :
          k < l => B(in_commands'[ep][k], in_commands'[ep][l])
  <2>1. CASE in_commands' = in_commands
    BY <2>1, <1>7
  <2>2. CASE PushInCommand
    <3>1. Busy /\ in_commands' = [in_commands EXCEPT ![Ep(exec.cmd)] = Append(@, exec.cmd)]
      BY <2>2 DEF PushInCommand, Busy
    <3>2. ASSUME NEW ep \in Eps, NEW k \in DOMAIN in_commands'[ep],
                 NEW l \in DOMAIN in_commands'[ep], k < l
          PROVE  B(in_commands'[ep][k], in_commands'[ep][l])
      <4>1. CASE ep = Ep(exec.cmd)
        <5>1. in_commands'[ep] = Append(in_commands[ep], exec.cmd)
          BY <3>1, <4>1 DEF TypeOK
        <5>2. k \in 1 .. Len(in_commands[ep]) /\ l \in 1 .. Len(in_commands[ep]) + 1
          BY <3>1, <3>2, <5>1, <1>5, <1>6, AppendFacts
        <5>3. in_commands'[ep][k] = in_commands[ep][k]
          BY <3>1, <5>1, <5>2, <1>5, <1>6, AppendFacts
        <5>4. CASE l = Len(in_commands[ep]) + 1
          BY <3>1, <5>1, <5>2, <5>3, <5>4, <1>5, <1>6, AppendFacts
        <5>5. CASE l \in 1 .. Len(in_commands[ep])
          BY <3>1, <3>2, <5>1, <5>2, <5>3, <5>5, <1>5, <1>6, <1>7, AppendFacts
        <5>6. QED
          BY <5>2, <5>4, <5>5, <1>6
      <4>2. CASE ep # Ep(exec.cmd)
        BY <3>1, <3>2, <4>2, <1>7 DEF TypeOK
      <4>3. QED
        BY <4>1, <4>2
    <3>3. QED
      BY <3>2
  <2>3. ASSUME NEW e \in Eps, TransferPull(e),
               NEW ep \in Eps, NEW k \in DOMAIN in_commands'[ep],
               NEW l \in DOMAIN in_commands'[ep], k < l
        PROVE  B(in_commands'[ep][k], in_commands'[ep][l])
    <3>1. in_commands[e] # << >> /\ in_commands' = [in_commands EXCEPT ![e] = Tail(@)]
      BY <2>3 DEF TransferPull
    <3>2. CASE ep = e
      <4>1. /\ in_commands'[ep] = Tail(in_commands[ep])
            /\ in_commands[ep] # << >> /\ in_commands[ep] \in Seq(Seqnums)
        BY <3>1, <3>2 DEF TypeOK
      <4>2. /\ k + 1 \in DOMAIN in_commands[ep] /\ l + 1 \in DOMAIN in_commands[ep] /\ k + 1 < l + 1
            /\ in_commands'[ep][k] = in_commands[ep][k + 1]
            /\ in_commands'[ep][l] = in_commands[ep][l + 1]
        BY <2>3, <4>1, TailPlaces, TailFacts
      <4>3. QED
        BY <4>2, <1>7
    <3>3. CASE ep # e
      BY <2>3, <3>1, <3>3, <1>7 DEF TypeOK
    <3>4. QED
      BY <3>2, <3>3
  <2>4. QED
    BY <2>1, <2>2, <2>3, WhoChanges
<1>9. \A ep \in Eps : \A k \in DOMAIN in_commands'[ep] :
          holding'[ep] # NoCommand => B(holding'[ep], in_commands'[ep][k])
  <2>1. CASE in_commands' = in_commands /\ holding' = holding
    BY <2>1, <1>7
  <2>2. ASSUME PushInCommand, NEW ep \in Eps, NEW k \in DOMAIN in_commands'[ep],
               holding'[ep] # NoCommand
        PROVE  B(holding'[ep], in_commands'[ep][k])
    <3>1. /\ Busy /\ holding' = holding
          /\ in_commands' = [in_commands EXCEPT ![Ep(exec.cmd)] = Append(@, exec.cmd)]
      BY <2>2 DEF PushInCommand, Busy
    <3>2. in_commands \in [Eps -> Seq(Seqnums)]
      BY DEF TypeOK
    <3>3. \/ k \in DOMAIN in_commands[ep] /\ in_commands'[ep][k] = in_commands[ep][k]
          \/ in_commands'[ep][k] = exec.cmd
      BY <3>1, <3>2, <2>2, <1>5, AppendAtElement
    <3>4. QED
      BY <2>2, <3>1, <3>3, <1>5, <1>6, <1>7
  <2>3. ASSUME NEW e \in Eps, TransferPull(e),
               NEW ep \in Eps, NEW k \in DOMAIN in_commands'[ep], holding'[ep] # NoCommand
        PROVE  B(holding'[ep], in_commands'[ep][k])
    <3>1. /\ in_commands[e] # << >> /\ in_commands' = [in_commands EXCEPT ![e] = Tail(@)]
          /\ holding' = [holding EXCEPT ![e] = Head(in_commands[e])]
      BY <2>3 DEF TransferPull
    <3>2. CASE ep = e
      <4>1. /\ in_commands'[ep] = Tail(in_commands[ep]) /\ holding'[ep] = Head(in_commands[ep])
            /\ in_commands[ep] # << >> /\ in_commands[ep] \in Seq(Seqnums)
        BY <3>1, <3>2 DEF TypeOK
      <4>2. /\ 1 \in DOMAIN in_commands[ep] /\ k + 1 \in DOMAIN in_commands[ep] /\ 1 < k + 1
            /\ Head(in_commands[ep]) = in_commands[ep][1]
            /\ in_commands'[ep][k] = in_commands[ep][k + 1]
        BY <2>3, <4>1, TailPlaces, TailFacts
      <4>3. QED
        BY <4>1, <4>2, <1>7
    <3>3. CASE ep # e
      BY <2>3, <3>1, <3>3, <1>7 DEF TypeOK
    <3>4. QED
      BY <3>2, <3>3
  <2>4. ASSUME NEW e \in Eps, SendDataToHost(e),
               NEW ep \in Eps, NEW k \in DOMAIN in_commands'[ep], holding'[ep] # NoCommand
        PROVE  B(holding'[ep], in_commands'[ep][k])
    <3>1. in_commands' = in_commands /\ holding' = [holding EXCEPT ![e] = NoCommand]
      BY <2>4 DEF SendDataToHost
    <3>2. holding'[ep] = holding[ep]
      BY <3>1, <2>4 DEF TypeOK
    <3>3. QED
      BY <2>4, <3>1, <3>2, <1>7
  <2>5. CASE PushInCommand \/ in_commands' = in_commands
    BY <2>1, <2>2, <2>3, <2>4, <2>5, WhoChanges DEF PushInCommand
  <2>6. QED
    BY <2>3, <2>5, WhoChanges
<1>10. \A a \in EpAddresses :
           /\ inflight[a] \in Seq(Seqnums) /\ Len(inflight[a]) \in Nat
           /\ DOMAIN inflight[a] = 1 .. Len(inflight[a])
           /\ \A k \in DOMAIN inflight[a] : /\ inflight[a][k] \in 1 .. Pulled
                                            /\ inflight[a][k] \in 1 .. Len(sent)
                                            /\ exec.pc = "run" => inflight[a][k] < Pulled
  BY PulledFacts DEF TypeOK, Sorted, SortedTransfers, InTurn, Busy
<1>11. \A a \in EpAddresses : \A k, l \in DOMAIN inflight[a] :
           k < l => B(inflight[a][k], inflight[a][l])
  BY <1>1, <1>10 DEF InTurn
<1>12. \A a \in EpAddresses : \A k, l \in DOMAIN inflight'[a] :
           k < l => B(inflight'[a][k], inflight'[a][l])
  <2>1. CASE inflight' = inflight
    BY <2>1, <1>11
  <2>2. ASSUME ReadDataFromDevice \/ SendDataToDevice, inflight' # inflight,
               NEW a \in EpAddresses, NEW k \in DOMAIN inflight'[a],
               NEW l \in DOMAIN inflight'[a], k < l
        PROVE  B(inflight'[a][k], inflight'[a][l])
    <3>1. /\ Busy /\ exec.pc = "run"
          /\ inflight' = [inflight EXCEPT ![sent[exec.cmd].at] = Append(@, exec.cmd)]
      BY <2>2 DEF ReadDataFromDevice, SendDataToDevice, SubmitTransfer, Busy
    <3>2. CASE a = sent[exec.cmd].at
      <4>1. inflight'[a] = Append(inflight[a], exec.cmd)
        BY <3>1, <3>2 DEF TypeOK
      <4>2. /\ \A i \in 1 .. Len(inflight[a]) : inflight'[a][i] = inflight[a][i]
            /\ inflight'[a][Len(inflight[a]) + 1] = exec.cmd
        <5>1. inflight[a] \in Seq(Seqnums) /\ exec.cmd \in Seqnums
          BY <3>1, <1>5, <1>10
        <5>2. /\ \A i \in 1 .. Len(inflight[a]) :
                     Append(inflight[a], exec.cmd)[i] = inflight[a][i]
              /\ Append(inflight[a], exec.cmd)[Len(inflight[a]) + 1] = exec.cmd
          BY <5>1, AppendFacts
        <5>3. QED
          BY <4>1, <5>2
      <4>3. k \in 1 .. Len(inflight[a]) /\ l \in 1 .. Len(inflight[a]) + 1
        <5>1. inflight[a] \in Seq(Seqnums) /\ exec.cmd \in Seqnums
          BY <3>1, <1>5, <1>10
        <5>2. DOMAIN inflight'[a] = 1 .. Len(inflight[a]) + 1 /\ Len(inflight[a]) \in Nat
          BY <4>1, <5>1, AppendFacts
        <5>3. k \in 1 .. Len(inflight[a]) + 1 /\ l \in 1 .. Len(inflight[a]) + 1 /\ k < l
          BY <2>2, <5>2
        <5>4. QED
          BY <5>2, <5>3
      <4>4. inflight'[a][k] = inflight[a][k]
        BY <4>3, <4>2
      <4>5. CASE l = Len(inflight[a]) + 1
        <5>1. inflight'[a][l] = exec.cmd /\ exec.cmd = Pulled /\ Pulled \in Nat
          BY <3>1, <4>5, <4>2, PulledFacts
        <5>2. inflight[a][k] < Pulled /\ inflight[a][k] \in Nat
          BY <3>1, <4>3, <1>10
        <5>3. QED
          BY <4>4, <5>1, <5>2, <1>3
      <4>6. CASE l \in 1 .. Len(inflight[a])
        <5>1. inflight'[a][l] = inflight[a][l]
          BY <4>6, <4>2
        <5>2. k \in DOMAIN inflight[a] /\ l \in DOMAIN inflight[a]
          BY <4>3, <4>6, <1>10
        <5>3. B(inflight[a][k], inflight[a][l])
          BY <2>2, <5>2, <1>11
        <5>4. QED
          BY <4>4, <5>1, <5>3
      <4>7. QED
        BY <4>3, <4>5, <4>6, <1>10
    <3>3. CASE a # sent[exec.cmd].at
      BY <2>2, <3>1, <3>3, <1>11 DEF TypeOK
    <3>4. QED
      BY <3>2, <3>3
  <2>3. ASSUME NEW b \in EpAddresses, CompleteOut(b) \/ \E o \in Outcomes : CompleteIn(b, o),
               NEW a \in EpAddresses, NEW k \in DOMAIN inflight'[a],
               NEW l \in DOMAIN inflight'[a], k < l
        PROVE  B(inflight'[a][k], inflight'[a][l])
    <3>1. inflight[b] # << >> /\ inflight' = [inflight EXCEPT ![b] = Tail(@)]
      BY <2>3 DEF CompleteOut, CompleteIn
    <3>2. CASE a = b
      <4>1. /\ inflight'[a] = Tail(inflight[a])
            /\ inflight[a] # << >> /\ inflight[a] \in Seq(Seqnums)
        BY <3>1, <3>2 DEF TypeOK
      <4>2. /\ k + 1 \in DOMAIN inflight[a] /\ l + 1 \in DOMAIN inflight[a] /\ k + 1 < l + 1
            /\ inflight'[a][k] = inflight[a][k + 1]
            /\ inflight'[a][l] = inflight[a][l + 1]
        BY <2>3, <4>1, TailPlaces, TailFacts
      <4>3. QED
        BY <4>2, <1>11
    <3>3. CASE a # b
      BY <2>3, <3>1, <3>3, <1>11 DEF TypeOK
    <3>4. QED
      BY <3>2, <3>3
  <2>4. QED
    BY <2>1, <2>2, <2>3, WhoChanges
<1>13. ASSUME exec'.pc = "run", NEW a \in EpAddresses, NEW k \in DOMAIN inflight'[a]
       PROVE  inflight'[a][k] # exec'.cmd
  <2>1. CASE ExecutePull
    <3>1. inflight' = inflight
      BY <2>1 DEF ExecutePull
    <3>2. commands_queue # << >> /\ exec'.cmd = Head(commands_queue)
      BY <2>1 DEF ExecutePull
    <3>3. exec'.cmd = Pulled + 1
      BY <3>2 DEF TypeOK, CommandOrder
    <3>4. QED
      BY <3>1, <3>3, <1>10, <1>13, PulledFacts
  <2>2. CASE exec' = exec /\ ~ReadDataFromDevice /\ ~SendDataToDevice
    <3>1. CASE inflight' = inflight
      BY <2>2, <3>1, <1>13 DEF InTurn
    <3>2. ASSUME NEW b \in EpAddresses, CompleteOut(b) \/ \E o \in Outcomes : CompleteIn(b, o)
          PROVE  inflight'[a][k] # exec'.cmd
      <4>1. inflight[b] # << >> /\ inflight' = [inflight EXCEPT ![b] = Tail(@)]
        BY <3>2 DEF CompleteOut, CompleteIn
      <4>2. inflight \in [EpAddresses -> Seq(Seqnums)]
        BY DEF TypeOK
      <4>3. \E j \in DOMAIN inflight[a] : inflight'[a][k] = inflight[a][j]
        BY <4>1, <4>2, <1>13, TailAtElement
      <4>4. QED
        BY <2>2, <4>3, <1>13 DEF InTurn
    <3>3. QED
      BY <2>2, <3>1, <3>2, WhoChanges
  <2>3. QED
    BY <2>1, <2>2, <1>13, ExecChanges
<1>14. QED
  BY <1>2, <1>8, <1>9, <1>12, <1>13, ZenonT(40) DEF InTurn, Before, IsIn, IsOut, IsSubmit
-----------------------------------------------------------------------------
(* What the steps do to the places of a command. *)

\* A command comes into progress only by the executor's hand.
LEMMA ProgressStep ==
    ASSUME TypeOK, [Next]_vars, NEW s \in Seqnums, InProgress(s)'
    PROVE  \/ InProgress(s)
           \/ Busy /\ ~Busy' /\ s = exec.cmd /\ (PushInCommand \/ SendDataToDevice)
<1> DEFINE Goal == \/ InProgress(s)
                   \/ Busy /\ ~Busy' /\ s = exec.cmd /\ (PushInCommand \/ SendDataToDevice)
<1>1. s # NoCommand /\ (Busy => exec.cmd \in Seqnums)
  BY ConstantFacts, RecordFacts DEF NoCommand, Busy, TypeOK
<1>2. /\ in_commands \in [Eps -> Seq(Seqnums)] /\ inflight \in [EpAddresses -> Seq(Seqnums)]
      /\ holding \in [Eps -> {NoCommand} \cup Seqnums]
  BY DEF TypeOK
<1>3. ASSUME NEW ep \in Eps, holding'[ep] = s PROVE Goal
  <2>1. CASE holding' = holding
    BY <1>3, <2>1 DEF InProgress
  <2>2. ASSUME NEW e \in Eps, TransferPull(e) PROVE Goal
    <3>1. Head(in_commands[e]) = in_commands[e][1] /\ 1 \in DOMAIN in_commands[e]
      BY <2>2, TailFacts DEF TransferPull, TypeOK
    <3>2. holding'[ep] = holding[ep] \/ (ep = e /\ s = Head(in_commands[e]))
      BY <2>2, <1>2, <1>3 DEF TransferPull
    <3>3. QED
      BY <3>1, <3>2, <1>3 DEF InProgress
  <2>3. ASSUME NEW e \in Eps, SendDataToHost(e) PROVE Goal
    <3>1. holding'[ep] = holding[ep]
      BY <2>3, <1>1, <1>2, <1>3 DEF SendDataToHost
    <3>2. QED
      BY <3>1, <1>3 DEF InProgress
  <2>4. QED
    BY <2>1, <2>2, <2>3, WhoChanges
<1>4. ASSUME NEW ep \in Eps, NEW k \in DOMAIN in_commands'[ep], in_commands'[ep][k] = s PROVE Goal
  <2>1. CASE in_commands' = in_commands
    BY <1>4, <2>1 DEF InProgress
  <2>2. CASE PushInCommand
    <3>1. /\ Busy /\ ~Busy'
          /\ in_commands' = [in_commands EXCEPT ![Ep(exec.cmd)] = Append(@, exec.cmd)]
      BY <2>2 DEF PushInCommand, Busy, Idle
    <3>2. \/ k \in DOMAIN in_commands[ep] /\ in_commands'[ep][k] = in_commands[ep][k]
          \/ in_commands'[ep][k] = exec.cmd
      BY <3>1, <1>1, <1>2, <1>4, AppendAtElement
    <3>3. QED
      BY <2>2, <3>1, <3>2, <1>4 DEF InProgress
  <2>3. ASSUME NEW e \in Eps, TransferPull(e) PROVE Goal
    <3>1. in_commands[e] # << >> /\ in_commands' = [in_commands EXCEPT ![e] = Tail(@)]
      BY <2>3 DEF TransferPull
    <3>2. \E j \in DOMAIN in_commands[ep] : in_commands'[ep][k] = in_commands[ep][j]
      BY <3>1, <1>2, <1>4, TailAtElement
    <3>3. QED
      BY <3>2, <1>4 DEF InProgress
  <2>4. QED
    BY <2>1, <2>2, <2>3, WhoChanges
<1>5. ASSUME NEW a \in EpAddresses, a[2] = "out", NEW k \in DOMAIN inflight'[a],
             inflight'[a][k] = s
      PROVE  Goal
  <2>1. CASE inflight' = inflight
    BY <1>5, <2>1 DEF InProgress
  <2>2. CASE (ReadDataFromDevice \/ SendDataToDevice) /\ inflight' # inflight
    <3>1. /\ Busy
          /\ inflight' = [inflight EXCEPT ![sent[exec.cmd].at] = Append(@, exec.cmd)]
      BY <2>2 DEF ReadDataFromDevice, SendDataToDevice, SubmitTransfer, Busy
    <3>2. \/ k \in DOMAIN inflight[a] /\ inflight'[a][k] = inflight[a][k]
          \/ a = sent[exec.cmd].at /\ inflight'[a][k] = exec.cmd
      BY <3>1, <1>1, <1>2, <1>5, AppendAtElement
    <3>3. CASE k \in DOMAIN inflight[a] /\ inflight'[a][k] = inflight[a][k]
      BY <3>3, <1>5 DEF InProgress
    <3>4. CASE a = sent[exec.cmd].at /\ inflight'[a][k] = exec.cmd
      <4>1. SendDataToDevice
        BY <2>2, <3>4, <1>5 DEF ReadDataFromDevice, IsIn
      <4>2. ~Busy'
        BY <4>1 DEF SendDataToDevice, Idle, Busy
      <4>3. QED
        BY <3>1, <3>4, <4>1, <4>2, <1>5
    <3>5. QED
      BY <3>2, <3>3, <3>4
  <2>3. ASSUME NEW b \in EpAddresses, CompleteOut(b) \/ \E o \in Outcomes : CompleteIn(b, o)
        PROVE  Goal
    <3>1. inflight[b] # << >> /\ inflight' = [inflight EXCEPT ![b] = Tail(@)]
      BY <2>3 DEF CompleteOut, CompleteIn
    <3>2. \E j \in DOMAIN inflight[a] : inflight'[a][k] = inflight[a][j]
      BY <3>1, <1>2, <1>5, TailAtElement
    <3>3. QED
      BY <3>2, <1>5 DEF InProgress
  <2>4. QED
    BY <2>1, <2>2, <2>3, WhoChanges
<1>6. QED
  BY <1>3, <1>4, <1>5 DEF InProgress

\* The kind and the address of a command in progress.
LEMMA ProgressKinds ==
    ASSUME TypeOK, CommandOrder, Sorted, NEW s \in Seqnums, InProgress(s)
    PROVE  \/ \E ep \in Eps : InOf(ep, s) /\ \/ holding[ep] = s
                                             \/ \E k \in DOMAIN in_commands[ep] : in_commands[ep][k] = s
           \/ \E a \in EpAddresses : /\ IsSubmit(s) /\ sent[s].at = a /\ a[2] = "out"
                                     /\ \E k \in DOMAIN inflight[a] : inflight[a][k] = s
  BY ConstantFacts DEF InProgress, Sorted, SortedCommands, SortedHolding, SortedTransfers, NoCommand

\* An answer taken from a queue is older than all that is left of its pipe.
LEMMA OldestIn ==
    ASSUME TypeOK, CommandOrder, Sorted, InTurn, [Next]_vars,
           NEW ep \in Eps, SendDataToHost(ep), NEW s \in Seqnums, InProgress(s)'
    PROVE  InProgress(s) /\ Before(holding[ep], s)
<1>1. /\ holding[ep] # NoCommand /\ holding' = [holding EXCEPT ![ep] = NoCommand]
      /\ UNCHANGED <<sent, exec, inflight, in_commands>>
  BY DEF SendDataToHost
<1>2. InProgress(s) /\ s # NoCommand
  BY <1>1, ProgressStep, ConstantFacts DEF PushInCommand, SendDataToDevice, Busy, Idle, NoCommand
<1>3. InOf(ep, holding[ep])
  BY <1>1 DEF Sorted, SortedHolding
<1>4. ASSUME NEW e \in Eps, holding'[e] = s PROVE Before(holding[ep], s)
  <2>1. e # ep /\ InOf(e, s)
    BY <1>1, <1>2, <1>4 DEF TypeOK, Sorted, SortedHolding
  <2>2. QED
    BY <2>1, <1>3 DEF InOf, Before, Ep
<1>5. ASSUME NEW e \in Eps, NEW k \in DOMAIN in_commands[e], in_commands[e][k] = s
      PROVE  Before(holding[ep], s)
  <2>1. InOf(e, s)
    BY <1>5 DEF Sorted, SortedCommands
  <2>2. CASE e = ep
    BY <2>2, <1>1, <1>5 DEF InTurn
  <2>3. CASE e # ep
    BY <2>1, <2>3, <1>3 DEF InOf, Before, Ep
  <2>4. QED
    BY <2>2, <2>3
<1>6. ASSUME NEW a \in EpAddresses, a[2] = "out", NEW k \in DOMAIN inflight[a], inflight[a][k] = s
      PROVE  Before(holding[ep], s)
  <2>1. sent[s].at = a /\ sent[holding[ep]].at[2] = "in"
    BY <1>3, <1>6 DEF Sorted, SortedTransfers, InOf, IsIn
  <2>2. QED
    BY <2>1, <1>6 DEF Before
<1>7. QED
  BY <1>1, <1>2, <1>4, <1>5, <1>6 DEF InProgress

LEMMA OldestOut ==
    ASSUME TypeOK, CommandOrder, Sorted, InTurn, [Next]_vars,
           NEW a \in EpAddresses, CompleteOut(a), NEW s \in Seqnums, InProgress(s)'
    PROVE  InProgress(s) /\ Before(Head(inflight[a]), s)
<1>1. /\ a[2] = "out" /\ inflight[a] # << >> /\ inflight' = [inflight EXCEPT ![a] = Tail(@)]
      /\ UNCHANGED <<sent, exec, holding, in_commands>>
      /\ inflight[a] \in Seq(Seqnums)
  BY DEF CompleteOut, TypeOK
<1>2. InProgress(s) /\ s # NoCommand
  BY <1>1, ProgressStep, ConstantFacts DEF PushInCommand, SendDataToDevice, Busy, Idle, NoCommand
<1>3. Head(inflight[a]) = inflight[a][1] /\ 1 \in DOMAIN inflight[a]
  BY <1>1, TailFacts
<1>4. sent[Head(inflight[a])].at = a
  BY <1>3 DEF Sorted, SortedTransfers
<1>5. ASSUME NEW e \in Eps, InOf(e, s) PROVE Before(Head(inflight[a]), s)
  BY <1>1, <1>4, <1>5 DEF InOf, IsIn, Before
<1>6. ASSUME NEW b \in EpAddresses, NEW k \in DOMAIN inflight'[b], inflight'[b][k] = s
      PROVE  Before(Head(inflight[a]), s)
  <2>1. CASE b = a
    <3>1. inflight'[b] = Tail(inflight[a])
      BY <2>1, <1>1 DEF TypeOK
    <3>2. k + 1 \in DOMAIN inflight[a] /\ 1 < k + 1 /\ s = inflight[a][k + 1]
      BY <3>1, <1>1, <1>6, TailPlaces
    <3>3. QED
      BY <3>2, <1>3 DEF InTurn
  <2>2. CASE b # a
    <3>1. inflight'[b] = inflight[b]
      BY <2>2, <1>1 DEF TypeOK
    <3>2. sent[s].at = b
      BY <3>1, <1>6 DEF Sorted, SortedTransfers
    <3>3. QED
      BY <2>2, <3>2, <1>4 DEF Before
  <2>3. QED
    BY <2>1, <2>2
<1>7. ASSUME NEW e \in Eps, holding[e] = s PROVE InOf(e, s)
  BY <1>2, <1>7 DEF Sorted, SortedHolding
<1>8. ASSUME NEW e \in Eps, NEW k \in DOMAIN in_commands[e], in_commands[e][k] = s PROVE InOf(e, s)
  BY <1>8 DEF Sorted, SortedCommands
<1>9. QED
  BY <1>1, <1>2, <1>5, <1>6, <1>7, <1>8 DEF InProgress
-----------------------------------------------------------------------------
(* Answers keep the turn of their commands. *)

\* An answer is queued by the executor, by an OUT callback or by a transfer
\* thread, and moved on by the writer.
Answering ==
    \/ ExecuteControl \/ UnlinkReply
    \/ \E a \in EpAddresses : CompleteOut(a)
    \/ \E ep \in Eps : SendDataToHost(ep)

LEMMA WhoAnswers ==
    ASSUME [Next]_vars
    PROVE  Answering \/ Writer \/ UNCHANGED <<replies_queue, writer, wire>>
  BY DEF Answering, Next, Host, HostSubmit, HostUnlink, CommandProduce, Executor,
     ExecutePull, ReadDataFromDevice, PushInCommand, SendDataToDevice, UnlinkMark,
     Complete, CompleteIn, Transfer, TransferPull, vars

\* What is answered follows every earlier answer of its pipe, and precedes what is
\* left in progress.
LEMMA Answers ==
    ASSUME TypeOK, CommandOrder, Sorted, InTurn, AnsweredInTurn, [Next]_vars, Answering
    PROVE  \E r \in Reply :
               /\ replies_queue' = Append(replies_queue, r)
               /\ UNCHANGED <<sent, writer, wire, unlinked>>
               /\ InProgress(r.seq) \/ (Busy /\ ~Busy' /\ r.seq = exec.cmd)
               /\ \A s \in Seqnums : InProgress(s)' => InProgress(s) /\ Before(r.seq, s)
               /\ \A s \in Seqnums : IsAnswered(s) => Before(s, r.seq)
<1> DEFINE Goal(r) ==
               /\ replies_queue' = Append(replies_queue, r)
               /\ UNCHANGED <<sent, writer, wire, unlinked>>
               /\ InProgress(r.seq) \/ (Busy /\ ~Busy' /\ r.seq = exec.cmd)
               /\ \A s \in Seqnums : InProgress(s)' => InProgress(s) /\ Before(r.seq, s)
               /\ \A s \in Seqnums : IsAnswered(s) => Before(s, r.seq)
<1>1. ASSUME NEW ep \in Eps, SendDataToHost(ep) PROVE \E r \in Reply : Goal(r)
  <2> DEFINE r == [seq |-> holding[ep], data |-> Head(in_data[ep]), status |-> "ok"]
  <2>1. holding[ep] \in Seqnums /\ Head(in_data[ep]) \in TransferData
    BY <1>1, TailFacts DEF SendDataToHost, TypeOK
  <2>2. r \in Reply /\ r.seq = holding[ep]
    BY <2>1, RecordFacts
  <2>3. replies_queue' = Append(replies_queue, r) /\ UNCHANGED <<sent, writer, wire, unlinked>>
    BY <1>1 DEF SendDataToHost
  <2>4. InProgress(r.seq)
    BY <2>2 DEF InProgress
  <2>5. \A s \in Seqnums : InProgress(s)' => InProgress(s) /\ Before(r.seq, s)
    BY <1>1, <2>2, OldestIn
  <2>6. \A s \in Seqnums : IsAnswered(s) => Before(s, r.seq)
    BY <2>1, <2>2, <2>4 DEF AnsweredInTurn
  <2> HIDE DEF r
  <2>7. QED
    BY <2>2, <2>3, <2>4, <2>5, <2>6
<1>2. ASSUME NEW a \in EpAddresses, CompleteOut(a) PROVE \E r \in Reply : Goal(r)
  <2> DEFINE r == [seq |-> Head(inflight[a]), data |-> NoData, status |-> "ok"]
  <2>1. /\ a[2] = "out" /\ 1 \in DOMAIN inflight[a] /\ Head(inflight[a]) = inflight[a][1]
        /\ Head(inflight[a]) \in Seqnums
    BY <1>2, TailFacts DEF CompleteOut, TypeOK
  <2>2. r \in Reply /\ r.seq = Head(inflight[a])
    BY <2>1, RecordFacts
  <2>3. replies_queue' = Append(replies_queue, r) /\ UNCHANGED <<sent, writer, wire, unlinked>>
    BY <1>2 DEF CompleteOut
  <2>4. InProgress(r.seq)
    BY <2>1, <2>2 DEF InProgress
  <2>5. \A s \in Seqnums : InProgress(s)' => InProgress(s) /\ Before(r.seq, s)
    BY <1>2, <2>2, OldestOut
  <2>6. \A s \in Seqnums : IsAnswered(s) => Before(s, r.seq)
    BY <2>1, <2>2, <2>4 DEF AnsweredInTurn
  <2> HIDE DEF r
  <2>7. QED
    BY <2>2, <2>3, <2>4, <2>5, <2>6
<1>3. CASE ExecuteControl \/ UnlinkReply
  <2>1. /\ Busy /\ ~Busy' /\ UNCHANGED <<sent, writer, wire, unlinked>>
        /\ ~PushInCommand /\ ~SendDataToDevice
        /\ exec.cmd \in Seqnums /\ exec.status \in Status
        /\ IsControl(exec.cmd) \/ IsUnlink(exec.cmd)
    BY <1>3, RecordFacts DEF ExecuteControl, UnlinkReply, Busy, Idle, TypeOK, CommandOrder,
       PushInCommand, SendDataToDevice, IsControl, IsOut
  <2>2. PICK r \in Reply : r.seq = exec.cmd /\ replies_queue' = Append(replies_queue, r)
    <3>1. CASE ExecuteControl
      BY <2>1, <3>1, RecordFacts DEF ExecuteControl
    <3>2. CASE UnlinkReply
      BY <2>1, <3>2, RecordFacts DEF UnlinkReply
    <3>3. QED
      BY <1>3, <3>1, <3>2
  <2>3. ~IsIn(exec.cmd) /\ ~IsOut(exec.cmd)
    BY <2>1 DEF IsControl, IsUnlink, IsIn, IsOut, IsSubmit
  <2>4. ASSUME NEW s \in Seqnums, InProgress(s)' PROVE InProgress(s) /\ Before(r.seq, s)
    <3>1. InProgress(s) /\ s # NoCommand
      BY <2>1, <2>4, ProgressStep, ConstantFacts DEF NoCommand
    <3>2. s # exec.cmd
      BY <2>1, <3>1, PlacesDone, DoneFacts, ConstantFacts
    <3>3. QED
      BY <2>2, <2>3, <3>1, <3>2 DEF Before
  <2>5. ASSUME NEW s \in Seqnums, IsAnswered(s) PROVE Before(s, r.seq)
    BY <2>1, <2>2, <2>5, PlacesDone, DoneFacts
  <2>6. QED
    BY <2>1, <2>2, <2>4, <2>5
<1>4. QED
  BY <1>1, <1>2, <1>3 DEF Answering

\* The writer moves answers on and leaves the rest alone.
LEMMA WriterFrame ==
    ASSUME TypeOK, [Next]_vars, Writer
    PROVE  /\ UNCHANGED <<sent, nread, commands_queue, exec>>
           /\ \A s \in Seqnums : InProgress(s)' => InProgress(s)
           /\ ReplyPull \/ ReplyDrop \/ ReplyKeep \/ ReplyWrite
<1>1. UNCHANGED <<sent, nread, commands_queue, exec, holding, in_commands, inflight>>
  BY DEF Writer, ReplyPull, ReplyDrop, ReplyKeep, ReplyWrite
<1>2. \A s : InProgress(s)' => InProgress(s)
  BY <1>1 DEF InProgress
<1>3. QED
  BY <1>1, <1>2 DEF Writer

LEMMA AnsweredInTurnStep ==
    ASSUME TypeOK, CommandOrder, Sorted, InTurn, AnsweredInTurn, [Next]_vars
    PROVE  AnsweredInTurn'
<1> DEFINE B(s, t) == /\ s # t
                      /\ (/\ sent'[s].req = "submit" /\ sent'[s].at[1] # 0
                          /\ sent'[s].at[2] \in {"in", "out"}
                          /\ sent'[t].req = "submit" /\ sent'[s].at = sent'[t].at) => s < t
           P(s) == InProgress(s)'
           Q(s) == \E i \in DOMAIN replies_queue' : replies_queue'[i].seq = s
           W(s) == writer'.pc # "pull" /\ writer'.rep.seq = s
           O(s) == \E i \in DOMAIN wire' : wire'[i].seq = s
           GoalP == \A s, t \in Seqnums : (Q(s) \/ W(s) \/ O(s)) /\ P(t) => B(s, t)
           GoalQ == \A k, l \in DOMAIN replies_queue' :
                        k < l => B(replies_queue'[k].seq, replies_queue'[l].seq)
           GoalW == \A s, t \in Seqnums : /\ W(s) /\ Q(t) => B(s, t)
                                          /\ O(s) /\ (Q(t) \/ W(t)) => B(s, t)
           GoalO == \A k, l \in DOMAIN wire' : k < l => B(wire'[k].seq, wire'[l].seq)
<1>1. \A s, t \in 1 .. Len(sent) : Before(s, t) => B(s, t)
  BY SentStep DEF Before, IsIn, IsOut, IsSubmit
<1>2. \A s, t : B(s, t) => Before(s, t)'
  BY DEF Before, IsIn, IsOut, IsSubmit
<1>3. ASSUME GoalP, GoalQ, GoalW, GoalO PROVE AnsweredInTurn'
  <2> HIDE DEF B
  <2>1. \A s \in Seqnums : /\ IsQueued(s)' <=> Q(s)
                           /\ IsWriting(s)' <=> W(s)
                           /\ IsWritten(s)' <=> O(s)
                           /\ IsAnswered(s)' <=> (Q(s) \/ W(s) \/ O(s))
    BY DEF IsAnswered, IsQueued, IsWriting, IsWritten
  <2>2. \A s, t \in Seqnums : IsAnswered(s)' /\ InProgress(t)' => Before(s, t)'
    BY <2>1, <1>2, <1>3
  <2>3. \A k, l \in DOMAIN replies_queue' :
            k < l => Before(replies_queue[k].seq, replies_queue[l].seq)'
    BY <1>3 DEF B, Before, IsIn, IsOut, IsSubmit
  <2>4. \A s, t \in Seqnums : /\ IsWriting(s)' /\ IsQueued(t)' => Before(s, t)'
                              /\ IsWritten(s)' /\ (IsQueued(t)' \/ IsWriting(t)') => Before(s, t)'
    BY <2>1, <1>2, <1>3
  <2>5. \A k, l \in DOMAIN wire' : k < l => Before(wire[k].seq, wire[l].seq)'
    BY <1>3 DEF B, Before, IsIn, IsOut, IsSubmit
  <2>6. QED
    BY <2>2, <2>3, <2>4, <2>5 DEF AnsweredInTurn
<1> HIDE DEF B
<1>4. /\ \A s : Done(s) => s \in 1 .. Len(sent) /\ s \in Seqnums
      /\ Busy => \A s : Done(s) => Before(s, exec.cmd) /\ exec.cmd \in 1 .. Len(sent)
  BY DoneFacts, PulledFacts
<1>5. \A s \in Seqnums : /\ InProgress(s) => s \in 1 .. Len(sent)
                         /\ IsAnswered(s) => Done(s) /\ s \in 1 .. Len(sent)
  BY PlacesDone, ConstantFacts, <1>4 DEF NoCommand
<1>6. /\ \A k \in DOMAIN replies_queue : /\ IsQueued(replies_queue[k].seq)
                                         /\ IsAnswered(replies_queue[k].seq)
                                         /\ replies_queue[k].seq \in Seqnums
                                         /\ replies_queue[k].seq \in 1 .. Len(sent)
      /\ \A k \in DOMAIN wire : /\ IsWritten(wire[k].seq) /\ IsAnswered(wire[k].seq)
                                /\ wire[k].seq \in Seqnums /\ wire[k].seq \in 1 .. Len(sent)
  BY <1>4 DEF IsAnswered, IsQueued, IsWritten, Sorted, SortedAnswers
<1>7. \A s, t \in Seqnums : IsAnswered(s) /\ InProgress(t) => B(s, t)
  BY <1>1, <1>5 DEF AnsweredInTurn
<1>8. \A k, l \in DOMAIN replies_queue :
          k < l => B(replies_queue[k].seq, replies_queue[l].seq)
  BY <1>1, <1>6 DEF AnsweredInTurn
<1>9. \A s, t \in Seqnums : /\ IsWriting(s) /\ IsQueued(t) => B(s, t)
                            /\ IsWritten(s) /\ (IsQueued(t) \/ IsWriting(t)) => B(s, t)
  <2>1. \A s \in Seqnums : IsWriting(s) \/ IsWritten(s) \/ IsQueued(s) => s \in 1 .. Len(sent)
    BY <1>5 DEF IsAnswered
  <2>2. QED
    BY <2>1, <1>1 DEF AnsweredInTurn
<1>10. \A k, l \in DOMAIN wire : k < l => B(wire[k].seq, wire[l].seq)
  BY <1>1, <1>6 DEF AnsweredInTurn
<1>11. CASE UNCHANGED <<replies_queue, writer, wire>>
  <2>1. \A s : /\ Q(s) <=> IsQueued(s)
               /\ W(s) <=> IsWriting(s)
               /\ O(s) <=> IsWritten(s)
    BY <1>11 DEF IsQueued, IsWriting, IsWritten
  <2>2. GoalP
    <3>1. \A t \in Seqnums : P(t) => InProgress(t) \/ (Busy /\ t = exec.cmd)
      BY ProgressStep
    <3>2. \A s \in Seqnums : IsAnswered(s) /\ Busy => B(s, exec.cmd)
      BY <1>1, <1>4, <1>5
    <3>3. QED
      BY <2>1, <3>1, <3>2, <1>7 DEF IsAnswered
  <2>3. GoalQ /\ GoalO
    BY <1>8, <1>10, <1>11
  <2>4. GoalW
    BY <2>1, <1>9
  <2>5. QED
    BY <2>2, <2>3, <2>4, <1>3
<1>12. CASE Answering
  <2>1. PICK r \in Reply :
               /\ replies_queue' = Append(replies_queue, r)
               /\ UNCHANGED <<sent, writer, wire, unlinked>>
               /\ InProgress(r.seq) \/ (Busy /\ ~Busy' /\ r.seq = exec.cmd)
               /\ \A s \in Seqnums : InProgress(s)' => InProgress(s) /\ Before(r.seq, s)
               /\ \A s \in Seqnums : IsAnswered(s) => Before(s, r.seq)
    BY <1>12, Answers
  <2>2. r.seq \in Seqnums /\ r.seq \in 1 .. Len(sent)
    BY <2>1, <1>5, RecordFacts, PulledFacts
  <2>3. /\ \A s \in Seqnums : P(s) => InProgress(s) /\ B(r.seq, s)
        /\ \A s \in Seqnums : IsAnswered(s) => B(s, r.seq)
    BY <2>1, <2>2, <1>1, <1>5
  <2>4. /\ Len(replies_queue) \in Nat /\ DOMAIN replies_queue = 1 .. Len(replies_queue)
        /\ DOMAIN replies_queue' = 1 .. Len(replies_queue) + 1
        /\ \A i \in 1 .. Len(replies_queue) : replies_queue'[i] = replies_queue[i]
        /\ replies_queue'[Len(replies_queue) + 1] = r
    BY <2>1, AppendFacts DEF TypeOK
  <2>5. \A s : /\ Q(s) <=> IsQueued(s) \/ s = r.seq
               /\ W(s) <=> IsWriting(s)
               /\ O(s) <=> IsWritten(s)
    <3>1. \A i \in 1 .. Len(replies_queue) + 1 :
              i \in 1 .. Len(replies_queue) \/ i = Len(replies_queue) + 1
      BY <2>4
    <3>2. \A s : Q(s) <=> IsQueued(s) \/ s = r.seq
      BY <2>4, <3>1 DEF IsQueued
    <3>3. QED
      BY <2>1, <3>2 DEF IsWriting, IsWritten
  <2>6. GoalP
    BY <2>3, <2>5, <1>7 DEF IsAnswered
  <2>7. GoalQ
    <3>1. ASSUME NEW k \in 1 .. Len(replies_queue) + 1, NEW l \in 1 .. Len(replies_queue) + 1, k < l
          PROVE  B(replies_queue'[k].seq, replies_queue'[l].seq)
      <4>1. k \in DOMAIN replies_queue /\ replies_queue'[k] = replies_queue[k]
        BY <2>4, <3>1
      <4>2. CASE l = Len(replies_queue) + 1
        BY <2>3, <2>4, <4>1, <4>2, <1>6
      <4>3. CASE l \in 1 .. Len(replies_queue)
        BY <2>4, <3>1, <4>1, <4>3, <1>8
      <4>4. QED
        BY <2>4, <4>2, <4>3
    <3>2. QED
      BY <2>4, <3>1
  <2>8. GoalW
    BY <2>3, <2>5, <1>9 DEF IsAnswered
  <2>9. GoalO
    BY <2>1, <1>10
  <2>10. QED
    BY <2>6, <2>7, <2>8, <2>9, <1>3
<1>13. CASE Writer
  <2>1. \A s \in Seqnums : P(s) => InProgress(s)
    BY <1>13, WriterFrame
  <2>2. CASE ReplyPull
    <3>1. /\ replies_queue # << >> /\ writer' = [pc |-> "check", rep |-> Head(replies_queue)]
          /\ replies_queue' = Tail(replies_queue) /\ wire' = wire
          /\ replies_queue \in Seq(Reply)
      BY <2>2 DEF ReplyPull, TypeOK
    <3>2. /\ 1 \in DOMAIN replies_queue /\ Head(replies_queue) = replies_queue[1]
      BY <3>1, TailFacts
    <3>3. \A k \in DOMAIN replies_queue' :
              /\ k + 1 \in DOMAIN replies_queue /\ 1 < k + 1
              /\ replies_queue'[k] = replies_queue[k + 1]
              /\ \A l \in DOMAIN replies_queue' : k < l => k + 1 < l + 1
      BY <3>1, TailPlaces
    <3>4. \A s : /\ Q(s) => IsQueued(s)
                 /\ W(s) => s = replies_queue[1].seq /\ IsQueued(s)
                 /\ O(s) <=> IsWritten(s)
      BY <3>1, <3>2, <3>3 DEF IsQueued, IsWritten
    <3>5. GoalP
      BY <2>1, <3>4, <1>7 DEF IsAnswered
    <3>6. GoalQ
      BY <3>3, <1>8
    <3>7. GoalW
      <4>1. ASSUME NEW s \in Seqnums, NEW t \in Seqnums, W(s), Q(t) PROVE B(s, t)
        BY <4>1, <3>2, <3>3, <3>4, <1>8
      <4>2. ASSUME NEW s \in Seqnums, NEW t \in Seqnums, O(s), Q(t) \/ W(t) PROVE B(s, t)
        BY <4>2, <3>4, <1>9
      <4>3. QED
        BY <4>1, <4>2
    <3>8. GoalO
      BY <3>1, <1>10
    <3>9. QED
      BY <3>5, <3>6, <3>7, <3>8, <1>3
  <2>3. CASE ReplyDrop \/ ReplyKeep
    <3>1. UNCHANGED <<replies_queue, wire>>
      BY <2>3 DEF ReplyDrop, ReplyKeep
    <3>2. \A s : /\ Q(s) <=> IsQueued(s)
                 /\ W(s) => IsWriting(s)
                 /\ O(s) <=> IsWritten(s)
      BY <2>3, <3>1 DEF IsQueued, IsWriting, IsWritten, ReplyDrop, ReplyKeep, Waiting
    <3>3. GoalP
      BY <2>1, <3>2, <1>7 DEF IsAnswered
    <3>4. GoalQ /\ GoalO
      BY <3>1, <1>8, <1>10
    <3>5. GoalW
      BY <3>2, <1>9
    <3>6. QED
      BY <3>3, <3>4, <3>5, <1>3
  <2>4. CASE ReplyWrite
    <3>1. /\ writer.pc = "write" /\ wire' = Append(wire, writer.rep) /\ writer' = Waiting
          /\ replies_queue' = replies_queue
      BY <2>4 DEF ReplyWrite
    <3>2. IsWriting(writer.rep.seq) /\ writer.rep \in Reply /\ writer.rep.seq \in Seqnums
      BY <3>1, RecordFacts DEF IsWriting, TypeOK
    <3>3. /\ Len(wire) \in Nat /\ DOMAIN wire = 1 .. Len(wire)
          /\ DOMAIN wire' = 1 .. Len(wire) + 1
          /\ \A i \in 1 .. Len(wire) : wire'[i] = wire[i]
          /\ wire'[Len(wire) + 1] = writer.rep
      BY <3>1, <3>2, AppendFacts DEF TypeOK
    <3>4. \A i \in 1 .. Len(wire) + 1 : i \in 1 .. Len(wire) \/ i = Len(wire) + 1
      BY <3>3
    <3>5. \A s : /\ Q(s) <=> IsQueued(s)
                 /\ ~W(s)
                 /\ O(s) => IsWritten(s) \/ IsWriting(s)
      BY <3>1, <3>2, <3>3, <3>4 DEF IsQueued, IsWriting, IsWritten, Waiting
    <3>6. GoalP
      BY <2>1, <3>5, <1>7 DEF IsAnswered
    <3>7. GoalQ
      BY <3>1, <1>8
    <3>8. GoalW
      BY <3>5, <1>9
    <3>9. GoalO
      <4>1. ASSUME NEW k \in 1 .. Len(wire) + 1, NEW l \in 1 .. Len(wire) + 1, k < l
            PROVE  B(wire'[k].seq, wire'[l].seq)
        <5>1. k \in DOMAIN wire /\ wire'[k] = wire[k]
          BY <3>3, <4>1
        <5>2. CASE l = Len(wire) + 1
          BY <3>2, <3>3, <5>1, <5>2, <1>6, <1>9
        <5>3. CASE l \in 1 .. Len(wire)
          BY <3>3, <4>1, <5>1, <5>3, <1>10
        <5>4. QED
          BY <3>3, <5>2, <5>3
      <4>2. QED
        BY <3>3, <4>1
    <3>10. QED
      BY <3>6, <3>7, <3>8, <3>9, <1>3
  <2>5. QED
    BY <2>2, <2>3, <2>4, <1>13, WriterFrame
<1>14. QED
  BY <1>11, <1>12, <1>13, WhoAnswers
-----------------------------------------------------------------------------
(* Marks. *)

\* What is marked is older than the unlink that marked it, which was pulled.
LEMMA MarkedFacts ==
    ASSUME TypeOK, CommandOrder, NEW s \in Seqnums, IsMarked(s)
    PROVE  s < Pulled
<1>1. PICK u \in DOMAIN sent : IsUnlink(u) /\ sent[u].victim = s /\ u <= Pulled
  BY PulledFacts DEF IsMarked
<1>2. QED
  BY <1>1, PulledFacts, ConstantFacts DEF CommandOrder

\* How far the executor has come, and what it does with the command in hand.
LEMMA PulledSteps ==
    ASSUME TypeOK, CommandOrder, [Next]_vars
    PROVE  \/ ExecutePull /\ Pulled' = Pulled + 1 /\ sent' = sent
           \/ /\ Pulled' = Pulled
              /\ \/ exec' = exec
                 \/ /\ sent' = sent /\ Busy
                    /\ UnlinkMark \/ UnlinkReply \/ (exec'.pc = "push" /\ IsIn(exec.cmd))
                         \/ ~IsUnlink(exec.cmd)
<1>1. CASE ExecutePull
  <2>1. commands_queue # << >> /\ commands_queue' = Tail(commands_queue) /\ UNCHANGED <<nread, sent>>
    BY <1>1 DEF ExecutePull
  <2>2. Len(commands_queue') = Len(commands_queue) - 1 /\ Len(commands_queue) \in Nat /\ nread \in Nat
    BY <2>1, TailFacts DEF TypeOK
  <2>3. QED
    BY <1>1, <2>1, <2>2 DEF Pulled
<1>2. CASE CommandProduce
  <2>1. /\ nread' = nread + 1 /\ commands_queue' = Append(commands_queue, nread + 1) /\ exec' = exec
        /\ nread \in Nat
    BY <1>2 DEF CommandProduce, TypeOK
  <2>2. nread + 1 \in Seqnums
    BY <1>2, MaxCommandsAssumption DEF CommandProduce, Seqnums, TypeOK
  <2>3. Len(commands_queue') = Len(commands_queue) + 1 /\ Len(commands_queue) \in Nat
    BY <2>1, <2>2, AppendFacts DEF TypeOK
  <2>4. QED
    BY <2>1, <2>3 DEF Pulled
<1>3. CASE ExecuteControl \/ ReadDataFromDevice \/ PushInCommand \/ SendDataToDevice \/ UnlinkMark \/ UnlinkReply
  <2>1. UNCHANGED <<nread, commands_queue, sent>> /\ Busy
    BY <1>3 DEF ExecuteControl, ReadDataFromDevice, PushInCommand, SendDataToDevice, UnlinkMark,
       UnlinkReply, Busy
  <2>2. UnlinkMark \/ UnlinkReply \/ (exec'.pc = "push" /\ IsIn(exec.cmd)) \/ ~IsUnlink(exec.cmd)
    BY <1>3 DEF ExecuteControl, ReadDataFromDevice, PushInCommand, SendDataToDevice, CommandOrder,
       IsControl, IsIn, IsOut, IsSubmit, IsUnlink
  <2>3. QED
    BY <2>1, <2>2 DEF Pulled
<1>4. CASE Host \/ Writer \/ (\E a \in EpAddresses : Complete(a)) \/ (\E ep \in Eps : Transfer(ep))
           \/ UNCHANGED vars
  <2>1. UNCHANGED <<nread, commands_queue, exec>>
    BY <1>4 DEF Host, HostSubmit, HostUnlink, Complete, CompleteOut, CompleteIn, Transfer,
       TransferPull, SendDataToHost, Writer, ReplyPull, ReplyDrop, ReplyKeep, ReplyWrite, vars
  <2>2. QED
    BY <2>1 DEF Pulled
<1>5. QED
  BY <1>1, <1>2, <1>3, <1>4 DEF Next, Executor

\* Only the executor marks, and what it marks is the victim of the unlink in hand.
LEMMA MarkedStep ==
    ASSUME TypeOK, CommandOrder, [Next]_vars, NEW s \in Seqnums, IsMarked(s)'
    PROVE  IsMarked(s) \/ (UnlinkMark /\ s = sent[exec.cmd].victim)
<1>1. PICK u \in DOMAIN sent' : /\ sent'[u].req = "unlink" /\ sent'[u].victim = s
                                /\ u < Pulled' \/ (u = Pulled' /\ exec'.pc \in {"pull", "reply"})
  BY DEF IsMarked, IsUnlink
<1>2. /\ DOMAIN sent' = 1 .. Len(sent') /\ Len(sent') \in Nat /\ Pulled \in Nat
      /\ Pulled <= Len(sent) /\ Len(sent) \in Nat /\ DOMAIN sent = 1 .. Len(sent)
  BY TypeStep, PulledFacts DEF TypeOK
<1>3. Pulled' <= Len(sent)
  <2>1. CommandOrder' /\ TypeOK'
    BY OrderStep, TypeStep
  <2>2. Pulled' <= Len(sent')
    BY <2>1 DEF TypeOK, CommandOrder, Pulled
  <2>3. QED
    BY <2>2, <1>2, PulledSteps
<1>4. /\ u \in DOMAIN sent /\ sent'[u] = sent[u] /\ u \in Nat
  BY <1>1, <1>2, <1>3, SentStep, PulledSteps
<1>5. IsUnlink(u) /\ sent[u].victim = s
  BY <1>1, <1>4 DEF IsUnlink
<1>6. CASE u < Pulled
  BY <1>4, <1>5, <1>6 DEF IsMarked
<1>7. CASE u >= Pulled
  <2>1. CASE ExecutePull /\ Pulled' = Pulled + 1
    <3>1. exec.pc = "pull" /\ exec'.pc = "run"
      BY <2>1 DEF ExecutePull
    <3>2. u = Pulled
      BY <1>1, <1>2, <1>4, <1>7, <2>1, <3>1
    <3>3. QED
      BY <3>1, <3>2, <1>4, <1>5 DEF IsMarked
  <2>2. CASE Pulled' = Pulled /\ exec' = exec
    BY <2>2, <1>1, <1>2, <1>4, <1>5 DEF IsMarked
  <2>3. CASE /\ Pulled' = Pulled /\ Busy
             /\ UnlinkMark \/ UnlinkReply \/ (exec'.pc = "push" /\ IsIn(exec.cmd))
                  \/ ~IsUnlink(exec.cmd)
    <3>1. u = Pulled /\ exec'.pc \in {"pull", "reply"} /\ u = exec.cmd
      BY <2>3, <1>1, <1>2, <1>4, <1>7, PulledFacts
    <3>2. CASE UnlinkMark
      BY <3>1, <3>2, <1>5
    <3>3. CASE UnlinkReply
      BY <3>1, <3>3, <1>4, <1>5 DEF UnlinkReply, IsMarked
    <3>4. QED
      BY <2>3, <3>1, <3>2, <3>3, <1>5
  <2>4. QED
    BY <2>1, <2>2, <2>3, PulledSteps
<1>8. QED
  BY <1>2, <1>4, <1>6, <1>7

\* Who changes unlinked_seqnums_.
LEMMA WhoMarks ==
    ASSUME [Next]_vars
    PROVE  UnlinkMark \/ ReplyDrop \/ unlinked' = unlinked
  BY DEF Next, Host, HostSubmit, HostUnlink, CommandProduce, Executor, ExecutePull,
     ExecuteControl, ReadDataFromDevice, PushInCommand, SendDataToDevice, UnlinkReply,
     Complete, CompleteOut, CompleteIn, Transfer, TransferPull, SendDataToHost,
     Writer, ReplyPull, ReplyKeep, ReplyWrite, vars

\* A mark in unlinked_seqnums_ stays until the answer it waits for is dropped.
LEMMA MarksStep ==
    ASSUME TypeOK, CommandOrder, Sorted, InTurn, AnsweredInTurn, MarksHold, [Next]_vars
    PROVE  MarksHold'
<1>1. ASSUME NEW s \in Seqnums, s \notin unlinked', IsMarked(s)'
      PROVE  /\ ~InProgress(s)' /\ ~IsQueued(s)'
             /\ ~(writer'.pc = "check" /\ writer'.rep.seq = s)
  <2> DEFINE Clear == /\ ~InProgress(s) /\ ~IsQueued(s)
                      /\ ~(writer.pc = "check" /\ writer.rep.seq = s)
  <2>1. IsMarked(s) \/ (UnlinkMark /\ s = sent[exec.cmd].victim)
    BY <1>1, MarkedStep
  <2>2. IsMarked(s)
    BY <2>1, <1>1 DEF UnlinkMark
  <2>3. Busy => s # exec.cmd
    BY <2>2, MarkedFacts, PulledFacts, ConstantFacts
  <2>4. CASE ReplyDrop /\ s = writer.rep.seq
    <3>1. /\ writer.pc = "check" /\ writer' = Waiting
          /\ UNCHANGED <<replies_queue, exec>>
      BY <2>4 DEF ReplyDrop
    <3>2. IsWriting(s) /\ IsAnswered(s)
      BY <2>4, <3>1 DEF IsWriting, IsAnswered
    <3>3. ~Before(s, s)
      BY DEF Before
    <3>4. ~InProgress(s) /\ ~IsQueued(s)
      BY <3>2, <3>3 DEF AnsweredInTurn
    <3>5. ~InProgress(s)'
      BY <2>4, <3>4, WriterFrame DEF Writer
    <3>6. QED
      BY <3>1, <3>4, <3>5 DEF IsQueued, Waiting
  <2>5. CASE ~(ReplyDrop /\ s = writer.rep.seq)
    <3>1. s \notin unlinked
      BY <1>1, <2>5, WhoMarks DEF UnlinkMark, ReplyDrop
    <3>2. Clear
      BY <2>2, <3>1 DEF MarksHold
    <3>3. ~InProgress(s)'
      BY <2>3, <3>2, ProgressStep
    <3>4. CASE UNCHANGED <<replies_queue, writer, wire>>
      BY <3>2, <3>3, <3>4 DEF IsQueued
    <3>5. CASE Answering
      <4>1. PICK r \in Reply : /\ replies_queue' = Append(replies_queue, r) /\ writer' = writer
                               /\ InProgress(r.seq) \/ (Busy /\ r.seq = exec.cmd)
        BY <3>5, Answers
      <4>2. r.seq # s
        BY <2>3, <3>2, <4>1
      <4>3. ~IsQueued(s)'
        BY <3>2, <4>1, <4>2, AppendElement DEF IsQueued, TypeOK
      <4>4. QED
        BY <3>2, <3>3, <4>1, <4>3
    <3>6. CASE ReplyPull
      <4>1. /\ replies_queue # << >> /\ writer' = [pc |-> "check", rep |-> Head(replies_queue)]
            /\ replies_queue' = Tail(replies_queue) /\ replies_queue \in Seq(Reply)
        BY <3>6 DEF ReplyPull, TypeOK
      <4>2. 1 \in DOMAIN replies_queue /\ Head(replies_queue) = replies_queue[1]
        BY <4>1, TailFacts
      <4>3. \A k \in DOMAIN replies_queue' : \E j \in DOMAIN replies_queue :
                replies_queue'[k] = replies_queue[j]
        BY <4>1, TailPlaces
      <4>4. QED
        BY <3>2, <3>3, <4>1, <4>2, <4>3 DEF IsQueued
    <3>7. CASE ReplyDrop \/ ReplyKeep \/ ReplyWrite
      <4>1. replies_queue' = replies_queue /\ writer'.pc # "check"
        BY <3>7 DEF ReplyDrop, ReplyKeep, ReplyWrite, Waiting
      <4>2. QED
        BY <3>2, <3>3, <4>1 DEF IsQueued
    <3>8. QED
      BY <3>4, <3>5, <3>6, <3>7, WhoAnswers DEF Writer
  <2>6. QED
    BY <2>4, <2>5
<1>2. /\ \A i \in DOMAIN wire : /\ Done(wire[i].seq) /\ sent'[wire[i].seq] = sent[wire[i].seq]
                                /\ wire[i].seq \in 1 .. Len(sent)
      /\ writer.pc # "pull" => /\ Done(writer.rep.seq) /\ writer.rep.seq \in 1 .. Len(sent)
                               /\ sent'[writer.rep.seq] = sent[writer.rep.seq]
  BY SentStep, DoneFacts DEF Sorted, SortedAnswers
<1>3. ASSUME writer'.pc = "write", NEW i \in DOMAIN wire', sent'[wire'[i].seq].req = "unlink"
      PROVE  sent'[wire'[i].seq].victim # writer'.rep.seq
  <2>1. CASE ReplyKeep
    <3>1. /\ writer.pc = "check" /\ writer.rep.seq \notin unlinked /\ writer'.rep = writer.rep
          /\ wire' = wire
      BY <2>1 DEF ReplyKeep
    <3>2. SUFFICES ASSUME sent[wire[i].seq].victim = writer.rep.seq PROVE FALSE
      BY <3>1, <1>2, <1>3
    <3>3. writer.rep.seq \in Seqnums
      BY <3>1, RecordFacts DEF TypeOK
    <3>4. Done(wire[i].seq) /\ IsUnlink(wire[i].seq) /\ wire[i].seq \in DOMAIN sent
      BY <3>1, <1>2, <1>3, PulledFacts DEF IsUnlink
    <3>5. wire[i].seq < Pulled \/ (wire[i].seq = Pulled /\ exec.pc = "pull")
      BY <3>4, PulledFacts DEF Done, Busy
    <3>6. IsMarked(writer.rep.seq)
      BY <3>2, <3>4, <3>5 DEF IsMarked
    <3>7. QED
      BY <3>1, <3>3, <3>6 DEF MarksHold
  <2>2. CASE UNCHANGED <<writer, wire>>
    BY <2>2, <1>2, <1>3 DEF MarksHold, IsUnlink
  <2>3. writer'.pc # "pull" /\ writer'.pc # "check"
    BY <1>3
  <2>4. CASE Answering
    BY <2>2, <2>4, Answers
  <2>5. CASE Writer
    BY <2>1, <2>3, <2>5 DEF Writer, ReplyPull, ReplyDrop, ReplyWrite, Waiting
  <2>6. QED
    BY <2>2, <2>4, <2>5, WhoAnswers
<1>4. ASSUME NEW i \in DOMAIN wire', NEW j \in DOMAIN wire',
             sent'[wire'[i].seq].req = "unlink", wire'[j].seq = sent'[wire'[i].seq].victim
      PROVE  j < i
  <2>1. CASE wire' = wire
    BY <2>1, <1>2, <1>4 DEF MarksHold, NoReplyAfterUnlink, IsUnlink
  <2>2. CASE ReplyWrite
    <3>1. /\ writer.pc = "write" /\ wire' = Append(wire, writer.rep) /\ writer.rep \in Reply
      BY <2>2, RecordFacts DEF ReplyWrite, TypeOK
    <3>2. /\ Len(wire) \in Nat /\ DOMAIN wire = 1 .. Len(wire)
          /\ DOMAIN wire' = 1 .. Len(wire) + 1
          /\ \A k \in 1 .. Len(wire) : wire'[k] = wire[k]
          /\ wire'[Len(wire) + 1] = writer.rep
      BY <3>1, AppendFacts DEF TypeOK
    <3>3. CASE i \in 1 .. Len(wire) /\ j \in 1 .. Len(wire)
      BY <3>2, <3>3, <1>2, <1>4 DEF MarksHold, NoReplyAfterUnlink, IsUnlink
    <3>4. CASE i \in 1 .. Len(wire) /\ j = Len(wire) + 1
      BY <3>1, <3>2, <3>4, <1>2, <1>4 DEF MarksHold, IsUnlink
    <3>5. CASE i = Len(wire) + 1 /\ j \in 1 .. Len(wire)
      BY <3>2, <3>5
    <3>6. CASE i = Len(wire) + 1 /\ j = Len(wire) + 1
      <4>1. IsUnlink(writer.rep.seq) /\ sent[writer.rep.seq].victim = writer.rep.seq
        BY <3>1, <3>2, <3>6, <1>2, <1>4 DEF IsUnlink
      <4>2. writer.rep.seq \in Nat /\ writer.rep.seq \in DOMAIN sent
        BY <3>1, <1>2, PulledFacts
      <4>3. QED
        BY <4>1, <4>2 DEF CommandOrder
    <3>7. QED
      BY <3>2, <3>3, <3>4, <3>5, <3>6
  <2>3. CASE Answering
    BY <2>1, <2>3, Answers
  <2>4. CASE Writer
    BY <2>1, <2>2, <2>4 DEF Writer, ReplyPull, ReplyDrop, ReplyKeep
  <2>5. QED
    BY <2>1, <2>3, <2>4, WhoAnswers
<1>5. QED
  <2>1. \A s \in Seqnums \ unlinked' :
            IsMarked(s)' => /\ ~InProgress(s)' /\ ~IsQueued(s)'
                            /\ ~(writer'.pc = "check" /\ writer'.rep.seq = s)
    BY <1>1
  <2>2. writer'.pc = "write" =>
            \A i \in DOMAIN wire' :
                IsUnlink(wire[i].seq)' => sent'[wire'[i].seq].victim # writer'.rep.seq
    BY <1>3 DEF IsUnlink
  <2>3. NoReplyAfterUnlink'
    BY <1>4 DEF NoReplyAfterUnlink, IsUnlink
  <2>4. QED
    BY <2>1, <2>2, <2>3 DEF MarksHold
-----------------------------------------------------------------------------
(* The theorems. *)

\* The unlink invariant is inductive: commands are pulled in order, are in one
\* place at a time, keep their turn on a pipe, and a mark is used up by the answer
\* it waits for.
THEOREM UnlinkInvTheorem == Spec => [](TypeOK /\ UnlinkInv)
<1>1. Init => TypeOK /\ UnlinkInv
  <2> SUFFICES ASSUME Init PROVE TypeOK /\ UnlinkInv
    OBVIOUS
  <2>1. TypeOK
    BY ConstantFacts, RecordFacts, MaxCommandsAssumption DEF Init, TypeOK, NoCommand
  <2>2. UnlinksSubmits /\ CommandOrder
    BY DEF Init, UnlinksSubmits, CommandOrder, Busy, Idle
  <2>3. Sorted
    BY DEF Init, Sorted, SortedCommands, SortedHolding, SortedTransfers, SortedAnswers, Waiting
  <2>4. InTurn
    BY DEF Init, InTurn, Idle
  <2>5. \A s \in Seqnums : ~IsQueued(s) /\ ~IsWriting(s) /\ ~IsWritten(s) /\ ~InProgress(s)
    BY ConstantFacts DEF Init, IsQueued, IsWriting, IsWritten, InProgress, Waiting, NoCommand
  <2>6. AnsweredInTurn
    BY <2>5 DEF Init, AnsweredInTurn, IsAnswered
  <2>7. MarksHold
    BY <2>5 DEF Init, MarksHold, NoReplyAfterUnlink, Waiting
  <2>8. QED
    BY <2>1, <2>2, <2>3, <2>4, <2>6, <2>7 DEF UnlinkInv
<1>2. TypeOK /\ UnlinkInv /\ [Next]_vars => (TypeOK /\ UnlinkInv)'
  BY TypeStep, UnlinksStep, OrderStep, SortedStep, InTurnStep, AnsweredInTurnStep, MarksStep
     DEF UnlinkInv
<1>3. QED
  BY <1>1, <1>2, PTL DEF Spec

\* After the RET_UNLINK of a URB no RET_SUBMIT of it is written.
THEOREM NoReplyAfterUnlinkTheorem == Spec => []NoReplyAfterUnlink
<1>1. UnlinkInv => NoReplyAfterUnlink
  BY DEF UnlinkInv, MarksHold
<1>2. QED
  BY <1>1, UnlinkInvTheorem, PTL

\* No command is answered twice.
THEOREM AtMostOneReplyTheorem == Spec => []AtMostOneReply
<1>1. TypeOK /\ UnlinkInv => AtMostOneReply
  <2> SUFFICES ASSUME TypeOK, UnlinkInv, NEW i \in DOMAIN wire, NEW j \in DOMAIN wire,
                      wire[i].seq = wire[j].seq
               PROVE  i = j
    BY DEF AtMostOneReply
  <2>1. i \in Nat /\ j \in Nat
    BY DEF TypeOK
  <2>2. ~(i < j) /\ ~(j < i)
    BY DEF UnlinkInv, AnsweredInTurn, Before
  <2>3. QED
    BY <2>1, <2>2
<1>2. QED
  BY <1>1, UnlinkInvTheorem, PTL

\* The commands of one pipe are answered in the order they were sent.
THEOREM AnsweredInOrderTheorem == Spec => []AnsweredInOrder
<1>1. UnlinkInv => AnsweredInOrder
  BY DEF UnlinkInv, AnsweredInTurn, Before, AnsweredInOrder
<1>2. QED
  BY <1>1, UnlinkInvTheorem, PTL

\* A URB the host sees: what of sent and wire decides its state.
LEMMA SameUrbs ==
    ASSUME NEW s \in Seqnums,
           Submitted(s)' <=> Submitted(s), WrittenSubmit(s)' <=> WrittenSubmit(s),
           WrittenUnlinkOf(s)' <=> WrittenUnlinkOf(s)
    PROVE  urbs'[s] = urbs[s]
  BY DEF urbs

\* A step of the pipeline is a step of the contract, or changes no URB.
LEMMA ContractStep ==
    ASSUME TypeOK, UnlinkInv, [Next]_vars
    PROVE  Contract!Next \/ urbs' = urbs
<1>1. /\ urbs = [s \in Seqnums |-> urbs[s]] /\ urbs' = [s \in Seqnums |-> urbs'[s]]
  BY DEF urbs
<1>2. \A i \in DOMAIN wire : /\ Done(wire[i].seq) /\ wire[i].seq \in 1 .. Len(sent)
                             /\ sent'[wire[i].seq] = sent[wire[i].seq]
  BY SentStep, DoneFacts DEF UnlinkInv, Sorted, SortedAnswers
<1>3. /\ DOMAIN sent = 1 .. Len(sent) /\ Len(sent) \in Nat
      /\ \A s \in 1 .. Len(sent) : sent[s] \in Command /\ s \in Seqnums
  BY MaxCommandsAssumption DEF TypeOK, Seqnums
<1>4. CASE sent' = sent /\ wire' = wire
  <2>1. ASSUME NEW s \in Seqnums PROVE urbs'[s] = urbs[s]
    <3>1. /\ Submitted(s)' <=> Submitted(s)
          /\ WrittenSubmit(s)' <=> WrittenSubmit(s)
          /\ WrittenUnlinkOf(s)' <=> WrittenUnlinkOf(s)
      BY <1>4 DEF Submitted, WrittenSubmit, WrittenUnlinkOf, IsSubmit, IsUnlink
    <3>2. QED
      BY <3>1, SameUrbs
  <2>2. QED
    BY <1>1, <2>1
<1>5. ASSUME NEW a \in Addresses, HostSubmit(a) PROVE Contract!Next
  <2>1. PICK n \in Seqnums : n = Len(sent) + 1
    BY <1>5, <1>3, MaxCommandsAssumption DEF HostSubmit, Seqnums
  <2>2. /\ wire' = wire /\ DOMAIN sent' = 1 .. Len(sent) + 1
        /\ sent'[n] = [req |-> "submit", at |-> a, victim |-> 0]
        /\ \A s \in 1 .. Len(sent) : sent'[s] = sent[s]
    BY <1>5, <2>1, <1>3, RecordFacts, AppendFacts DEF HostSubmit, TypeOK
  <2>3. ASSUME NEW s \in Seqnums, s # n PROVE urbs'[s] = urbs[s]
    <3>1. s \in 1 .. Len(sent) + 1 <=> s \in 1 .. Len(sent)
      BY <2>1, <2>3, <1>3, ConstantFacts
    <3>2. Submitted(s)' <=> Submitted(s)
      BY <2>2, <3>1, <1>3 DEF Submitted, IsSubmit
    <3>3. WrittenSubmit(s)' <=> WrittenSubmit(s)
      BY <2>2, <3>2 DEF WrittenSubmit
    <3>4. WrittenUnlinkOf(s)' <=> WrittenUnlinkOf(s)
      BY <2>2, <1>2 DEF WrittenUnlinkOf, IsUnlink
    <3>5. QED
      BY <3>2, <3>3, <3>4, SameUrbs
  <2>4. urbs[n] = "free"
    BY <2>1, <1>3 DEF urbs, Submitted
  <2>5. Submitted(n)' /\ ~WrittenSubmit(n)'
    BY <2>1, <2>2, <1>2, <1>3 DEF Submitted, WrittenSubmit, IsSubmit
  <2>6. ~WrittenUnlinkOf(n)'
    <3>1. ASSUME NEW i \in DOMAIN wire, IsUnlink(wire[i].seq) PROVE sent[wire[i].seq].victim # n
      BY <2>1, <3>1, <1>2, <1>3 DEF UnlinkInv, CommandOrder
    <3>2. QED
      BY <2>2, <3>1, <1>2 DEF WrittenUnlinkOf, IsUnlink
  <2>7. urbs'[n] = "submitted"
    BY <2>2, <2>5, <2>6 DEF urbs
  <2>8. urbs' = [urbs EXCEPT ![n] = "submitted"]
    BY <1>1, <2>2, <2>3, <2>7
  <2>9. QED
    BY <2>2, <2>4, <2>8 DEF Contract!Next, Contract!Submit
<1>6. ASSUME NEW v \in DOMAIN sent, HostUnlink(v) PROVE urbs' = urbs
  <2> DEFINE n == Len(sent) + 1
  <2>1. [req |-> "unlink", at |-> sent[v].at, victim |-> v] \in Command
    BY <1>3, RecordFacts
  <2>2. /\ wire' = wire /\ DOMAIN sent' = 1 .. Len(sent) + 1
        /\ sent'[n].req = "unlink"
        /\ \A s \in 1 .. Len(sent) : sent'[s] = sent[s]
    BY <1>6, <1>3, <2>1, AppendFacts DEF HostUnlink, TypeOK
  <2>3. ASSUME NEW s \in Seqnums PROVE urbs'[s] = urbs[s]
    <3>1. s \in 1 .. Len(sent) + 1 <=> s \in 1 .. Len(sent) \/ s = n
      BY <1>3, ConstantFacts
    <3>2. Submitted(s)' <=> Submitted(s)
      BY <2>2, <3>1, <1>3 DEF Submitted, IsSubmit
    <3>3. WrittenSubmit(s)' <=> WrittenSubmit(s)
      BY <2>2, <3>2 DEF WrittenSubmit
    <3>4. WrittenUnlinkOf(s)' <=> WrittenUnlinkOf(s)
      BY <2>2, <1>2 DEF WrittenUnlinkOf, IsUnlink
    <3>5. QED
      BY <3>2, <3>3, <3>4, SameUrbs
  <2>4. QED
    BY <1>1, <2>3
<1>7. CASE ReplyWrite
  <2> DEFINE w == writer.rep.seq
  <2>1. /\ writer.pc = "write" /\ wire' = Append(wire, writer.rep) /\ sent' = sent
        /\ writer.rep \in Reply /\ w \in Seqnums
    BY <1>7, RecordFacts DEF ReplyWrite, TypeOK
  <2>2. w \in DOMAIN sent /\ IsWriting(w)
    BY <2>1, <1>3, DoneFacts DEF UnlinkInv, Sorted, SortedAnswers, IsWriting
  <2>3. IsSubmit(w) \/ IsUnlink(w)
    BY <2>2, <1>3, RecordFacts DEF IsSubmit, IsUnlink
  <2>4. /\ Len(wire) \in Nat /\ DOMAIN wire = 1 .. Len(wire)
        /\ DOMAIN wire' = 1 .. Len(wire) + 1
        /\ \A k \in 1 .. Len(wire) : wire'[k] = wire[k]
        /\ wire'[Len(wire) + 1] = writer.rep
    BY <2>1, AppendFacts DEF TypeOK
  <2>5. \A i \in 1 .. Len(wire) + 1 : i \in 1 .. Len(wire) \/ i = Len(wire) + 1
    BY <2>4
  <2>6. \A s \in Seqnums :
            /\ Submitted(s)' <=> Submitted(s)
            /\ WrittenSubmit(s)' <=> WrittenSubmit(s) \/ (IsSubmit(w) /\ s = w)
            /\ WrittenUnlinkOf(s)' <=> WrittenUnlinkOf(s) \/ (IsUnlink(w) /\ s = sent[w].victim)
    <3>1. ASSUME NEW s \in Seqnums PROVE Submitted(s)' <=> Submitted(s)
      BY <2>1 DEF Submitted, IsSubmit
    <3>2. ASSUME NEW s \in Seqnums
          PROVE  WrittenSubmit(s)' <=> WrittenSubmit(s) \/ (IsSubmit(w) /\ s = w)
      BY <2>1, <2>2, <2>4, <2>5 DEF WrittenSubmit, Submitted, IsSubmit
    <3>3. ASSUME NEW s \in Seqnums
          PROVE  WrittenUnlinkOf(s)' <=> WrittenUnlinkOf(s) \/ (IsUnlink(w) /\ s = sent[w].victim)
      BY <2>1, <2>4, <2>5 DEF WrittenUnlinkOf, IsUnlink
    <3>4. QED
      BY <3>1, <3>2, <3>3
  <2>7. CASE IsSubmit(w)
    <3>1. ~IsUnlink(w)
      BY <2>7 DEF IsSubmit, IsUnlink
    <3>2. \A s \in Seqnums : s # w => urbs'[s] = urbs[s]
      BY <2>6, <3>1, SameUrbs
    <3>3. ~WrittenSubmit(w)
      <4>1. ~Before(w, w)
        BY DEF Before
      <4>2. ~IsWritten(w)
        BY <2>1, <2>2, <4>1 DEF UnlinkInv, AnsweredInTurn
      <4>3. QED
        BY <4>2 DEF WrittenSubmit, IsWritten
    <3>4. ~WrittenUnlinkOf(w)
      BY <2>1 DEF UnlinkInv, MarksHold, WrittenUnlinkOf
    <3>5. Submitted(w)
      BY <2>2, <2>7 DEF Submitted
    <3>6. urbs[w] = "submitted"
      BY <2>1, <3>3, <3>4, <3>5 DEF urbs
    <3>7. urbs'[w] = "completed"
      BY <2>1, <2>6, <2>7, <3>5 DEF urbs
    <3> HIDE DEF w
    <3>8. urbs' = [urbs EXCEPT ![w] = "completed"]
      BY <1>1, <2>1, <3>2, <3>7
    <3>9. QED
      BY <2>1, <3>6, <3>8 DEF Contract!Next, Contract!Complete
  <2>8. CASE IsUnlink(w)
    <3>1. ~IsSubmit(w)
      BY <2>8 DEF IsSubmit, IsUnlink
    <3>2. PICK v \in Seqnums : v = sent[w].victim /\ Submitted(v)
      BY <2>2, <2>8, <1>3 DEF UnlinkInv, UnlinksSubmits, Submitted
    <3>3. \A s \in Seqnums : s # v => urbs'[s] = urbs[s]
      BY <2>6, <3>1, <3>2, SameUrbs
    <3>4. WrittenSubmit(v)' <=> WrittenSubmit(v)
      BY <2>6, <3>1, <3>2
    <3>5. Submitted(v)' /\ WrittenUnlinkOf(v)'
      BY <2>6, <2>8, <3>2
    <3>6. CASE WrittenSubmit(v) \/ WrittenUnlinkOf(v)
      <4>1. urbs'[v] = urbs[v]
        BY <3>2, <3>4, <3>5, <3>6 DEF urbs
      <4>2. QED
        BY <1>1, <3>3, <4>1
    <3>7. CASE ~WrittenSubmit(v) /\ ~WrittenUnlinkOf(v)
      <4>1. urbs[v] = "submitted"
        BY <3>2, <3>7 DEF urbs
      <4>2. urbs'[v] = "cancelled"
        BY <3>2, <3>4, <3>5, <3>7 DEF urbs
      <4>3. urbs' = [urbs EXCEPT ![v] = "cancelled"]
        BY <1>1, <3>2, <3>3, <4>2
      <4>4. QED
        BY <3>2, <4>1, <4>3 DEF Contract!Next, Contract!Cancel
    <3>8. QED
      BY <3>6, <3>7
  <2>9. QED
    BY <2>3, <2>7, <2>8
<1>8. (sent' = sent /\ wire' = wire) \/ Host \/ ReplyWrite
  BY DEF Next, CommandProduce, Executor, ExecutePull, ExecuteControl, ReadDataFromDevice,
     PushInCommand, SendDataToDevice, UnlinkMark, UnlinkReply, Complete, CompleteOut, CompleteIn,
     Transfer, TransferPull, SendDataToHost, Writer, ReplyPull, ReplyDrop, ReplyKeep, vars
<1>9. QED
  BY <1>4, <1>5, <1>6, <1>7, <1>8 DEF Host

\* The pipeline keeps the safety half of its contract with the host: a URB is
\* finished once, completed or cancelled, and stays so.
THEOREM ContractTheorem == Spec => Contract!Safety
<1>1. Init => Contract!Init
  BY DEF Init, Contract!Init, urbs, Submitted
<1>2. TypeOK /\ UnlinkInv /\ [Next]_vars => [Contract!Next]_urbs
  BY ContractStep
<1>3. QED
  BY <1>1, <1>2, UnlinkInvTheorem, PTL DEF Spec, Contract!Safety
=============================================================================
