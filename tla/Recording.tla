------------------------------ MODULE Recording ------------------------------
(***************************************************************************)
(* transfer_recorder of the recording plugin and the files it leaves       *)
(* behind: IN transfers are queued by the completing thread, and a writer  *)
(* thread appends their bytes to a payload file and then a line with the   *)
(* offset of the bytes to an index file.  Both files outlive the process   *)
(* and are appended to by every later session; the playback plugin loads   *)
(* them whenever it is plugged in, also after a crash, and also while a    *)
(* recording goes on.                                                      *)
(*                                                                         *)
(* A byte is named by its record and place.  The bytes of a record are the *)
(* whole buffer: size() is the length asked for, not the one received, and *)
(* transfers that failed, were cancelled or came up short are recorded     *)
(* like the others.  Bytes the device did not send are in the files too,   *)
(* and nothing there tells them from the ones it did send.                 *)
(* One recorder runs at a time.  control_setup_recorder is the same loop   *)
(* without the iso descriptors.                                            *)
(***************************************************************************)
EXTENDS Integers, Sequences, FiniteSets

CONSTANTS
    Shapes,         \* what transfers look like: [ep, len, sent, iso], sent
                    \* the places of the buffer that the device filled
    MaxRecords,     \* transfers recorded
    MaxSessions,    \* times the recording plugin is plugged in
    WritesMayFail   \* a file cannot be opened, or the disk is full

ASSUME ShapesAssumption ==
    /\ Shapes \subseteq [ep : {"0x81", "0x82"}, len : Nat \ {0}, sent : SUBSET Nat, iso : Nat]
    /\ \A s \in Shapes : s.sent \subseteq 1..s.len
ASSUME RecordingBoundsAssumption ==
    MaxRecords \in Nat /\ MaxSessions \in Nat /\ WritesMayFail \in BOOLEAN

VARIABLES
    taken,          \* taken[r]: the shape of record r, in order of completion
    session,        \* "off", "running", or "closing" in ~transfer_recorder
    sessions,       \* number of sessions so far
    queue,          \* write_queue_
    notifying,      \* a notify_one is still to come
    writer,         \* the writer thread
    bad,            \* what failed in this session: opening, or a stream
    payload,        \* the payload file
    index,          \* the index file
    failed,         \* records of which a write failed
    lost            \* records that did not get as far as the index file

recorderVars == <<taken, session, sessions, queue, notifying, writer, bad, payload,
                  index, failed, lost>>

Ids == 1..MaxRecords

\* A byte of the device ("data"), or what the buffer held there ("rest").
Buffer(r, shape) ==
    [i \in 1..shape.len |-> <<r, IF i \in shape.sent THEN "data" ELSE "rest", i>>]

Data(r) == Buffer(r, taken[r])
Iso(r) == [i \in 1..taken[r].iso |-> <<r, "iso", i>>]

\* A line of the index holds one entry; a write cut short leaves a torn
\* entry, or a whole one without the end of the line.
Parts == {"whole", "unterminated", "torn"}
Entries == [id : Ids, offset : Int, iso : Int, part : Parts]

Queued == {queue[i] : i \in DOMAIN queue}

NoRecord == 0
WriterAt(pc) == [pc |-> pc, id |-> NoRecord, offset |-> 0, iso |-> 0]

RecordingTypeOK ==
    /\ taken \in Seq(Shapes) /\ Len(taken) <= MaxRecords
    /\ session \in {"off", "running", "closing"}
    /\ sessions \in 0..MaxSessions
    /\ queue \in Seq(Ids)
    /\ notifying \in BOOLEAN
    /\ writer \in [pc : {"open", "check", "asleep", "payload", "iso", "line", "gone"},
                   id : Ids \cup {NoRecord}, offset : Int, iso : Int]
    /\ bad \subseteq {"open", "payload", "output"}
    /\ payload \in Seq(Ids \X {"data", "rest", "iso"} \X Nat)
    /\ index \in Seq(Entries)
    /\ failed \subseteq Ids /\ lost \subseteq Ids

-----------------------------------------------------------------------------
(* The plugin, called on the completing thread and destroyed with its device. *)

Plug ==
    /\ session = "off"
    /\ sessions < MaxSessions
    /\ session' = "running"
    /\ sessions' = sessions + 1
    /\ writer' = WriterAt("open")
    /\ UNCHANGED <<taken, queue, notifying, bad, payload, index, failed, lost>>

\* The recorder is no more, and its members with it.
Vanish ==
    /\ session' = "off"
    /\ queue' = <<>>
    /\ notifying' = FALSE
    /\ writer' = WriterAt("gone")
    /\ bad' = {}

\* on_transfer_complete of an IN transfer, record_transfer under queue_mutex_.
RecordTransfer(shape) ==
    /\ session = "running"
    /\ ~notifying
    /\ Len(taken) < MaxRecords
    /\ taken' = Append(taken, shape)
    /\ queue' = Append(queue, Len(taken) + 1)
    /\ notifying' = TRUE
    /\ UNCHANGED <<session, sessions, writer, bad, payload, index, failed, lost>>

\* Planted bug: the destructor only sets the flag.
ShutdownSilently ==
    /\ session = "running"
    /\ ~notifying
    /\ session' = "closing"
    /\ UNCHANGED <<taken, sessions, queue, notifying, writer, bad, payload, index,
                   failed, lost>>

Shutdown ==
    /\ session = "running"
    /\ ~notifying
    /\ session' = "closing"
    /\ notifying' = TRUE
    /\ UNCHANGED <<taken, sessions, queue, writer, bad, payload, index, failed, lost>>

\* notify_one, after the mutex was released.
Notify ==
    /\ session # "off"
    /\ notifying
    /\ notifying' = FALSE
    /\ writer' = IF writer.pc = "asleep" THEN WriterAt("check") ELSE writer
    /\ UNCHANGED <<taken, session, sessions, queue, bad, payload, index, failed, lost>>

\* The destructor returns.  Without its files the writer has left at once, and
\* what was queued goes with the recorder.
JoinWriter ==
    /\ session = "closing"
    /\ ~notifying
    /\ writer.pc = "gone"
    /\ Vanish
    /\ lost' = lost \cup (IF "open" \in bad THEN Queued ELSE {})
    /\ UNCHANGED <<taken, sessions, payload, index, failed>>

-----------------------------------------------------------------------------
(* writer_loop. *)

Open(ok) ==
    /\ session # "off"
    /\ writer.pc = "open"
    /\ ok \/ WritesMayFail
    /\ writer' = WriterAt(IF ok THEN "check" ELSE "gone")
    /\ bad' = IF ok THEN {} ELSE {"open"}
    /\ UNCHANGED <<taken, session, sessions, queue, notifying, payload, index, failed,
                   lost>>

\* Planted bug: the writer leaves as soon as it is asked to.
TakeOrLeaveAtOnce ==
    /\ session # "off"
    /\ writer.pc = "check"
    /\ IF session = "closing" THEN writer' = WriterAt("gone") /\ UNCHANGED queue
       ELSE IF queue # <<>>
       THEN queue' = Tail(queue) /\ writer' = [WriterAt("payload") EXCEPT !.id = Head(queue)]
       ELSE writer' = WriterAt("asleep") /\ UNCHANGED queue
    /\ UNCHANGED <<taken, session, sessions, notifying, bad, payload, index, failed, lost>>

\* Planted bug: the queue is read from its back.
TakeLast ==
    /\ session # "off"
    /\ writer.pc = "check"
    /\ IF queue # <<>>
       THEN /\ queue' = SubSeq(queue, 1, Len(queue) - 1)
            /\ writer' = [WriterAt("payload") EXCEPT !.id = queue[Len(queue)]]
       ELSE /\ writer' = WriterAt(IF session = "closing" THEN "gone" ELSE "asleep")
            /\ UNCHANGED queue
    /\ UNCHANGED <<taken, session, sessions, notifying, bad, payload, index, failed, lost>>

\* One critical section: what is queued comes before the request to stop.
TakeRecord ==
    /\ session # "off"
    /\ writer.pc = "check"
    /\ IF queue # <<>>
       THEN /\ queue' = Tail(queue)
            /\ writer' = [WriterAt("payload") EXCEPT !.id = Head(queue)]
       ELSE /\ writer' = WriterAt(IF session = "closing" THEN "gone" ELSE "asleep")
            /\ UNCHANGED queue
    /\ UNCHANGED <<taken, session, sessions, notifying, bad, payload, index, failed, lost>>

\* A condition variable may wake without a reason.
WakeUp ==
    /\ session # "off"
    /\ writer.pc = "asleep"
    /\ writer' = WriterAt("check")
    /\ UNCHANGED <<taken, session, sessions, queue, notifying, bad, payload, index,
                   failed, lost>>

\* Append bytes to the payload file, or fail with some of them written.
Put(bytes) ==
    \/ /\ payload' = payload \o bytes
       /\ UNCHANGED <<bad, failed>>
    \/ /\ WritesMayFail /\ bytes # <<>>
       /\ \E k \in 0..(Len(bytes) - 1) : payload' = payload \o SubSeq(bytes, 1, k)
       /\ bad' = bad \cup {"payload"}
       /\ failed' = failed \cup {writer.id}

\* tellp gives -1 on a failed stream: the record is dropped.
DropRecord ==
    /\ session # "off"
    /\ writer.pc = "payload"
    /\ "payload" \in bad
    /\ lost' = lost \cup {writer.id}
    /\ writer' = WriterAt("check")
    /\ UNCHANGED <<taken, session, sessions, queue, notifying, bad, payload, index, failed>>

\* Planted bug: the position is read after the write.
WriteDataPastEnd ==
    /\ session # "off"
    /\ writer.pc = "payload"
    /\ "payload" \notin bad
    /\ Put(Data(writer.id))
    /\ writer' = [writer EXCEPT !.pc = "iso", !.offset = Len(payload')]
    /\ UNCHANGED <<taken, session, sessions, queue, notifying, index, lost>>

WriteData ==
    /\ session # "off"
    /\ writer.pc = "payload"
    /\ "payload" \notin bad
    /\ Put(Data(writer.id))
    /\ writer' = [writer EXCEPT !.pc = "iso", !.offset = Len(payload)]
    /\ UNCHANGED <<taken, session, sessions, queue, notifying, index, lost>>

\* Without descriptors only the position is read.  On a failed stream it is
\* -1, stored as 2^64 - 1, and nothing more is written.
WriteIso ==
    /\ session # "off"
    /\ writer.pc = "iso"
    /\ writer' = [writer EXCEPT !.pc = "line",
                                !.iso = IF "payload" \in bad THEN -1 ELSE Len(payload)]
    /\ IF "payload" \in bad THEN UNCHANGED <<payload, bad, failed>>
                            ELSE Put(Iso(writer.id))
    /\ UNCHANGED <<taken, session, sessions, queue, notifying, index, lost>>

Entry(part) ==
    [id |-> writer.id, offset |-> writer.offset, iso |-> writer.iso, part |-> part]

\* write_jsonl_record and the flush.  Nothing is written to a failed stream.
WriteLine ==
    /\ session # "off"
    /\ writer.pc = "line"
    /\ writer' = WriterAt("check")
    /\ \/ /\ "output" \notin bad
          /\ index' = Append(index, Entry("whole"))
          /\ UNCHANGED <<bad, failed, lost>>
       \/ /\ "output" \notin bad /\ WritesMayFail
          /\ bad' = bad \cup {"output"}
          /\ failed' = failed \cup {writer.id}
          /\ \E part \in Parts \ {"whole"} : index' = Append(index, Entry(part))
          /\ UNCHANGED lost
       \/ /\ "output" \in bad
          /\ lost' = lost \cup {writer.id}
          /\ UNCHANGED <<bad, failed, index>>
    /\ UNCHANGED <<taken, session, sessions, queue, notifying, payload>>

-----------------------------------------------------------------------------
(* The process dies: what was written stays, cut anywhere in the last write. *)

InHand == IF writer.pc \in {"payload", "iso", "line"} THEN {writer.id} ELSE {}

CutPayload(bytes) == \E k \in 0..Len(bytes) : payload' = payload \o SubSeq(bytes, 1, k)

Crash ==
    /\ session # "off"
    /\ Vanish
    /\ lost' = lost \cup InHand \cup Queued
    /\ \/ /\ writer.pc = "payload" /\ "payload" \notin bad
          /\ CutPayload(Data(writer.id))
          /\ UNCHANGED index
       \/ /\ writer.pc = "iso" /\ "payload" \notin bad
          /\ CutPayload(Iso(writer.id))
          /\ UNCHANGED index
       \/ /\ writer.pc = "line" /\ "output" \notin bad
          /\ \E part \in Parts \ {"whole"} : index' = Append(index, Entry(part))
          /\ UNCHANGED payload
       \/ UNCHANGED <<payload, index>>
    /\ UNCHANGED <<taken, sessions, failed>>

-----------------------------------------------------------------------------
(* load_transfers of the playback plugin, for the files as they stand. *)

\* getline and regex_search: a torn entry is skipped, and of several whole
\* ones on one line only the first is found.
SameLine(i, j) == i < j /\ \A k \in i..(j - 1) : index[k].part # "whole"
Parsed(i) ==
    /\ index[i].part # "torn"
    /\ ~\E j \in DOMAIN index : SameLine(j, i) /\ index[j].part = "unterminated"

\* read_payload and read_iso_descriptors: all of the bytes or none.
ReadBytes(offset, n) ==
    IF offset >= 0 /\ offset + n <= Len(payload)
    THEN SubSeq(payload, offset + 1, offset + n) ELSE <<>>

\* An entry whose payload is not all there is skipped.
Loads(i) ==
    /\ Parsed(i)
    /\ Len(ReadBytes(index[i].offset, taken[index[i].id].len)) = taken[index[i].id].len

Loaded(i) ==
    LET e == index[i]
    IN  [id |-> e.id, ep |-> taken[e.id].ep,
         data |-> ReadBytes(e.offset, taken[e.id].len),
         iso |-> IF taken[e.id].iso = 0 THEN <<>> ELSE ReadBytes(e.iso, taken[e.id].iso)]

\* records_: what loads, in the order of the index file.
LoadTransfers ==
    LET positions == {i \in DOMAIN index : Loads(i)}
        Nth(k) == CHOOSE i \in positions : Cardinality({j \in positions : j <= i}) = k
    IN  [k \in 1..Cardinality(positions) |-> Loaded(Nth(k))]

-----------------------------------------------------------------------------
RecordingInit ==
    /\ taken = <<>>
    /\ session = "off" /\ sessions = 0
    /\ queue = <<>> /\ notifying = FALSE
    /\ writer = WriterAt("gone")
    /\ bad = {}
    /\ payload = <<>> /\ index = <<>>
    /\ failed = {} /\ lost = {}

WriterThread ==
    \/ \E ok \in BOOLEAN : Open(ok)
    \/ TakeRecord \/ DropRecord \/ WriteData \/ WriteIso \/ WriteLine

RecordingNext ==
    \/ Plug
    \/ \E shape \in Shapes : RecordTransfer(shape)
    \/ Shutdown \/ Notify \/ JoinWriter
    \/ WriterThread \/ WakeUp
    \/ Crash

-----------------------------------------------------------------------------
(* Properties. *)

\* Whatever the files have gone through, a record that playback loads has the
\* buffer and the descriptors that were recorded for it: torn writes, crashes
\* between two writes and appended sessions never make an offset point at
\* something else.  Exempt is a record of which a write failed: its line is
\* written all the same, and a later session may fill the gap it points at.
PlaybackFaithful ==
    \A k \in DOMAIN LoadTransfers :
        LET r == LoadTransfers[k]
        IN  r.id \notin failed => r.data = Data(r.id) /\ r.iso = Iso(r.id)

\* Records keep the order in which the transfers completed, and none is there
\* twice.
RecordedInOrder ==
    \A k, l \in DOMAIN LoadTransfers : k < l => LoadTransfers[k].id < LoadTransfers[l].id

\* A crash or a failed write costs the records it hits, and one that shares
\* its line with an entry left unterminated; with the device unplugged every
\* other transfer is in the recording, also the ones still queued when the
\* plugin was told to go.
NothingForgotten ==
    session = "off" =>
        \A r \in DOMAIN taken \ (failed \cup lost) :
            \/ \E k \in DOMAIN LoadTransfers : LoadTransfers[k].id = r
            \/ \E i \in DOMAIN index : index[i].id = r /\ ~Parsed(i)
=============================================================================
