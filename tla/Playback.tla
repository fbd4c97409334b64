------------------------------- MODULE Playback -------------------------------
(***************************************************************************)
(* playback_device, the mock that plays a recording to a host: it loads    *)
(* the files of Recording when it is plugged in, and its thread goes round *)
(* the records, giving each to the transfer that waits, if one does.       *)
(*                                                                         *)
(* Only transfers of endpoint 0x81 are kept by the plugin; the others are  *)
(* never completed and appear nowhere in its state.                        *)
(***************************************************************************)
EXTENDS Recording

CONSTANTS
    Lengths,        \* lengths of the transfers the host asks for
    MaxRequests     \* transfers it asks for

ASSUME PlaybackAssumption == Lengths \subseteq Nat \ {0} /\ MaxRequests \in Nat

VARIABLES
    player,         \* "off", "running", "stopping" in ~playback_device, "done"
    records,        \* records_
    pos,            \* current_index_, counted from 1
    loop,           \* the playback thread
    input,          \* input_: the lengths of the transfers that wait
    requested,      \* number of transfers asked for
    delivered       \* what the host got, in the order of completion

playerVars == <<player, records, pos, loop, input, requested, delivered>>
vars == <<recorderVars, playerVars>>

Endpoint == "0x81"
Played == Seq(Ids \X {"data", "rest", "iso"} \X Nat)
Deliveries == [id : Ids \cup {NoRecord}, data : Played, iso : Played, length : Lengths]

PlaybackTypeOK ==
    /\ RecordingTypeOK
    /\ player \in {"off", "running", "stopping", "done"}
    /\ \A k \in DOMAIN records : records[k].id \in Ids
    /\ pos = 1 \/ pos \in DOMAIN records
    /\ loop \in {"get", "pair", "gone"}
    /\ input \in Seq(Lengths)
    /\ requested \in 0..MaxRequests
    /\ delivered \in Seq(Deliveries)

-----------------------------------------------------------------------------
(* Plugging the mock in and out, and the executor's requests. *)

PlugPlayer ==
    /\ player = "off"
    /\ player' = "running"
    /\ records' = LoadTransfers
    /\ loop' = "get"
    /\ UNCHANGED <<recorderVars, pos, input, requested, delivered>>

\* on_transfer_request, under input_mutex_.
RequestTransfer(length) ==
    /\ player = "running"
    /\ requested < MaxRequests
    /\ requested' = requested + 1
    /\ input' = Append(input, length)
    /\ UNCHANGED <<recorderVars, player, records, pos, loop, delivered>>

UnplugPlayer ==
    /\ player = "running"
    /\ player' = "stopping"
    /\ UNCHANGED <<recorderVars, records, pos, loop, input, requested, delivered>>

JoinPlayer ==
    /\ player = "stopping"
    /\ loop = "gone"
    /\ player' = "done"
    /\ records' = <<>> /\ pos' = 1
    /\ input' = <<>>
    /\ UNCHANGED <<recorderVars, loop, requested, delivered>>

-----------------------------------------------------------------------------
(* playback_loop. *)

\* With nothing to play the thread waits 100 ms and looks again.  With a
\* record it waits for the time to the next one, or for the shutdown: nothing
\* the loop does depends on what happens between these two critical sections.
GetNextRecord ==
    /\ loop = "get"
    /\ player = "stopping" \/ records # <<>>
    /\ loop' = IF player = "stopping" THEN "gone" ELSE "pair"
    /\ UNCHANGED <<recorderVars, player, records, pos, input, requested, delivered>>

\* Planted bug: the last record is played for ever.
NextIndexStays == IF pos < Len(records) THEN pos + 1 ELSE pos

\* Planted bug: the index is not taken modulo the number of records.
NextIndexPastEnd == pos + 1

NextIndex == (pos % Len(records)) + 1

Least(a, b) == IF a < b THEN a ELSE b

\* Planted bug: the record is copied without regard to the endpoint.
DeliveryOfAny(record, length) ==
    [id |-> record.id, length |-> length,
     data |-> SubSeq(record.data, 1, Least(length, Len(record.data))),
     iso |-> record.iso]

\* What a transfer is completed with: the start of the record and its packet
\* descriptors, or nothing if the record is of another endpoint.  A transfer
\* has as many packets as the one that was recorded.
Delivery(record, length) ==
    IF record.ep = Endpoint
    THEN [id |-> record.id, length |-> length,
          data |-> SubSeq(record.data, 1, Least(length, Len(record.data))),
          iso |-> record.iso]
    ELSE [id |-> NoRecord, length |-> length, data |-> <<>>, iso |-> <<>>]

\* Planted bug: a transfer that the record does not fit is not completed.
PairOrForget ==
    /\ loop = "pair"
    /\ IF input = <<>> THEN UNCHANGED <<input, delivered>>
       ELSE /\ input' = Tail(input)
            /\ delivered' = IF records[pos].ep = Endpoint
                            THEN Append(delivered, Delivery(records[pos], Head(input)))
                            ELSE delivered
    /\ pos' = NextIndex
    /\ loop' = "get"
    /\ UNCHANGED <<recorderVars, player, records, requested>>

\* The thread moves on whether or not a transfer was waiting.
Pair ==
    /\ loop = "pair"
    /\ IF input = <<>> THEN UNCHANGED <<input, delivered>>
       ELSE /\ input' = Tail(input)
            /\ delivered' = Append(delivered, Delivery(records[pos], Head(input)))
    /\ pos' = NextIndex
    /\ loop' = "get"
    /\ UNCHANGED <<recorderVars, player, records, requested>>

-----------------------------------------------------------------------------
Init ==
    /\ RecordingInit
    /\ player = "off"
    /\ records = <<>> /\ pos = 1
    /\ loop = "gone"
    /\ input = <<>> /\ requested = 0
    /\ delivered = <<>>

Recorder(A) == A /\ UNCHANGED playerVars
PlaybackThread == GetNextRecord \/ Pair

Next ==
    \/ Recorder(RecordingNext)
    \/ PlugPlayer
    \/ \E length \in Lengths : RequestTransfer(length)
    \/ UnplugPlayer \/ JoinPlayer
    \/ PlaybackThread

\* Both plugins' threads run, and destructors go on; nobody has to plug or
\* unplug anything.
Spec ==
    /\ Init /\ [][Next]_vars
    /\ WF_vars(Recorder(WriterThread))
    /\ WF_vars(Recorder(Notify))
    /\ WF_vars(Recorder(JoinWriter))
    /\ WF_vars(PlaybackThread)
    /\ WF_vars(JoinPlayer)

-----------------------------------------------------------------------------
(* Properties. *)

\* What the host reads from the playback device is the buffer of one transfer
\* recorded on that endpoint, from its beginning and as far as it and the
\* host's buffer go, with that transfer's packet descriptors: the bytes of
\* the recorded device stand at their places, and where it sent nothing the
\* host is given what the recorded buffer held there, as if it were data.
\* This is so through both threads, the files, crashes of the recorder and a
\* recording that is still going on.  Exempt is a record of which a write
\* failed.
HostGetsRecorded ==
    \A d \in DOMAIN delivered :
        LET got == delivered[d]
        IN  got.id \notin failed \cup {NoRecord} =>
                /\ taken[got.id].ep = Endpoint
                /\ got.data = SubSeq(Data(got.id), 1, Least(got.length, taken[got.id].len))
                /\ got.iso = Iso(got.id)

\* The file header of the plugin: "When the end of the file is reached,
\* playback loops back to the beginning."  Every record comes round again.
LoopsBack ==
    \A p \in Ids : (player = "running" /\ p <= Len(records)) ~> (pos = p \/ player # "running")

\* Every transfer of the endpoint is completed, with or without data, unless
\* the device is unplugged or has nothing to play.
RequestsAnswered ==
    []<>(Len(delivered) = requested \/ player # "running" \/ records = <<>>)

\* The destructors of both plugins return: no wake-up is lost.
DestructorsReturn ==
    /\ (session = "closing") ~> (session = "off")
    /\ (player = "stopping") ~> (player = "done")
=============================================================================
