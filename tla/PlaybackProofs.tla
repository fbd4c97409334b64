---------------------------- MODULE PlaybackProofs ----------------------------
(***************************************************************************)
(* Proofs about Recording and Playback: any number of transfers of any     *)
(* shape, sessions, crashes and failing writes, with the playback device   *)
(* plugged in at any time.                                                 *)
(***************************************************************************)
EXTENDS Playback, FiniteSetTheorems, SequenceTheorems, TLAPS

-----------------------------------------------------------------------------
(* The inductive invariant of the recorder. *)

\* What the payload file is made of, and the bytes of one record.
Byte == Ids \X {"data", "rest", "iso"} \X Nat
IsoBytes(r, n) == [i \in 1 .. n |-> <<r, "iso", i>>]

\* The bytes stand in the file, from an offset on.
Stands(file, offset, bytes) ==
    /\ offset >= 0
    /\ offset + Len(bytes) <= Len(file)
    /\ \A m \in 1 .. Len(bytes) : file[offset + m] = bytes[m]

HasData(file, shapes, r, offset) == Stands(file, offset, Buffer(r, shapes[r]))
HasIso(file, shapes, r, offset) == Stands(file, offset, IsoBytes(r, shapes[r].iso))

\* Where the offsets of a record that was not hit by a failure point: those in
\* the writer's hands as well as those in the index.
Placed ==
    /\ writer.pc \in {"iso", "line"} /\ writer.id \notin failed =>
           HasData(payload, taken, writer.id, writer.offset)
    /\ writer.pc = "line" /\ writer.id \notin failed =>
           HasIso(payload, taken, writer.id, writer.iso)
    /\ writer.pc = "iso" /\ "payload" \in bad => writer.id \in failed
    /\ \A i \in DOMAIN index :
           index[i].id \notin failed =>
               /\ HasData(payload, taken, index[i].id, index[i].offset)
               /\ HasIso(payload, taken, index[i].id, index[i].iso)

\* Records pass from the queue through the writer's hands to the index in the
\* order of their completion.
Ordered ==
    /\ writer.id <= Len(taken)
    /\ writer.pc \in {"payload", "iso", "line"} => writer.id # NoRecord
    /\ \A i \in DOMAIN index :
           /\ index[i].id <= Len(taken)
           /\ writer.id # NoRecord => index[i].id < writer.id
           /\ \A k \in DOMAIN queue : index[i].id < queue[k]
           /\ \A j \in DOMAIN index : i < j => index[i].id < index[j].id
    /\ \A k \in DOMAIN queue :
           /\ queue[k] <= Len(taken)
           /\ writer.id < queue[k]
           /\ \A l \in DOMAIN queue : k < l => queue[k] < queue[l]

\* Every record that is not lost is on its way to the index or there, and a
\* writer that is gone has left nothing queued, unless it could not open its
\* files.
Kept ==
    /\ \A r \in DOMAIN taken \ (failed \cup lost) :
           \/ r \in Queued
           \/ r = writer.id
           \/ \E i \in DOMAIN index : index[i].id = r
    /\ session = "off" => queue = <<>> /\ writer.pc = "gone"
    /\ writer.pc \notin {"payload", "iso", "line"} => writer.id = NoRecord
    /\ writer.pc = "gone" /\ session # "off" =>
           "open" \in bad \/ (session = "closing" /\ queue = <<>>)

\* Of the playback device: it has records the way they were loaded, and plays
\* one of them.
Copied(r) ==
    /\ r.id \in DOMAIN taken
    /\ r.ep = taken[r.id].ep
    /\ r.data \in Played /\ r.iso \in Played
    /\ r.id \notin failed => r.data = Data(r.id) /\ r.iso = Iso(r.id)

Playing ==
    /\ \A k \in DOMAIN records : Copied(records[k])
    /\ DOMAIN records = 1 .. Len(records) /\ Len(records) \in Nat
    /\ loop = "pair" => records # <<>>
    /\ player = "off" => pos = 1 /\ loop = "gone"
    /\ \A d \in DOMAIN delivered : delivered[d].id \in DOMAIN taken \cup {NoRecord}

RecorderInv == RecordingTypeOK /\ Placed /\ Ordered /\ Kept
Inv == RecorderInv /\ PlaybackTypeOK /\ Playing /\ HostGetsRecorded
-----------------------------------------------------------------------------
(* Bytes and files. *)

\* The bytes of a record.
LEMMA IsoFacts ==
    ASSUME NEW r \in Ids, NEW n \in Nat
    PROVE  IsoBytes(r, n) \in Seq(Byte) /\ Len(IsoBytes(r, n)) = n
<1>1. IsoBytes(r, n) \in [1 .. n -> Byte]
  BY DEF IsoBytes, Byte
<1>2. IsoBytes(r, n) \in Seq(Byte)
  BY <1>1
<1>3. QED
  BY <1>1, <1>2

LEMMA BufferFacts ==
    ASSUME NEW r \in Ids, NEW shape, shape.len \in Nat
    PROVE  Buffer(r, shape) \in Seq(Byte) /\ Len(Buffer(r, shape)) = shape.len
<1>1. Buffer(r, shape) \in [1 .. shape.len -> Byte]
  BY DEF Buffer, Byte
<1>2. Buffer(r, shape) \in Seq(Byte)
  BY <1>1
<1>3. QED
  BY <1>1, <1>2

\* A file that is appended to keeps what stands in it.
LEMMA Appending ==
    ASSUME NEW f \in Seq(Byte), NEW b \in Seq(Byte), NEW x \in Seq(Byte), NEW o \in Int,
           Stands(f, o, x)
    PROVE  Stands(f \o b, o, x)
<1>1. /\ Len(f \o b) = Len(f) + Len(b)
      /\ \A i \in 1 .. Len(f) + Len(b) : (f \o b)[i] = IF i <= Len(f) THEN f[i] ELSE b[i - Len(f)]
  BY ConcatProperties
<1>2. Len(f) \in Nat /\ Len(b) \in Nat /\ Len(x) \in Nat
  OBVIOUS
<1>3. o >= 0 /\ o + Len(x) <= Len(f)
  BY DEF Stands
<1>4. ASSUME NEW m \in 1 .. Len(x)
      PROVE  (f \o b)[o + m] = x[m]
  <2>1. o + m \in 1 .. (Len(f) + Len(b)) /\ o + m <= Len(f)
    BY <1>2, <1>3
  <2>2. f[o + m] = x[m]
    BY DEF Stands
  <2>3. QED
    BY <2>1, <2>2, <1>1
<1>5. QED
  BY <1>1, <1>2, <1>3, <1>4 DEF Stands

\* What has just been appended stands at the old end.
LEMMA Appended ==
    ASSUME NEW f \in Seq(Byte), NEW b \in Seq(Byte)
    PROVE  Stands(f \o b, Len(f), b)
<1>1. /\ Len(f \o b) = Len(f) + Len(b)
      /\ \A i \in 1 .. Len(f) + Len(b) : (f \o b)[i] = IF i <= Len(f) THEN f[i] ELSE b[i - Len(f)]
  BY ConcatProperties
<1>2. Len(f) \in Nat /\ Len(b) \in Nat
  OBVIOUS
<1>3. ASSUME NEW m \in 1 .. Len(b)
      PROVE  (f \o b)[Len(f) + m] = b[m]
  <2>1. /\ Len(f) + m \in 1 .. (Len(f) + Len(b)) /\ ~ (Len(f) + m <= Len(f))
        /\ (Len(f) + m) - Len(f) = m
    BY <1>2
  <2>2. QED
    BY <2>1, <1>1
<1>4. QED
  BY <1>1, <1>2, <1>3 DEF Stands

\* read_payload finds what stands at an offset.
LEMMA Reading ==
    ASSUME payload \in Seq(Byte), NEW x \in Seq(Byte), NEW o \in Int, Stands(payload, o, x)
    PROVE  ReadBytes(o, Len(x)) = x
<1>1. o >= 0 /\ o + Len(x) <= Len(payload) /\ Len(x) \in Nat /\ Len(payload) \in Nat
  BY DEF Stands
<1> DEFINE b == o + 1
           e == o + Len(x)
           s == SubSeq(payload, b, e)
<1>2. b \in Int /\ e \in Int /\ e - b + 1 = Len(x)
      /\ (b <= e \/ (Len(x) = 0 /\ ~ (b <= e)))
      /\ \A m \in 1 .. Len(x) : b + m - 1 = o + m
  <2>1. \A y, n \in Int : /\ (y + n) - (y + 1) + 1 = n
                          /\ n >= 0 => (y + 1 <= y + n \/ (n = 0 /\ ~ (y + 1 <= y + n)))
                          /\ \A m \in 1 .. n : (y + 1) + m - 1 = y + m
    OBVIOUS
  <2>2. QED
    BY <1>1, <2>1
<1>3. \A i \in b .. e : payload[i] \in Byte
  BY <1>1
<1> HIDE DEF b, e
<1>4. /\ SubSeq(payload, b, e) \in Seq(Byte)
      /\ Len(SubSeq(payload, b, e)) = IF b <= e THEN e - b + 1 ELSE 0
      /\ \A i \in 1 .. (e - b + 1) : SubSeq(payload, b, e)[i] = payload[b + i - 1]
  BY <1>2, <1>3, SubSeqProperties
<1>5. Len(s) = Len(x) /\ s \in Seq(Byte)
  BY <1>2, <1>4
<1>6. \A i \in 1 .. Len(s) : s[i] = x[i]
  BY <1>2, <1>4, <1>5 DEF Stands
<1>7. s = x
  BY <1>5, <1>6, SeqEqual
<1>8. QED
  BY <1>1, <1>7 DEF ReadBytes, b, e

\* Reading gives bytes of the file, as many as asked for or none.
LEMMA ReadingType ==
    ASSUME payload \in Seq(Byte), NEW o \in Int, NEW n \in Nat
    PROVE  ReadBytes(o, n) \in Seq(Byte)
<1>1. CASE o >= 0 /\ o + n <= Len(payload)
  <2>1. o + 1 \in Int /\ o + n \in Int
    OBVIOUS
  <2>2. \A i \in (o + 1) .. (o + n) : payload[i] \in Byte
    BY <1>1
  <2>3. SubSeq(payload, o + 1, o + n) \in Seq(Byte)
    BY <2>1, <2>2, SubSeqProperties
  <2>4. QED
    BY <1>1, <2>3 DEF ReadBytes
<1>2. CASE ~ (o >= 0 /\ o + n <= Len(payload))
  BY <1>2 DEF ReadBytes
<1>3. QED
  BY <1>1, <1>2

\* The part of a write that made it to the file.
LEMMA Beginning ==
    ASSUME NEW S, NEW x \in Seq(S), NEW k \in 0 .. Len(x)
    PROVE  SubSeq(x, 1, k) \in Seq(S)
<1>1. 1 \in Int /\ k \in Int /\ \A i \in 1 .. k : x[i] \in S
  OBVIOUS
<1>2. QED
  BY <1>1, SubSeqProperties

Extends(f, g) == \E b \in Seq(Byte) : g = f \o b

LEMMA ExtendsItself == ASSUME NEW f \in Seq(Byte) PROVE Extends(f, f)
<1>1. << >> \in Seq(Byte) /\ f = f \o << >>
  BY ConcatEmptySeq
<1>2. QED
  BY <1>1 DEF Extends

-----------------------------------------------------------------------------
(* Types of the recorder. *)

LEMMA RecordingFacts ==
    ASSUME RecordingTypeOK
    PROVE  /\ MaxRecords \in Nat /\ Ids \subseteq Nat /\ NoRecord = 0
           /\ Len(taken) \in Nat /\ Len(taken) <= MaxRecords
           /\ DOMAIN taken = 1 .. Len(taken)
           /\ \A r \in DOMAIN taken : /\ r \in Ids
                                      /\ taken[r].ep \in {"0x81", "0x82"}
                                      /\ taken[r].len \in Nat \ {0}
                                      /\ taken[r].iso \in Nat
           /\ Len(queue) \in Nat /\ DOMAIN queue = 1 .. Len(queue)
           /\ \A k \in DOMAIN queue : queue[k] \in Ids
           /\ Len(index) \in Nat /\ DOMAIN index = 1 .. Len(index)
           /\ \A i \in DOMAIN index : index[i] \in Entries
           /\ payload \in Seq(Byte) /\ Len(payload) \in Nat
           /\ writer = [pc |-> writer.pc, id |-> writer.id, offset |-> writer.offset,
                        iso |-> writer.iso]
           /\ writer.id \in Ids \cup {NoRecord} /\ writer.offset \in Int /\ writer.iso \in Int
<1>1. MaxRecords \in Nat /\ Ids \subseteq Nat /\ NoRecord = 0
  BY RecordingBoundsAssumption DEF Ids, NoRecord
<1>2. /\ Len(taken) \in Nat /\ Len(taken) <= MaxRecords /\ DOMAIN taken = 1 .. Len(taken)
      /\ \A r \in DOMAIN taken : taken[r] \in Shapes
  BY DEF RecordingTypeOK
<1>3. \A r \in DOMAIN taken : /\ r \in Ids
                             /\ taken[r].ep \in {"0x81", "0x82"}
                             /\ taken[r].len \in Nat \ {0}
                             /\ taken[r].iso \in Nat
  BY <1>1, <1>2, ShapesAssumption DEF Ids
<1>4. /\ Len(queue) \in Nat /\ DOMAIN queue = 1 .. Len(queue)
      /\ \A k \in DOMAIN queue : queue[k] \in Ids
  BY DEF RecordingTypeOK
<1>5. /\ Len(index) \in Nat /\ DOMAIN index = 1 .. Len(index)
      /\ \A i \in DOMAIN index : index[i] \in Entries
  BY DEF RecordingTypeOK
<1>6. payload \in Seq(Byte) /\ Len(payload) \in Nat
  BY DEF RecordingTypeOK, Byte
<1>7. /\ writer = [pc |-> writer.pc, id |-> writer.id, offset |-> writer.offset,
                   iso |-> writer.iso]
      /\ writer.id \in Ids \cup {NoRecord} /\ writer.offset \in Int /\ writer.iso \in Int
  BY DEF RecordingTypeOK
<1>8. QED
  BY <1>1, <1>2, <1>3, <1>4, <1>5, <1>6, <1>7

\* The record in the writer's hands.
LEMMA InHandFacts ==
    ASSUME RecordingTypeOK, Ordered, writer.pc \in {"payload", "iso", "line"}
    PROVE  /\ writer.id \in DOMAIN taken /\ writer.id \in Ids
           /\ Data(writer.id) = Buffer(writer.id, taken[writer.id])
           /\ Iso(writer.id) = IsoBytes(writer.id, taken[writer.id].iso)
           /\ Data(writer.id) \in Seq(Byte) /\ Iso(writer.id) \in Seq(Byte)
<1>1. writer.id \in DOMAIN taken /\ writer.id \in Ids
  BY RecordingFacts DEF Ordered, Ids
<1>2. /\ Data(writer.id) = Buffer(writer.id, taken[writer.id])
      /\ Iso(writer.id) = IsoBytes(writer.id, taken[writer.id].iso)
  BY DEF Data, Iso, IsoBytes
<1>3. taken[writer.id].len \in Nat /\ taken[writer.id].iso \in Nat
  BY <1>1, RecordingFacts
<1>4. QED
  BY <1>1, <1>2, <1>3, BufferFacts, IsoFacts

\* Writes to the payload file append, whether they succeed, fail or are cut.
LEMMA PutFacts ==
    ASSUME NEW bytes \in Seq(Byte), Put(bytes)
    PROVE  \E b \in Seq(Byte) :
               /\ payload' = payload \o b
               /\ \/ b = bytes /\ UNCHANGED <<bad, failed>>
                  \/ bad' = bad \cup {"payload"} /\ failed' = failed \cup {writer.id}
<1>1. CASE payload' = payload \o bytes /\ UNCHANGED <<bad, failed>>
  BY <1>1
<1>2. CASE /\ \E k \in 0 .. (Len(bytes) - 1) : payload' = payload \o SubSeq(bytes, 1, k)
           /\ bad' = bad \cup {"payload"}
           /\ failed' = failed \cup {writer.id}
  <2>1. PICK k \in 0 .. (Len(bytes) - 1) : payload' = payload \o SubSeq(bytes, 1, k)
    BY <1>2
  <2>2. k \in 0 .. Len(bytes)
    OBVIOUS
  <2>3. SubSeq(bytes, 1, k) \in Seq(Byte)
    BY <2>2, Beginning
  <2>4. QED
    BY <1>2, <2>1, <2>3
<1>3. QED
  BY <1>1, <1>2 DEF Put

LEMMA CutFacts ==
    ASSUME NEW bytes \in Seq(Byte), CutPayload(bytes)
    PROVE  Extends(payload, payload')
<1>1. PICK k \in 0 .. Len(bytes) : payload' = payload \o SubSeq(bytes, 1, k)
  BY DEF CutPayload
<1>2. SubSeq(bytes, 1, k) \in Seq(Byte)
  BY Beginning
<1>3. QED
  BY <1>1, <1>2 DEF Extends

\* The last line of the index.
LEMMA LineFacts ==
    ASSUME RecordingTypeOK, Ordered, writer.pc = "line", NEW part \in Parts,
           index' = Append(index, Entry(part))
    PROVE  /\ index' \in Seq(Entries)
           /\ Len(index') = Len(index) + 1 /\ DOMAIN index' = 1 .. (Len(index) + 1)
           /\ \A i \in 1 .. Len(index) : index'[i] = index[i]
           /\ index'[Len(index) + 1].id = writer.id
           /\ index'[Len(index) + 1].offset = writer.offset
           /\ index'[Len(index) + 1].iso = writer.iso
<1>1. Entry(part) \in Entries
  BY InHandFacts, RecordingFacts DEF Entry, Entries
<1>2. /\ Entry(part).id = writer.id /\ Entry(part).offset = writer.offset
      /\ Entry(part).iso = writer.iso
  BY DEF Entry
<1>3. index \in Seq(Entries)
  BY DEF RecordingTypeOK
<1>4. /\ Append(index, Entry(part)) \in Seq(Entries)
      /\ Len(Append(index, Entry(part))) = Len(index) + 1
      /\ \A i \in 1 .. Len(index) : Append(index, Entry(part))[i] = index[i]
      /\ Append(index, Entry(part))[Len(index) + 1] = Entry(part)
  BY <1>1, <1>3, AppendProperties
<1>5. DOMAIN index' = 1 .. Len(index')
  BY <1>4
<1>6. QED
  BY <1>2, <1>4, <1>5

\* The types hold after every step.
LEMMA RecordingTypeStep ==
    ASSUME RecordingTypeOK, Ordered, RecordingNext
    PROVE  RecordingTypeOK'
<1> DEFINE W == [pc : {"open", "check", "asleep", "payload", "iso", "line", "gone"},
                 id : Ids \cup {NoRecord}, offset : Int, iso : Int]
<1>a. /\ WriterAt("open") \in W /\ WriterAt("check") \in W
      /\ WriterAt("asleep") \in W /\ WriterAt("gone") \in W
  BY DEF WriterAt
<1>b. writer \in W
  BY DEF RecordingTypeOK
<1>1. CASE Plug
  BY <1>1, <1>a, RecordingBoundsAssumption DEF Plug, RecordingTypeOK
<1>2. ASSUME NEW shape \in Shapes, RecordTransfer(shape) PROVE RecordingTypeOK'
  <2>1. Len(taken) + 1 \in Ids
    BY <1>2, RecordingFacts DEF RecordTransfer, Ids
  <2>2. taken' \in Seq(Shapes) /\ Len(taken') = Len(taken) + 1 /\ queue' \in Seq(Ids)
    BY <1>2, <2>1 DEF RecordTransfer, RecordingTypeOK
  <2>3. Len(taken') <= MaxRecords
    BY <1>2, <2>2, RecordingFacts DEF RecordTransfer
  <2>4. QED
    BY <1>2, <2>2, <2>3 DEF RecordTransfer, RecordingTypeOK
<1>3. CASE Shutdown
  BY <1>3 DEF Shutdown, RecordingTypeOK
<1>4. CASE Notify
  BY <1>4, <1>a, <1>b DEF Notify, RecordingTypeOK
<1>5. CASE JoinWriter
  <2>1. Queued \subseteq Ids
    BY RecordingFacts DEF Queued
  <2>2. QED
    <3>1. /\ session' = "off" /\ queue' = <<>> /\ notifying' = FALSE /\ bad' = {}
          /\ writer' = WriterAt("gone")
          /\ lost' = lost \cup (IF "open" \in bad THEN Queued ELSE {})
          /\ UNCHANGED <<taken, sessions, payload, index, failed>>
      BY <1>5 DEF JoinWriter, Vanish
    <3>2. queue' \in Seq(Ids) /\ lost' \subseteq Ids
      BY <2>1, <3>1 DEF RecordingTypeOK
    <3>3. QED
      BY <1>a, <3>1, <3>2 DEF RecordingTypeOK
<1>6. ASSUME NEW ok \in BOOLEAN, Open(ok) PROVE RecordingTypeOK'
  BY <1>6, <1>a DEF Open, RecordingTypeOK
<1>7. CASE TakeRecord
  <2>1. CASE queue # <<>>
    <3>1. Head(queue) \in Ids /\ Tail(queue) \in Seq(Ids)
      BY <2>1, HeadTailProperties DEF RecordingTypeOK
    <3>2. writer' \in W
      BY <1>7, <2>1, <3>1 DEF TakeRecord, WriterAt
    <3>3. QED
      BY <1>7, <2>1, <3>1, <3>2 DEF TakeRecord, RecordingTypeOK
  <2>2. CASE queue = <<>>
    BY <1>7, <2>2, <1>a DEF TakeRecord, RecordingTypeOK
  <2>3. QED
    BY <2>1, <2>2
<1>8. CASE WakeUp
  BY <1>8, <1>a DEF WakeUp, RecordingTypeOK
<1>9. CASE DropRecord
  BY <1>9, <1>a, InHandFacts DEF DropRecord, RecordingTypeOK
<1>10. CASE WriteData
  <2>1. writer.id \in Ids /\ Data(writer.id) \in Seq(Byte) /\ payload \in Seq(Byte)
        /\ Len(payload) \in Nat
    BY <1>10, InHandFacts, RecordingFacts DEF WriteData
  <2>2. PICK b \in Seq(Byte) :
            /\ payload' = payload \o b
            /\ \/ UNCHANGED <<bad, failed>>
               \/ bad' = bad \cup {"payload"} /\ failed' = failed \cup {writer.id}
    BY <1>10, <2>1, PutFacts DEF WriteData
  <2>3. payload' \in Seq(Byte)
    BY <2>1, <2>2, ConcatProperties
  <2>4. writer' \in W
    <3>1. writer' = [pc |-> "iso", id |-> writer.id, offset |-> Len(payload),
                     iso |-> writer.iso]
      BY <1>10, RecordingFacts DEF WriteData
    <3>2. QED
      BY <2>1, <3>1, RecordingFacts
  <2>5. bad' \subseteq {"open", "payload", "output"} /\ failed' \subseteq Ids
    BY <2>1, <2>2 DEF RecordingTypeOK
  <2>6. QED
    BY <1>10, <2>3, <2>4, <2>5 DEF WriteData, RecordingTypeOK, Byte
<1>11. CASE WriteIso
  <2>1. writer.id \in Ids /\ Iso(writer.id) \in Seq(Byte) /\ payload \in Seq(Byte)
        /\ Len(payload) \in Nat
    BY <1>11, InHandFacts, RecordingFacts DEF WriteIso
  <2>2. /\ payload' \in Seq(Byte)
        /\ bad' \subseteq {"open", "payload", "output"} /\ failed' \subseteq Ids
    <3>1. CASE "payload" \in bad
      BY <1>11, <3>1, <2>1 DEF WriteIso, RecordingTypeOK
    <3>2. CASE "payload" \notin bad
      <4>1. PICK b \in Seq(Byte) :
                /\ payload' = payload \o b
                /\ \/ UNCHANGED <<bad, failed>>
                   \/ bad' = bad \cup {"payload"} /\ failed' = failed \cup {writer.id}
        BY <1>11, <3>2, <2>1, PutFacts DEF WriteIso
      <4>2. payload' \in Seq(Byte)
        BY <2>1, <4>1, ConcatProperties
      <4>3. QED
        BY <2>1, <4>1, <4>2 DEF RecordingTypeOK
    <3>3. QED
      BY <3>1, <3>2
  <2>3. writer' \in W
    <3>1. writer' = [pc |-> "line", id |-> writer.id, offset |-> writer.offset,
                     iso |-> IF "payload" \in bad THEN -1 ELSE Len(payload)]
      BY <1>11, RecordingFacts DEF WriteIso
    <3>2. QED
      BY <2>1, <3>1, RecordingFacts
  <2>4. QED
    BY <1>11, <2>2, <2>3 DEF WriteIso, RecordingTypeOK, Byte
<1>12. CASE WriteLine
  <2>1. writer.id \in Ids /\ writer.pc = "line"
    BY <1>12, InHandFacts DEF WriteLine
  <2>2. index' \in Seq(Entries)
    <3>1. CASE \E part \in Parts : index' = Append(index, Entry(part))
      BY <2>1, <3>1, LineFacts
    <3>2. CASE index' = index
      BY <3>2 DEF RecordingTypeOK
    <3>3. QED
      BY <1>12, <3>1, <3>2 DEF WriteLine, Parts
  <2>3. /\ bad' \subseteq {"open", "payload", "output"} /\ failed' \subseteq Ids
        /\ lost' \subseteq Ids
    BY <1>12, <2>1 DEF WriteLine, RecordingTypeOK
  <2>4. QED
    BY <1>12, <1>a, <2>2, <2>3 DEF WriteLine, RecordingTypeOK
<1>13. CASE Crash
  <2>1. Queued \subseteq Ids /\ InHand \subseteq Ids
    BY RecordingFacts, InHandFacts DEF Queued, InHand
  <2>2. index' \in Seq(Entries)
    <3>1. CASE writer.pc = "line" /\ \E part \in Parts : index' = Append(index, Entry(part))
      BY <3>1, LineFacts
    <3>2. CASE index' = index
      BY <3>2 DEF RecordingTypeOK
    <3>3. QED
      BY <1>13, <3>1, <3>2 DEF Crash
  <2>3. payload' \in Seq(Byte)
    <3>1. Extends(payload, payload')
      BY <1>13, InHandFacts, CutFacts, RecordingFacts, ExtendsItself DEF Crash
    <3>2. PICK b \in Seq(Byte) : payload' = payload \o b
      BY <3>1 DEF Extends
    <3>3. payload \in Seq(Byte)
      BY RecordingFacts
    <3>4. QED
      BY <3>2, <3>3, ConcatProperties
  <2>4. QED
    <3>1. /\ session' = "off" /\ queue' = <<>> /\ notifying' = FALSE /\ bad' = {}
          /\ writer' = WriterAt("gone") /\ lost' = lost \cup InHand \cup Queued
          /\ UNCHANGED <<taken, sessions, failed>>
      BY <1>13 DEF Crash, Vanish
    <3>2. queue' \in Seq(Ids) /\ lost' \subseteq Ids
      BY <2>1, <3>1 DEF RecordingTypeOK
    <3>3. QED
      BY <1>a, <2>2, <2>3, <3>1, <3>2 DEF RecordingTypeOK, Byte
<1>14. QED
  BY <1>1, <1>2, <1>3, <1>4, <1>5, <1>6, <1>7, <1>8, <1>9, <1>10, <1>11, <1>12, <1>13
     DEF RecordingNext, WriterThread
-----------------------------------------------------------------------------
(* The offsets stay right. *)

\* Appending to the payload file, and taking more records, leaves the bytes of a
\* record where they are.
LEMMA Growth ==
    ASSUME RecordingTypeOK, NEW r \in DOMAIN taken, NEW o \in Int,
           NEW g, Extends(payload, g), NEW s, s[r] = taken[r]
    PROVE  /\ HasData(payload, taken, r, o) => HasData(g, s, r, o)
           /\ HasIso(payload, taken, r, o) => HasIso(g, s, r, o)
<1>1. PICK b \in Seq(Byte) : g = payload \o b
  BY DEF Extends
<1>2. r \in Ids /\ taken[r].len \in Nat /\ taken[r].iso \in Nat /\ payload \in Seq(Byte)
  BY RecordingFacts
<1>3. /\ Buffer(r, taken[r]) \in Seq(Byte)
      /\ IsoBytes(r, taken[r].iso) \in Seq(Byte)
  BY <1>2, BufferFacts, IsoFacts
<1>4. QED
  BY <1>1, <1>2, <1>3, Appending DEF HasData, HasIso

\* What the index says stays so.
LEMMA IndexHolds ==
    ASSUME RecordingTypeOK, Ordered, Placed, Extends(payload, payload'),
           \A r \in DOMAIN taken : taken'[r] = taken[r], failed \subseteq failed',
           NEW i \in DOMAIN index, index[i].id \notin failed'
    PROVE  /\ HasData(payload', taken', index[i].id, index[i].offset)
           /\ HasIso(payload', taken', index[i].id, index[i].iso)
<1>1. index[i] \in Entries /\ index[i].id <= Len(taken)
  BY RecordingFacts DEF Ordered
<1>2. index[i].id \in DOMAIN taken /\ index[i].offset \in Int /\ index[i].iso \in Int
  BY <1>1, RecordingFacts DEF Entries, Ids
<1>3. /\ HasData(payload, taken, index[i].id, index[i].offset)
      /\ HasIso(payload, taken, index[i].id, index[i].iso)
  BY DEF Placed
<1>4. QED
  BY <1>2, <1>3, Growth

\* Steps that write nothing.
LEMMA PlacedQuiet ==
    ASSUME RecordingTypeOK, Ordered, Placed, UNCHANGED <<payload, index, failed>>,
           \A r \in DOMAIN taken : taken'[r] = taken[r],
           \/ writer'.pc \notin {"iso", "line"}
           \/ UNCHANGED <<writer, bad>>
    PROVE  Placed'
<1>1. Extends(payload, payload')
  BY RecordingFacts, ExtendsItself
<1>2. \A i \in DOMAIN index' :
          index'[i].id \notin failed' =>
              /\ HasData(payload', taken', index'[i].id, index'[i].offset)
              /\ HasIso(payload', taken', index'[i].id, index'[i].iso)
  BY <1>1, IndexHolds
<1>3. CASE writer'.pc \notin {"iso", "line"}
  BY <1>2, <1>3 DEF Placed
<1>4. CASE UNCHANGED <<writer, bad>> /\ writer.pc \in {"iso", "line"}
  <2>1. writer.id \in DOMAIN taken
    BY <1>4, InHandFacts
  <2>2. taken'[writer.id] = taken[writer.id] /\ payload' = payload
    BY <2>1
  <2>3. QED
    BY <1>2, <1>4, <2>2 DEF Placed, HasData, HasIso
<1>5. QED
  BY <1>3, <1>4

\* A line, or none, goes to the index.
LEMMA PlacedLine ==
    ASSUME RecordingTypeOK, Ordered, Placed, Extends(payload, payload'), UNCHANGED taken,
           failed \subseteq failed', writer'.pc \notin {"iso", "line"},
           \/ index' = index
           \/ /\ writer.pc = "line" /\ payload' = payload
              /\ \E part \in Parts : index' = Append(index, Entry(part))
    PROVE  Placed'
<1>1. ASSUME NEW i \in DOMAIN index', index'[i].id \notin failed'
      PROVE  /\ HasData(payload', taken', index'[i].id, index'[i].offset)
             /\ HasIso(payload', taken', index'[i].id, index'[i].iso)
  <2>1. CASE index' = index
    BY <1>1, <2>1, IndexHolds
  <2>2. CASE /\ writer.pc = "line" /\ payload' = payload
             /\ \E part \in Parts : index' = Append(index, Entry(part))
    <3>1. /\ Len(index) \in Nat /\ DOMAIN index = 1 .. Len(index)
          /\ DOMAIN index' = 1 .. (Len(index) + 1)
          /\ \A k \in 1 .. Len(index) : index'[k] = index[k]
          /\ index'[Len(index) + 1].id = writer.id
          /\ index'[Len(index) + 1].offset = writer.offset
          /\ index'[Len(index) + 1].iso = writer.iso
      BY <2>2, LineFacts, RecordingFacts
    <3>2. CASE i = Len(index) + 1
      BY <1>1, <2>2, <3>1, <3>2 DEF Placed
    <3>3. CASE i # Len(index) + 1
      <4>1. i \in DOMAIN index /\ index'[i] = index[i]
        BY <3>1, <3>3
      <4>2. QED
        BY <1>1, <4>1, IndexHolds
    <3>4. QED
      BY <3>2, <3>3
  <2>3. QED
    BY <2>1, <2>2
<1>2. QED
  BY <1>1 DEF Placed

LEMMA PlacedStep ==
    ASSUME RecordingTypeOK, Ordered, Placed, RecordingNext
    PROVE  Placed'
<1>a. /\ WriterAt("open").pc = "open" /\ WriterAt("check").pc = "check"
      /\ WriterAt("asleep").pc = "asleep" /\ WriterAt("gone").pc = "gone"
  BY DEF WriterAt
<1>1. CASE Plug
  BY <1>1, <1>a, PlacedQuiet DEF Plug
<1>2. ASSUME NEW shape \in Shapes, RecordTransfer(shape) PROVE Placed'
  <2>1. \A r \in DOMAIN taken : taken'[r] = taken[r]
    BY <1>2, RecordingFacts DEF RecordTransfer, RecordingTypeOK
  <2>2. QED
    BY <1>2, <2>1, PlacedQuiet DEF RecordTransfer
<1>3. CASE Shutdown
  BY <1>3, PlacedQuiet DEF Shutdown
<1>4. CASE Notify
  BY <1>4, <1>a, PlacedQuiet DEF Notify
<1>5. CASE JoinWriter
  BY <1>5, <1>a, PlacedQuiet DEF JoinWriter, Vanish
<1>6. ASSUME NEW ok \in BOOLEAN, Open(ok) PROVE Placed'
  BY <1>6, <1>a, PlacedQuiet DEF Open
<1>7. CASE TakeRecord
  <2>1. writer'.pc \notin {"iso", "line"}
    BY <1>7 DEF TakeRecord, WriterAt
  <2>2. QED
    BY <1>7, <2>1, PlacedQuiet DEF TakeRecord
<1>8. CASE WakeUp
  BY <1>8, <1>a, PlacedQuiet DEF WakeUp
<1>9. CASE DropRecord
  BY <1>9, <1>a, PlacedQuiet DEF DropRecord
<1>10. CASE WriteData
  <2>1. /\ writer.id \in DOMAIN taken /\ payload \in Seq(Byte)
        /\ Data(writer.id) \in Seq(Byte)
        /\ Data(writer.id) = Buffer(writer.id, taken[writer.id])
    BY <1>10, InHandFacts, RecordingFacts DEF WriteData
  <2>2. PICK b \in Seq(Byte) :
            /\ payload' = payload \o b
            /\ \/ b = Data(writer.id) /\ UNCHANGED <<bad, failed>>
               \/ bad' = bad \cup {"payload"} /\ failed' = failed \cup {writer.id}
    BY <1>10, <2>1, PutFacts DEF WriteData
  <2>3. /\ writer'.pc = "iso" /\ writer'.id = writer.id /\ writer'.offset = Len(payload)
        /\ UNCHANGED <<taken, index>> /\ "payload" \notin bad
    BY <1>10, RecordingFacts DEF WriteData
  <2>4. Extends(payload, payload') /\ failed \subseteq failed'
    BY <2>2 DEF Extends
  <2>5. \A i \in DOMAIN index' :
            index'[i].id \notin failed' =>
                /\ HasData(payload', taken', index'[i].id, index'[i].offset)
                /\ HasIso(payload', taken', index'[i].id, index'[i].iso)
    BY <2>3, <2>4, IndexHolds
  <2>6. writer.id \notin failed' => HasData(payload', taken', writer.id, Len(payload))
    BY <2>1, <2>2, <2>3, Appended DEF HasData
  <2>7. "payload" \in bad' => writer.id \in failed'
    BY <2>2, <2>3
  <2>8. QED
    BY <2>3, <2>5, <2>6, <2>7 DEF Placed
<1>11. CASE WriteIso
  <2>1. /\ writer.id \in DOMAIN taken /\ payload \in Seq(Byte) /\ writer.offset \in Int
        /\ Iso(writer.id) \in Seq(Byte)
        /\ Iso(writer.id) = IsoBytes(writer.id, taken[writer.id].iso)
        /\ writer.pc = "iso"
    BY <1>11, InHandFacts, RecordingFacts DEF WriteIso
  <2>2. /\ writer'.pc = "line" /\ writer'.id = writer.id /\ writer'.offset = writer.offset
        /\ writer'.iso = (IF "payload" \in bad THEN -1 ELSE Len(payload))
        /\ UNCHANGED <<taken, index>>
    BY <1>11, RecordingFacts DEF WriteIso
  <2>3. /\ Extends(payload, payload') /\ failed \subseteq failed'
        /\ writer.id \notin failed' =>
               "payload" \notin bad /\ HasIso(payload', taken', writer.id, Len(payload))
    <3>1. CASE "payload" \in bad
      BY <1>11, <2>1, <3>1, ExtendsItself DEF WriteIso, Placed
    <3>2. CASE "payload" \notin bad
      <4>1. PICK b \in Seq(Byte) :
                /\ payload' = payload \o b
                /\ \/ b = Iso(writer.id) /\ UNCHANGED <<bad, failed>>
                   \/ bad' = bad \cup {"payload"} /\ failed' = failed \cup {writer.id}
        BY <1>11, <3>2, <2>1, PutFacts DEF WriteIso
      <4>2. Extends(payload, payload') /\ failed \subseteq failed'
        BY <4>1 DEF Extends
      <4>3. writer.id \notin failed' => HasIso(payload', taken', writer.id, Len(payload))
        BY <2>1, <2>2, <4>1, Appended DEF HasIso
      <4>4. QED
        BY <3>2, <4>2, <4>3
    <3>3. QED
      BY <3>1, <3>2
  <2>4. \A i \in DOMAIN index' :
            index'[i].id \notin failed' =>
                /\ HasData(payload', taken', index'[i].id, index'[i].offset)
                /\ HasIso(payload', taken', index'[i].id, index'[i].iso)
    BY <2>2, <2>3, IndexHolds
  <2>5. writer.id \notin failed' => HasData(payload', taken', writer.id, writer.offset)
    <3>1. writer.id \notin failed' => HasData(payload, taken, writer.id, writer.offset)
      BY <2>1, <2>3 DEF Placed
    <3>2. QED
      BY <3>1, <2>1, <2>2, <2>3, Growth
  <2>6. QED
    BY <2>2, <2>3, <2>4, <2>5 DEF Placed
<1>12. CASE WriteLine
  <2>1. /\ writer.pc = "line" /\ writer'.pc = "check" /\ UNCHANGED <<taken, payload>>
        /\ failed \subseteq failed' /\ Extends(payload, payload')
    BY <1>12, <1>a, RecordingFacts, ExtendsItself DEF WriteLine
  <2>2. index' = index \/ \E part \in Parts : index' = Append(index, Entry(part))
    BY <1>12 DEF WriteLine, Parts
  <2>3. QED
    BY <2>1, <2>2, PlacedLine
<1>13. CASE Crash
  <2>1. writer'.pc = "gone" /\ UNCHANGED <<taken, failed>>
    BY <1>13, <1>a DEF Crash, Vanish
  <2>2. Extends(payload, payload')
    BY <1>13, InHandFacts, CutFacts, RecordingFacts, ExtendsItself DEF Crash
  <2>3. \/ index' = index
        \/ /\ writer.pc = "line" /\ payload' = payload
           /\ \E part \in Parts : index' = Append(index, Entry(part))
    BY <1>13 DEF Crash
  <2>4. QED
    BY <2>1, <2>2, <2>3, PlacedLine
<1>14. QED
  BY <1>1, <1>2, <1>3, <1>4, <1>5, <1>6, <1>7, <1>8, <1>9, <1>10, <1>11, <1>12, <1>13
     DEF RecordingNext, WriterThread
-----------------------------------------------------------------------------
(* Records keep their order, and none is forgotten. *)

Holding == {"payload", "iso", "line"}

\* Steps that move no record on.
LEMMA OrderedQuiet ==
    ASSUME RecordingTypeOK, Ordered, UNCHANGED <<taken, index>>,
           queue' = queue \/ queue' = <<>>,
           \/ writer'.id = NoRecord /\ writer'.pc \notin Holding
           \/ writer'.id = writer.id /\ (writer'.pc \in Holding => writer.pc \in Holding)
    PROVE  Ordered'
<1>1. /\ Len(taken) \in Nat /\ NoRecord = 0 /\ writer.id \in Nat
      /\ \A k \in DOMAIN queue : queue[k] \in Nat /\ 0 < queue[k]
  BY RecordingFacts DEF Ids
<1>2. /\ writer'.id \in Nat /\ writer'.id <= Len(taken')
      /\ writer'.pc \in Holding => writer'.id # NoRecord
      /\ writer'.id # NoRecord => writer'.id = writer.id
  BY <1>1 DEF Ordered, Holding
<1>3. CASE queue' = <<>>
  BY <1>1, <1>2, <1>3 DEF Ordered, Holding
<1>4. CASE queue' = queue
  <2>1. \A k \in DOMAIN queue : writer'.id < queue[k]
    BY <1>1, <1>2 DEF Ordered
  <2>2. QED
    BY <1>1, <1>2, <1>4, <2>1 DEF Ordered, Holding
<1>5. QED
  BY <1>3, <1>4

\* The record in the writer's hands is written to the index.
LEMMA OrderedLine ==
    ASSUME RecordingTypeOK, Ordered, UNCHANGED taken,
           queue' = queue \/ queue' = <<>>,
           writer'.id = NoRecord, writer'.pc \notin Holding, writer.pc = "line",
           \E part \in Parts : index' = Append(index, Entry(part))
    PROVE  Ordered'
<1>1. /\ DOMAIN index' = 1 .. (Len(index) + 1)
      /\ \A i \in 1 .. Len(index) : index'[i] = index[i]
      /\ index'[Len(index) + 1].id = writer.id
  BY LineFacts
<1>2. /\ writer.id \in Ids /\ writer.id # NoRecord
  BY InHandFacts DEF Ordered
<1>3. /\ Len(index) \in Nat /\ DOMAIN index = 1 .. Len(index) /\ Len(taken) \in Nat
      /\ NoRecord = 0 /\ Ids \subseteq Nat
      /\ \A i \in DOMAIN index : index[i].id \in Nat
      /\ \A k \in DOMAIN queue : queue[k] \in Nat /\ queue[k] > 0
  BY RecordingFacts DEF Entries, Ids
<1>a. \A k \in DOMAIN queue :
          /\ queue[k] <= Len(taken) /\ writer.id < queue[k]
          /\ \A l \in DOMAIN queue : k < l => queue[k] < queue[l]
  BY DEF Ordered
<1>4. \A i \in DOMAIN index' : index'[i].id \in Nat /\ index'[i].id <= writer.id
      /\ (i # Len(index) + 1 => index'[i].id < writer.id)
  <2> SUFFICES ASSUME NEW i \in DOMAIN index'
               PROVE  /\ index'[i].id \in Nat /\ index'[i].id <= writer.id
                      /\ i # Len(index) + 1 => index'[i].id < writer.id
    OBVIOUS
  <2>1. CASE i = Len(index) + 1
    <3>1. index'[i].id = writer.id /\ writer.id \in Nat
      BY <2>1, <1>1, <1>2, <1>3
    <3>2. QED
      BY <2>1, <3>1
  <2>2. CASE i # Len(index) + 1
    <3>1. i \in DOMAIN index /\ index'[i] = index[i]
      BY <2>2, <1>1, <1>3
    <3>2. index[i].id \in Nat /\ index[i].id < writer.id /\ writer.id \in Nat
      BY <3>1, <1>2, <1>3 DEF Ordered
    <3>3. QED
      BY <3>1, <3>2
  <2>3. QED
    BY <2>1, <2>2
<1>5. ASSUME NEW i \in DOMAIN index'
      PROVE  /\ index'[i].id <= Len(taken)
             /\ \A k \in DOMAIN queue : index'[i].id < queue[k]
             /\ \A j \in DOMAIN index' : i < j => index'[i].id < index'[j].id
  <2>1. index'[i].id <= Len(taken)
    <3>1. writer.id \in Nat /\ index'[i].id \in Nat /\ index'[i].id <= writer.id
      BY <1>2, <1>3, <1>4
    <3>2. writer.id <= Len(taken) /\ Len(taken) \in Nat
      BY <1>3 DEF Ordered
    <3>3. QED
      BY <3>1, <3>2
  <2>2. \A k \in DOMAIN queue : index'[i].id < queue[k]
    <3> TAKE k \in DOMAIN queue
    <3>1. queue[k] \in Nat /\ writer.id < queue[k]
      BY <1>3, <1>a
    <3>2. writer.id \in Nat /\ index'[i].id \in Nat /\ index'[i].id <= writer.id
      BY <1>2, <1>3, <1>4
    <3>3. QED
      BY <3>1, <3>2
  <2>3. ASSUME NEW j \in DOMAIN index', i < j
        PROVE  index'[i].id < index'[j].id
    <3>1. i \in DOMAIN index
      BY <2>3, <1>1, <1>3
    <3>2. CASE j = Len(index) + 1
      BY <2>3, <3>1, <3>2, <1>1, <1>3, <1>4
    <3>3. CASE j # Len(index) + 1
      <4>1. j \in DOMAIN index
        BY <3>3, <1>1, <1>3
      <4>2. QED
        BY <2>3, <3>1, <4>1, <1>1, <1>3 DEF Ordered
    <3>4. QED
      BY <3>2, <3>3
  <2>4. QED
    BY <2>1, <2>2, <2>3
<1>6. \A k \in DOMAIN queue' :
          /\ queue'[k] <= Len(taken)
          /\ NoRecord < queue'[k]
          /\ \A l \in DOMAIN queue' : k < l => queue'[k] < queue'[l]
  <2>1. CASE queue' = <<>>
    BY <2>1
  <2>2. CASE queue' = queue
    BY <2>2, <1>3, <1>a
  <2>3. QED
    BY <2>1, <2>2
<1>7. \A i \in DOMAIN index' : \A k \in DOMAIN queue' : index'[i].id < queue'[k]
  BY <1>5
<1>8. QED
  BY <1>3, <1>5, <1>6, <1>7 DEF Ordered, Holding

LEMMA OrderedStep ==
    ASSUME RecordingTypeOK, Ordered, RecordingNext
    PROVE  Ordered'
<1>a. \A pc : WriterAt(pc).pc = pc /\ WriterAt(pc).id = NoRecord
  BY DEF WriterAt
<1>1. CASE Plug
  BY <1>1, <1>a, OrderedQuiet DEF Plug, Holding
<1>2. ASSUME NEW shape \in Shapes, RecordTransfer(shape) PROVE Ordered'
  <2>1. /\ queue' = Append(queue, Len(taken) + 1) /\ Len(taken') = Len(taken) + 1
        /\ UNCHANGED <<writer, index>>
    BY <1>2 DEF RecordTransfer, RecordingTypeOK
  <2>2. Len(taken) + 1 \in Ids
    BY <1>2, RecordingFacts DEF RecordTransfer, Ids
  <2>3. /\ DOMAIN queue' = 1 .. (Len(queue) + 1)
        /\ \A k \in 1 .. Len(queue) : queue'[k] = queue[k]
        /\ queue'[Len(queue) + 1] = Len(taken) + 1
    BY <2>1, <2>2, AppendProperties DEF RecordingTypeOK
  <2>4. /\ Len(taken) \in Nat /\ Len(queue) \in Nat /\ DOMAIN queue = 1 .. Len(queue)
        /\ writer.id \in Nat /\ Ids \subseteq Nat
        /\ \A k \in DOMAIN queue : queue[k] \in Nat
        /\ \A i \in DOMAIN index : index[i].id \in Nat
    BY RecordingFacts DEF Entries
  <2>5. \A k \in DOMAIN queue' : k \in DOMAIN queue \/ k = Len(queue) + 1
    BY <2>3, <2>4
  <2>6. QED
    BY <2>1, <2>3, <2>4, <2>5 DEF Ordered
<1>3. CASE Shutdown
  BY <1>3, OrderedQuiet DEF Shutdown
<1>4. CASE Notify
  BY <1>4, <1>a, OrderedQuiet DEF Notify, Holding
<1>5. CASE JoinWriter
  BY <1>5, <1>a, OrderedQuiet DEF JoinWriter, Vanish, Holding
<1>6. ASSUME NEW ok \in BOOLEAN, Open(ok) PROVE Ordered'
  BY <1>6, <1>a, OrderedQuiet DEF Open, Holding
<1>7. CASE TakeRecord
  <2>1. CASE queue = <<>>
    BY <1>7, <2>1, <1>a, OrderedQuiet DEF TakeRecord, Holding
  <2>2. CASE queue # <<>>
    <3>1. /\ queue' = Tail(queue) /\ writer'.pc = "payload" /\ writer'.id = Head(queue)
          /\ UNCHANGED <<taken, index>>
      BY <1>7, <2>2 DEF TakeRecord, WriterAt
    <3>2. /\ Head(queue) = queue[1] /\ Len(queue) \in Nat \ {0}
          /\ DOMAIN queue' = 1 .. (Len(queue) - 1)
          /\ \A k \in DOMAIN queue' : queue'[k] = queue[k + 1]
      BY <2>2, <3>1, HeadTailProperties, EmptySeq DEF RecordingTypeOK
    <3>3. 1 \in DOMAIN queue /\ \A k \in DOMAIN queue' : k + 1 \in DOMAIN queue /\ 1 < k + 1
      BY <3>2, RecordingFacts
    <3>4. /\ \A k \in DOMAIN queue : queue[k] \in Nat /\ queue[k] # NoRecord
          /\ Len(taken) \in Nat
      BY RecordingFacts DEF Ids
    <3>5. QED
      BY <3>1, <3>2, <3>3, <3>4 DEF Ordered
  <2>3. QED
    BY <2>1, <2>2
<1>8. CASE WakeUp
  BY <1>8, <1>a, OrderedQuiet DEF WakeUp, Holding
<1>9. CASE DropRecord
  BY <1>9, <1>a, OrderedQuiet DEF DropRecord, Holding
<1>10. CASE WriteData
  <2>1. writer'.id = writer.id /\ writer.pc = "payload" /\ UNCHANGED <<taken, index, queue>>
    BY <1>10, RecordingFacts DEF WriteData
  <2>2. QED
    BY <2>1, OrderedQuiet DEF Holding
<1>11. CASE WriteIso
  <2>1. writer'.id = writer.id /\ writer.pc = "iso" /\ UNCHANGED <<taken, index, queue>>
    BY <1>11, RecordingFacts DEF WriteIso
  <2>2. QED
    BY <2>1, OrderedQuiet DEF Holding
<1>12. CASE WriteLine
  <2>1. /\ writer.pc = "line" /\ UNCHANGED <<taken, queue>>
        /\ writer'.id = NoRecord /\ writer'.pc \notin Holding
    BY <1>12, <1>a DEF WriteLine, Holding
  <2>2. index' = index \/ \E part \in Parts : index' = Append(index, Entry(part))
    BY <1>12 DEF WriteLine, Parts
  <2>3. QED
    BY <2>1, <2>2, OrderedQuiet, OrderedLine
<1>13. CASE Crash
  <2>1. /\ UNCHANGED taken /\ queue' = <<>>
        /\ writer'.id = NoRecord /\ writer'.pc \notin Holding
    BY <1>13, <1>a DEF Crash, Vanish, Holding
  <2>2. \/ index' = index
        \/ writer.pc = "line" /\ \E part \in Parts : index' = Append(index, Entry(part))
    BY <1>13 DEF Crash
  <2>3. QED
    BY <2>1, <2>2, OrderedQuiet, OrderedLine
<1>14. QED
  BY <1>1, <1>2, <1>3, <1>4, <1>5, <1>6, <1>7, <1>8, <1>9, <1>10, <1>11, <1>12, <1>13
     DEF RecordingNext, WriterThread

LEMMA KeptStep ==
    ASSUME RecordingTypeOK, Ordered, Kept, RecordingNext
    PROVE  Kept'
<1>a. \A pc : WriterAt(pc).pc = pc /\ WriterAt(pc).id = NoRecord
  BY DEF WriterAt
<1>b. \A r \in DOMAIN taken \ (failed \cup lost) :
          r \in Queued \/ r = writer.id \/ \E i \in DOMAIN index : index[i].id = r
  BY DEF Kept
<1>c. NoRecord \notin DOMAIN taken /\ (writer.pc \notin Holding => writer.id = NoRecord)
  BY RecordingFacts DEF Kept, Holding, Ids
<1> DEFINE Accounted(r) == \/ \E k \in DOMAIN queue' : queue'[k] = r
                           \/ r = writer'.id
                           \/ \E i \in DOMAIN index' : index'[i].id = r
           Safe == /\ session' = "off" => queue' = <<>> /\ writer'.pc = "gone"
                   /\ writer'.pc \notin Holding => writer'.id = NoRecord
                   /\ writer'.pc = "gone" /\ session' # "off" =>
                          "open" \in bad' \/ (session' = "closing" /\ queue' = <<>>)
<1>d. ASSUME \A r \in DOMAIN taken' \ (failed' \cup lost') : Accounted(r), Safe
      PROVE  Kept'
  BY <1>d DEF Kept, Queued, Holding
<1>1. CASE Plug
  <2>1. Safe
    BY <1>1, <1>a DEF Plug, Holding
  <2>2. \A r \in DOMAIN taken' \ (failed' \cup lost') : Accounted(r)
    BY <1>1, <1>a, <1>b, <1>c DEF Plug, Kept, Queued, Holding
  <2>3. QED
    BY <2>1, <2>2, <1>d
<1>2. ASSUME NEW shape \in Shapes, RecordTransfer(shape) PROVE Kept'
  <2>1. /\ queue' = Append(queue, Len(taken) + 1) /\ taken' = Append(taken, shape)
        /\ session = "running" /\ UNCHANGED <<writer, index, failed, lost, bad, session>>
    BY <1>2 DEF RecordTransfer
  <2>2. Len(taken) + 1 \in Ids
    BY <1>2, RecordingFacts DEF RecordTransfer, Ids
  <2>3. /\ DOMAIN queue' = 1 .. (Len(queue) + 1)
        /\ \A k \in 1 .. Len(queue) : queue'[k] = queue[k]
        /\ queue'[Len(queue) + 1] = Len(taken) + 1
        /\ DOMAIN taken' = 1 .. (Len(taken) + 1)
    BY <2>1, <2>2, AppendProperties DEF RecordingTypeOK
  <2>4. /\ Len(queue) \in Nat /\ DOMAIN queue = 1 .. Len(queue)
        /\ Len(taken) \in Nat /\ DOMAIN taken = 1 .. Len(taken)
    BY RecordingFacts
  <2>5. Safe
    BY <2>1, <1>c DEF Kept
  <2>6. ASSUME NEW r \in DOMAIN taken' \ (failed' \cup lost')
        PROVE  Accounted(r)
    <3>1. CASE r = Len(taken) + 1
      <4>1. Len(queue) + 1 \in DOMAIN queue'
        BY <2>3, <2>4
      <4>2. QED
        BY <3>1, <4>1, <2>3
    <3>2. CASE r # Len(taken) + 1
      <4>1. r \in DOMAIN taken \ (failed \cup lost)
        BY <3>2, <2>1, <2>3, <2>4
      <4>2. \A k \in DOMAIN queue : k \in DOMAIN queue' /\ queue'[k] = queue[k]
        BY <2>3, <2>4
      <4>3. QED
        BY <4>1, <4>2, <1>b, <2>1 DEF Queued
    <3>3. QED
      BY <3>1, <3>2
  <2>7. QED
    BY <2>5, <2>6, <1>d
<1>3. CASE Shutdown
  <2>1. Safe
    BY <1>3, <1>c DEF Shutdown, Kept
  <2>2. QED
    BY <1>3, <2>1, <1>b, <1>d DEF Shutdown, Queued
<1>4. CASE Notify
  <2>1. Safe
    BY <1>4, <1>a, <1>c DEF Notify, Kept
  <2>2. \A r \in DOMAIN taken' \ (failed' \cup lost') : Accounted(r)
    BY <1>4, <1>a, <1>b, <1>c DEF Notify, Queued, Holding
  <2>3. QED
    BY <2>1, <2>2, <1>d
<1>5. CASE JoinWriter
  <2>1. Safe
    BY <1>5, <1>a DEF JoinWriter, Vanish
  <2>2. /\ queue = <<>> \/ "open" \in bad
        /\ writer.id = NoRecord
    BY <1>5, <1>c DEF JoinWriter, Kept, Holding
  <2>3. "open" \in bad => lost' = lost \cup Queued
    BY <1>5 DEF JoinWriter
  <2>4. queue = <<>> => Queued = {}
    BY DEF Queued
  <2>5. lost \subseteq lost' /\ UNCHANGED <<taken, failed, index>>
    BY <1>5 DEF JoinWriter
  <2>6. \A r \in DOMAIN taken' \ (failed' \cup lost') : \E i \in DOMAIN index' : index'[i].id = r
    BY <2>2, <2>3, <2>4, <2>5, <1>b, <1>c
  <2>7. QED
    BY <2>1, <2>6, <1>d
<1>6. ASSUME NEW ok \in BOOLEAN, Open(ok) PROVE Kept'
  <2>1. Safe
    BY <1>6, <1>a DEF Open
  <2>2. \A r \in DOMAIN taken' \ (failed' \cup lost') : Accounted(r)
    BY <1>6, <1>a, <1>b, <1>c DEF Open, Queued, Holding
  <2>3. QED
    BY <2>1, <2>2, <1>d
<1>7. CASE TakeRecord
  <2>1. CASE queue = <<>>
    <3>1. Safe
      BY <1>7, <2>1, <1>a DEF TakeRecord, RecordingTypeOK
    <3>2. \A r \in DOMAIN taken' \ (failed' \cup lost') : Accounted(r)
      BY <1>7, <2>1, <1>a, <1>b, <1>c DEF TakeRecord, Queued, Holding
    <3>3. QED
      BY <3>1, <3>2, <1>d
  <2>2. CASE queue # <<>>
    <3>1. /\ queue' = Tail(queue) /\ writer'.pc = "payload" /\ writer'.id = Head(queue)
          /\ UNCHANGED <<taken, index, failed, lost, session>> /\ session # "off"
          /\ writer.id = NoRecord
      BY <1>7, <2>2, <1>c DEF TakeRecord, WriterAt, Holding
    <3>2. /\ Head(queue) = queue[1] /\ Len(queue) \in Nat \ {0}
          /\ DOMAIN queue' = 1 .. (Len(queue) - 1)
          /\ \A k \in DOMAIN queue' : queue'[k] = queue[k + 1]
      BY <2>2, <3>1, HeadTailProperties, EmptySeq DEF RecordingTypeOK
    <3>3. \A k \in DOMAIN queue : k = 1 \/ (k - 1 \in DOMAIN queue' /\ queue'[k - 1] = queue[k])
      <4> SUFFICES ASSUME NEW k \in DOMAIN queue, k # 1
                   PROVE  k - 1 \in DOMAIN queue' /\ queue'[k - 1] = queue[k]
        OBVIOUS
      <4>1. k - 1 \in DOMAIN queue' /\ (k - 1) + 1 = k
        BY <3>2, RecordingFacts
      <4>2. QED
        BY <4>1, <3>2
    <3>4. Safe
      BY <3>1 DEF Holding
    <3>5. \A r \in DOMAIN taken' \ (failed' \cup lost') : Accounted(r)
      <4> SUFFICES ASSUME NEW r \in DOMAIN taken \ (failed \cup lost) PROVE Accounted(r)
        BY <3>1
      <4>1. CASE \E i \in DOMAIN index : index[i].id = r
        BY <4>1, <3>1
      <4>2. CASE r \in Queued
        <5>1. PICK k \in DOMAIN queue : queue[k] = r
          BY <4>2 DEF Queued
        <5>2. CASE k = 1
          BY <5>1, <5>2, <3>1, <3>2
        <5>3. CASE k # 1
          BY <5>1, <5>3, <3>3
        <5>4. QED
          BY <5>2, <5>3
      <4>3. r # writer.id
        BY <3>1, <1>c
      <4>4. QED
        BY <4>1, <4>2, <4>3, <1>b
    <3>6. QED
      BY <3>4, <3>5, <1>d
  <2>3. QED
    BY <2>1, <2>2
<1>8. CASE WakeUp
  <2>1. Safe
    BY <1>8, <1>a DEF WakeUp
  <2>2. \A r \in DOMAIN taken' \ (failed' \cup lost') : Accounted(r)
    BY <1>8, <1>a, <1>b, <1>c DEF WakeUp, Queued, Holding
  <2>3. QED
    BY <2>1, <2>2, <1>d
<1>9. CASE DropRecord
  <2>1. Safe
    BY <1>9, <1>a DEF DropRecord
  <2>2. \A r \in DOMAIN taken' \ (failed' \cup lost') : Accounted(r)
    BY <1>9, <1>a, <1>b, <1>c DEF DropRecord, Queued
  <2>3. QED
    BY <2>1, <2>2, <1>d
<1>10. CASE WriteData
  <2>1. /\ writer'.pc = "iso" /\ writer'.id = writer.id /\ session # "off"
        /\ UNCHANGED <<taken, session, queue, index, lost>>
    BY <1>10, RecordingFacts DEF WriteData
  <2>2. failed \subseteq failed'
    BY <1>10 DEF WriteData, Put
  <2>3. Safe
    BY <2>1 DEF Holding
  <2>4. QED
    BY <2>1, <2>2, <2>3, <1>b, <1>d DEF Queued
<1>11. CASE WriteIso
  <2>1. /\ writer'.pc = "line" /\ writer'.id = writer.id /\ session # "off"
        /\ UNCHANGED <<taken, session, queue, index, lost>>
    BY <1>11, RecordingFacts DEF WriteIso
  <2>2. failed \subseteq failed'
    BY <1>11 DEF WriteIso, Put
  <2>3. Safe
    BY <2>1 DEF Holding
  <2>4. QED
    BY <2>1, <2>2, <2>3, <1>b, <1>d DEF Queued
<1>12. CASE WriteLine
  <2>1. /\ writer.pc = "line" /\ writer'.pc = "check" /\ writer'.id = NoRecord
        /\ session # "off" /\ UNCHANGED <<taken, session, queue>>
        /\ failed \subseteq failed' /\ lost \subseteq lost'
    BY <1>12, <1>a DEF WriteLine
  <2>2. Safe
    BY <2>1 DEF Holding
  <2>3. CASE index' = index /\ writer.id \in lost'
    BY <2>1, <2>2, <2>3, <1>b, <1>d DEF Queued
  <2>4. CASE \E part \in Parts : index' = Append(index, Entry(part))
    <3>1. /\ DOMAIN index' = 1 .. (Len(index) + 1)
          /\ \A i \in 1 .. Len(index) : index'[i] = index[i]
          /\ index'[Len(index) + 1].id = writer.id
      BY <2>1, <2>4, LineFacts
    <3>2. /\ Len(index) + 1 \in DOMAIN index'
          /\ \A i \in DOMAIN index : i \in DOMAIN index' /\ index'[i] = index[i]
      BY <3>1, RecordingFacts
    <3>3. \A r \in DOMAIN taken' \ (failed' \cup lost') : Accounted(r)
      BY <2>1, <3>1, <3>2, <1>b DEF Queued
    <3>4. QED
      BY <2>2, <3>3, <1>d
  <2>5. QED
    BY <1>12, <2>3, <2>4 DEF WriteLine, Parts
<1>13. CASE Crash
  <2>1. /\ session' = "off" /\ queue' = <<>> /\ writer'.pc = "gone" /\ writer'.id = NoRecord
        /\ lost' = lost \cup InHand \cup Queued /\ UNCHANGED <<taken, failed>>
    BY <1>13, <1>a DEF Crash, Vanish
  <2>2. Safe
    BY <2>1
  <2>3. \A i \in DOMAIN index : i \in DOMAIN index' /\ index'[i] = index[i]
    <3>1. CASE index' = index
      BY <3>1
    <3>2. CASE writer.pc = "line" /\ \E part \in Parts : index' = Append(index, Entry(part))
      BY <3>2, LineFacts, RecordingFacts
    <3>3. QED
      BY <1>13, <3>1, <3>2 DEF Crash
  <2>4. \A r \in DOMAIN taken : r = writer.id => r \in InHand
    BY <1>c DEF InHand, Holding
  <2>5. \A r \in DOMAIN taken' \ (failed' \cup lost') : Accounted(r)
    BY <2>1, <2>3, <2>4, <1>b
  <2>6. QED
    BY <2>2, <2>5, <1>d
<1>14. QED
  BY <1>1, <1>2, <1>3, <1>4, <1>5, <1>6, <1>7, <1>8, <1>9, <1>10, <1>11, <1>12, <1>13
     DEF RecordingNext, WriterThread
-----------------------------------------------------------------------------
(* What load_transfers makes of the files. *)

\* The members of P up to i.
UpTo(P, i) == {j \in P : j <= i}

\* The members of a set of line numbers can be counted off.
LEMMA Counting ==
    ASSUME NEW n \in Nat, NEW P \in SUBSET (1 .. n)
    PROVE  /\ Cardinality(P) \in Nat
           /\ \A i \in P : Cardinality(UpTo(P, i)) \in 1 .. Cardinality(P)
           /\ \A k \in 1 .. Cardinality(P) : \E i \in P : Cardinality(UpTo(P, i)) = k
           /\ \A i, j \in P : Cardinality(UpTo(P, i)) < Cardinality(UpTo(P, j)) => i < j
           /\ \A i, j \in P : Cardinality(UpTo(P, i)) = Cardinality(UpTo(P, j)) => i = j
<1>1. IsFiniteSet(P) /\ P \subseteq Nat
  <2>1. IsFiniteSet(1 .. n)
    BY FS_Interval
  <2>2. IsFiniteSet(P)
    BY <2>1, FS_Subset
  <2>3. \A x \in 1 .. n : x \in Nat
    OBVIOUS
  <2>4. QED
    BY <2>2, <2>3
<1>a. \A x \in P : x \in Nat /\ 1 <= x /\ x <= n
  <2>1. \A x \in 1 .. n : x \in Nat /\ 1 <= x /\ x <= n
    OBVIOUS
  <2>2. QED
    BY <2>1
<1>b. \A i, x : x \in UpTo(P, i) <=> x \in P /\ x <= i
  BY DEF UpTo
<1>2. \A i : /\ IsFiniteSet(UpTo(P, i)) /\ Cardinality(UpTo(P, i)) \in Nat
            /\ Cardinality(UpTo(P, i)) <= Cardinality(P)
  <2> TAKE i
  <2>1. UpTo(P, i) \in SUBSET P
    BY DEF UpTo
  <2>2. QED
    BY <2>1, <1>1, FS_Subset, FS_CardinalityType
<1>3. Cardinality(P) \in Nat
  BY <1>1, FS_CardinalityType
<1>4. \A i, j \in P : i <= j => Cardinality(UpTo(P, i)) <= Cardinality(UpTo(P, j))
  <2> TAKE i, j \in P
  <2> HAVE i <= j
  <2>1. UpTo(P, i) \in SUBSET UpTo(P, j)
    <3> SUFFICES ASSUME NEW x \in UpTo(P, i) PROVE x \in UpTo(P, j)
      OBVIOUS
    <3>1. x \in P /\ x <= i
      BY <1>b
    <3>2. x <= j
      BY <3>1, <1>a
    <3>3. QED
      BY <3>1, <3>2, <1>b
  <2>2. QED
    BY <2>1, <1>2, FS_Subset
<1>5. \A i, j \in P : i < j => Cardinality(UpTo(P, i)) # Cardinality(UpTo(P, j))
  <2> SUFFICES ASSUME NEW i \in P, NEW j \in P, i < j,
                      Cardinality(UpTo(P, i)) = Cardinality(UpTo(P, j))
               PROVE  FALSE
    OBVIOUS
  <2>1. UpTo(P, i) \in SUBSET UpTo(P, j)
    <3> SUFFICES ASSUME NEW x \in UpTo(P, i) PROVE x \in UpTo(P, j)
      OBVIOUS
    <3>1. x \in P /\ x <= i
      BY <1>b
    <3>2. x <= j
      BY <3>1, <1>a
    <3>3. QED
      BY <3>1, <3>2, <1>b
  <2>2. UpTo(P, i) = UpTo(P, j)
    BY <2>1, <1>2, FS_Subset
  <2>3. j \in UpTo(P, j) /\ j \notin UpTo(P, i)
    BY <1>1 DEF UpTo
  <2>4. QED
    BY <2>2, <2>3
<1>6. \A i \in P : Cardinality(UpTo(P, i)) \in 1 .. Cardinality(P)
  <2> TAKE i \in P
  <2>1. UpTo(P, i) # {}
    BY <1>1 DEF UpTo
  <2>2. Cardinality(UpTo(P, i)) # 0
    BY <2>1, <1>2, FS_EmptySet
  <2>3. QED
    BY <2>2, <1>2, <1>3
<1>7. ASSUME NEW k \in 1 .. Cardinality(P)
      PROVE  \E i \in P : Cardinality(UpTo(P, i)) = k
  <2> DEFINE M == {m \in Nat : Cardinality(UpTo(P, m)) >= k}
  <2>1. UpTo(P, n) = P /\ UpTo(P, 0) = {}
    <3>1. \A x : x \in UpTo(P, n) <=> x \in P
      BY <1>a, <1>b
    <3>2. \A x : x \notin UpTo(P, 0)
      <4> SUFFICES ASSUME NEW x, x \in P, x <= 0 PROVE FALSE
        BY <1>b
      <4>1. QED
        BY <1>a
    <3>3. UpTo(P, n) = P
      BY <3>1
    <3>4. UpTo(P, 0) = {}
      BY <3>2
    <3>5. QED
      BY <3>3, <3>4
  <2>2. n \in M /\ M \subseteq Nat
    BY <2>1, <1>3
  <2>3. PICK m \in M : \A y \in M : ~(<<y, m>> \in OpToRel(<, Nat))
    BY <2>2, NatLessThanWellFounded, WFMin
  <2>4. \A y \in M : ~(y < m)
    <3> SUFFICES ASSUME NEW y \in M, y < m PROVE FALSE
      OBVIOUS
    <3>1. <<y, m>> \in OpToRel(<, Nat)
      BY DEF OpToRel
    <3>2. QED
      BY <3>1, <2>3
  <2>5. m \in Nat /\ Cardinality(UpTo(P, m)) >= k
    OBVIOUS
  <2>6. m # 0
    <3>1. Cardinality(UpTo(P, 0)) = 0
      BY <2>1, FS_EmptySet
    <3>2. QED
      BY <3>1, <2>5, <1>3
  <2>7. m - 1 \in Nat /\ m - 1 < m
    BY <2>5, <2>6
  <2>8. Cardinality(UpTo(P, m - 1)) < k
    <3>1. m - 1 \notin M
      BY <2>4, <2>7
    <3>2. QED
      BY <3>1, <2>7, <1>2, <1>3
  <2>9. CASE m \notin P
    <3>1. UpTo(P, m) = UpTo(P, m - 1)
      <4>1. ASSUME NEW x PROVE x \in UpTo(P, m) <=> x \in UpTo(P, m - 1)
        <5>1. ASSUME x \in P PROVE x <= m <=> x <= m - 1
          <6>1. x \in Nat /\ m \in Nat /\ x # m
            BY <5>1, <2>5, <2>9, <1>a
          <6>2. QED
            BY <6>1
        <5>2. QED
          BY <5>1, <1>b
      <4>2. QED
        BY <4>1
    <3>2. QED
      BY <3>1, <2>5, <2>8, <1>2, <1>3
  <2>10. CASE m \in P
    <3>1. UpTo(P, m) = UpTo(P, m - 1) \cup {m} /\ m \notin UpTo(P, m - 1)
      <4>1. ASSUME NEW x PROVE x \in UpTo(P, m) <=> x \in UpTo(P, m - 1) \/ x = m
        <5>1. ASSUME x \in P PROVE x <= m <=> x <= m - 1 \/ x = m
          <6>1. x \in Nat /\ m \in Nat
            BY <5>1, <2>5, <1>a
          <6>2. QED
            BY <6>1
        <5>2. QED
          BY <5>1, <2>10, <1>b
      <4>2. UpTo(P, m) = UpTo(P, m - 1) \cup {m}
        BY <4>1
      <4>3. m \notin UpTo(P, m - 1)
        <5>1. ~ (m <= m - 1)
          BY <2>5
        <5>2. QED
          BY <5>1, <1>b
      <4>4. QED
        BY <4>2, <4>3
    <3>2. Cardinality(UpTo(P, m)) = Cardinality(UpTo(P, m - 1)) + 1
      BY <3>1, <1>2, FS_AddElement
    <3>3. Cardinality(UpTo(P, m)) = k
      BY <3>2, <2>5, <2>8, <1>2, <1>3
    <3>4. QED
      BY <3>3, <2>10
  <2>11. QED
    BY <2>9, <2>10
<1>8. \A i, j \in P : /\ Cardinality(UpTo(P, i)) < Cardinality(UpTo(P, j)) => i < j
                      /\ Cardinality(UpTo(P, i)) = Cardinality(UpTo(P, j)) => i = j
  <2> TAKE i, j \in P
  <2>1. i \in Nat /\ j \in Nat
    BY <1>1
  <2>2. /\ j <= i => Cardinality(UpTo(P, j)) <= Cardinality(UpTo(P, i))
        /\ i < j => Cardinality(UpTo(P, i)) # Cardinality(UpTo(P, j))
        /\ j < i => Cardinality(UpTo(P, j)) # Cardinality(UpTo(P, i))
    BY <1>4, <1>5
  <2>3. QED
    BY <2>1, <2>2, <1>2
<1>9. QED
  BY <1>3, <1>6, <1>7, <1>8

\* load_transfers gives the entries that load, each once, in the order of the
\* index file.
LEMMA LoadFacts ==
    ASSUME RecordingTypeOK
    PROVE  /\ Len(LoadTransfers) \in Nat /\ DOMAIN LoadTransfers = 1 .. Len(LoadTransfers)
           /\ \A k \in DOMAIN LoadTransfers :
                  \E i \in DOMAIN index : Loads(i) /\ LoadTransfers[k] = Loaded(i)
           /\ \A k, l \in DOMAIN LoadTransfers : k < l =>
                  \E i, j \in DOMAIN index : /\ i < j
                                            /\ LoadTransfers[k] = Loaded(i)
                                            /\ LoadTransfers[l] = Loaded(j)
           /\ \A i \in DOMAIN index : Loads(i) =>
                  \E k \in DOMAIN LoadTransfers : LoadTransfers[k] = Loaded(i)
<1> DEFINE P == {i \in DOMAIN index : Loads(i)}
           Nth(k) == CHOOSE i \in P : Cardinality(UpTo(P, i)) = k
<1>1. Len(index) \in Nat /\ DOMAIN index = 1 .. Len(index)
  BY RecordingFacts
<1>2. P \in SUBSET (1 .. Len(index))
  BY <1>1
<1>3. LoadTransfers = [k \in 1 .. Cardinality(P) |-> Loaded(Nth(k))]
  BY DEF LoadTransfers, UpTo
<1>4. /\ Cardinality(P) \in Nat
      /\ \A i \in P : Cardinality(UpTo(P, i)) \in 1 .. Cardinality(P)
      /\ \A k \in 1 .. Cardinality(P) : \E i \in P : Cardinality(UpTo(P, i)) = k
      /\ \A i, j \in P : Cardinality(UpTo(P, i)) < Cardinality(UpTo(P, j)) => i < j
      /\ \A i, j \in P : Cardinality(UpTo(P, i)) = Cardinality(UpTo(P, j)) => i = j
  <2> HIDE DEF P
  <2>1. QED
    BY <1>1, <1>2, Counting
<1>5. \A i \in P : i \in DOMAIN index /\ Loads(i)
  OBVIOUS
<1>6. \A i \in DOMAIN index : Loads(i) => i \in P
  OBVIOUS
<1> HIDE DEF P
<1>7. \A k \in 1 .. Cardinality(P) : Nth(k) \in P /\ Cardinality(UpTo(P, Nth(k))) = k
  BY <1>4
<1> HIDE DEF Nth
<1>8. /\ DOMAIN LoadTransfers = 1 .. Cardinality(P)
      /\ \A k \in 1 .. Cardinality(P) : LoadTransfers[k] = Loaded(Nth(k))
  BY <1>3
<1>9. Len(LoadTransfers) = Cardinality(P)
  BY <1>3, <1>4
<1>10. ASSUME NEW k \in 1 .. Cardinality(P), NEW l \in 1 .. Cardinality(P), k < l
       PROVE  \E i, j \in DOMAIN index : /\ i < j
                                         /\ LoadTransfers[k] = Loaded(i)
                                         /\ LoadTransfers[l] = Loaded(j)
  <2>1. Nth(k) \in P /\ Nth(l) \in P /\ Nth(k) < Nth(l)
    BY <1>4, <1>7, <1>10
  <2>2. QED
    BY <2>1, <1>5, <1>8
<1>11. ASSUME NEW i \in DOMAIN index, Loads(i)
       PROVE  \E k \in 1 .. Cardinality(P) : LoadTransfers[k] = Loaded(i)
  <2>1. i \in P
    BY <1>6, <1>11
  <2>2. PICK k \in 1 .. Cardinality(P) : k = Cardinality(UpTo(P, i))
    BY <2>1, <1>4
  <2>3. Nth(k) = i
    BY <2>1, <2>2, <1>4, <1>7
  <2>4. QED
    BY <2>3, <1>8
<1>12. QED
  BY <1>4, <1>5, <1>7, <1>8, <1>9, <1>10, <1>11

\* What load_transfers makes of one entry: bytes, and those of the record
\* unless a write of it failed.
LEMMA LoadedFacts ==
    ASSUME RecordingTypeOK, Placed, Ordered, NEW i \in DOMAIN index
    PROVE  /\ Loaded(i).id = index[i].id
           /\ Copied(Loaded(i))
           /\ index[i].id \notin failed /\ Parsed(i) => Loads(i)
<1> DEFINE r == index[i].id
           t == taken[r]
<1>1. /\ r \in DOMAIN taken /\ r \in Ids /\ t.len \in Nat /\ t.iso \in Nat
      /\ index[i].offset \in Int /\ index[i].iso \in Int
  <2>1. index[i] \in Entries /\ r <= Len(taken)
    BY RecordingFacts DEF Ordered
  <2>2. r \in DOMAIN taken /\ r \in Ids /\ index[i].offset \in Int /\ index[i].iso \in Int
    BY <2>1, RecordingFacts DEF Entries, Ids
  <2>3. QED
    BY <2>2, RecordingFacts
<1>2. /\ Loaded(i).id = r /\ Loaded(i).ep = t.ep
      /\ Loaded(i).data = ReadBytes(index[i].offset, t.len)
      /\ Loaded(i).iso = IF t.iso = 0 THEN <<>> ELSE ReadBytes(index[i].iso, t.iso)
  BY DEF Loaded
<1>3. payload \in Seq(Byte) /\ Played = Seq(Byte)
  BY RecordingFacts DEF Played, Byte
<1>4. /\ ReadBytes(index[i].offset, t.len) \in Seq(Byte)
      /\ ReadBytes(index[i].iso, t.iso) \in Seq(Byte)
  BY <1>1, <1>3, ReadingType
<1>5. Data(r) = Buffer(r, t) /\ Iso(r) = IsoBytes(r, t.iso)
  BY DEF Data, Iso, IsoBytes
<1>6. /\ Buffer(r, t) \in Seq(Byte) /\ Len(Buffer(r, t)) = t.len
      /\ IsoBytes(r, t.iso) \in Seq(Byte) /\ Len(IsoBytes(r, t.iso)) = t.iso
  BY <1>1, BufferFacts, IsoFacts
<1>7. ASSUME r \notin failed
      PROVE  /\ ReadBytes(index[i].offset, t.len) = Data(r)
             /\ Loaded(i).iso = Iso(r)
  <2>1. /\ Stands(payload, index[i].offset, Buffer(r, t))
        /\ Stands(payload, index[i].iso, IsoBytes(r, t.iso))
    BY <1>7 DEF Placed, HasData, HasIso
  <2> HIDE DEF r, t
  <2>2. ReadBytes(index[i].offset, Len(Buffer(r, t))) = Buffer(r, t)
    BY <2>1, <1>1, <1>3, <1>6, Reading
  <2>3. ReadBytes(index[i].iso, Len(IsoBytes(r, t.iso))) = IsoBytes(r, t.iso)
    BY <2>1, <1>1, <1>3, <1>6, Reading
  <2>4. t.iso = 0 => IsoBytes(r, t.iso) = <<>>
    BY <1>6, EmptySeq
  <2>5. QED
    BY <2>2, <2>3, <2>4, <1>2, <1>5, <1>6
<1>8. r \notin failed /\ Parsed(i) => Loads(i)
  BY <1>5, <1>6, <1>7 DEF Loads
<1>9. Copied(Loaded(i))
  <2>1. Loaded(i).data \in Played /\ Loaded(i).iso \in Played
    <3>1. <<>> \in Seq(Byte)
      OBVIOUS
    <3>2. QED
      BY <3>1, <1>2, <1>3, <1>4
  <2>2. r \notin failed => Loaded(i).data = Data(r) /\ Loaded(i).iso = Iso(r)
    BY <1>2, <1>7
  <2>3. QED
    BY <2>1, <2>2, <1>1, <1>2 DEF Copied
<1>10. QED
  BY <1>2, <1>8, <1>9

-----------------------------------------------------------------------------
(* What the recorder's invariant says of a recording that is loaded now. *)

LEMMA FaithfulNow ==
    ASSUME RecorderInv
    PROVE  /\ PlaybackFaithful
           /\ \A k \in DOMAIN LoadTransfers : Copied(LoadTransfers[k])
<1>1. RecordingTypeOK /\ Placed /\ Ordered
  BY DEF RecorderInv
<1>2. ASSUME NEW k \in DOMAIN LoadTransfers
      PROVE  Copied(LoadTransfers[k])
  <2>1. PICK i \in DOMAIN index : LoadTransfers[k] = Loaded(i)
    BY <1>1, LoadFacts
  <2>2. Copied(Loaded(i))
    BY <1>1, LoadedFacts
  <2>3. QED
    BY <2>1, <2>2
<1>3. QED
  BY <1>2 DEF PlaybackFaithful, Copied

LEMMA InOrderNow == ASSUME RecorderInv PROVE RecordedInOrder
<1>1. RecordingTypeOK /\ Placed /\ Ordered
  BY DEF RecorderInv
<1>2. ASSUME NEW k \in DOMAIN LoadTransfers, NEW l \in DOMAIN LoadTransfers, k < l
      PROVE  LoadTransfers[k].id < LoadTransfers[l].id
  <2>1. PICK i, j \in DOMAIN index : /\ i < j
                                     /\ LoadTransfers[k] = Loaded(i)
                                     /\ LoadTransfers[l] = Loaded(j)
    BY <1>1, <1>2, LoadFacts
  <2>2. Loaded(i).id = index[i].id /\ Loaded(j).id = index[j].id
    BY <1>1, LoadedFacts
  <2>3. index[i].id < index[j].id
    BY <1>1, <2>1 DEF Ordered
  <2>4. QED
    BY <2>1, <2>2, <2>3
<1>3. QED
  BY <1>2 DEF RecordedInOrder

LEMMA RememberedNow == ASSUME RecorderInv PROVE NothingForgotten
<1>1. RecordingTypeOK /\ Placed /\ Ordered /\ Kept
  BY DEF RecorderInv
<1>2. SUFFICES ASSUME session = "off", NEW r \in DOMAIN taken \ (failed \cup lost)
               PROVE  \/ \E k \in DOMAIN LoadTransfers : LoadTransfers[k].id = r
                      \/ \E i \in DOMAIN index : index[i].id = r /\ ~Parsed(i)
  BY DEF NothingForgotten
<1>3. Queued = {} /\ writer.id = NoRecord
  BY <1>1, <1>2 DEF Kept, Queued
<1>4. r # NoRecord
  BY <1>1, RecordingFacts
<1>5. PICK i \in DOMAIN index : index[i].id = r
  BY <1>1, <1>3, <1>4 DEF Kept
<1>6. CASE Parsed(i)
  <2>1. Loads(i) /\ Loaded(i).id = r
    BY <1>1, <1>5, <1>6, LoadedFacts
  <2>2. QED
    BY <1>1, <2>1, LoadFacts
<1>7. CASE ~Parsed(i)
  BY <1>5, <1>7
<1>8. QED
  BY <1>6, <1>7

\* The recorder's invariant is inductive, whatever the playback device does.
LEMMA RecorderInvStep ==
    ASSUME RecorderInv, RecordingNext \/ UNCHANGED recorderVars
    PROVE  RecorderInv'
<1>1. CASE RecordingNext
  BY <1>1, RecordingTypeStep, PlacedStep, OrderedStep, KeptStep DEF RecorderInv
<1>2. CASE UNCHANGED recorderVars
  BY <1>2 DEF RecorderInv, RecordingTypeOK, Placed, Ordered, Kept, Queued, recorderVars
<1>3. QED
  BY <1>1, <1>2

LEMMA RecorderInvInit == ASSUME RecordingInit PROVE RecorderInv
<1>1. RecordingTypeOK
  <2>1. WriterAt("gone") \in [pc : {"open", "check", "asleep", "payload", "iso", "line", "gone"},
                              id : Ids \cup {NoRecord}, offset : Int, iso : Int]
    BY DEF WriterAt
  <2>2. /\ taken \in Seq(Shapes) /\ Len(taken) <= MaxRecords /\ queue \in Seq(Ids)
        /\ index \in Seq(Entries)
    BY RecordingBoundsAssumption DEF RecordingInit
  <2>3. payload \in Seq(Ids \X {"data", "rest", "iso"} \X Nat)
    BY DEF RecordingInit
  <2>4. sessions \in 0 .. MaxSessions
    BY RecordingBoundsAssumption DEF RecordingInit
  <2>5. QED
    BY <2>1, <2>2, <2>3, <2>4 DEF RecordingInit, RecordingTypeOK
<1>2. /\ writer.pc = "gone" /\ writer.id = NoRecord /\ Len(taken) = 0
      /\ DOMAIN index = {} /\ DOMAIN queue = {} /\ DOMAIN taken = {}
  BY DEF RecordingInit, WriterAt
<1>3. Placed
  BY <1>2 DEF Placed
<1>4. Ordered
  BY <1>2 DEF Ordered, NoRecord
<1>5. Kept
  BY <1>2 DEF Kept, RecordingInit
<1>6. QED
  BY <1>1, <1>3, <1>4, <1>5 DEF RecorderInv

-----------------------------------------------------------------------------
(* The theorems about the recording. *)

\* Every step of the two plugins keeps the recorder's invariant.
THEOREM RecorderInvTheorem == Spec => []RecorderInv
<1>1. Init => RecorderInv
  BY RecorderInvInit DEF Init
<1>2. RecorderInv /\ [Next]_vars => RecorderInv'
  <2> SUFFICES ASSUME RecorderInv, [Next]_vars PROVE RecorderInv'
    OBVIOUS
  <2>1. RecordingNext \/ UNCHANGED recorderVars
    BY DEF Next, vars, Recorder, PlugPlayer, RequestTransfer, UnplugPlayer, JoinPlayer,
           PlaybackThread, GetNextRecord, Pair
  <2>2. QED
    BY <2>1, RecorderInvStep
<1>3. QED
  BY <1>1, <1>2, PTL DEF Spec

\* Whatever the files have gone through, a record that read_payload and
\* read_iso_descriptors give back is the one that was recorded, unless a write
\* of it failed.
THEOREM PlaybackFaithfulTheorem == Spec => []PlaybackFaithful
<1>1. RecorderInv => PlaybackFaithful
  BY FaithfulNow
<1>2. QED
  BY <1>1, RecorderInvTheorem, PTL

\* The recording has the transfers in the order of their completion, each once.
THEOREM RecordedInOrderTheorem == Spec => []RecordedInOrder
<1>1. RecorderInv => RecordedInOrder
  BY InOrderNow
<1>2. QED
  BY <1>1, RecorderInvTheorem, PTL

\* Once ~transfer_recorder is done, every transfer that no failure or crash hit
\* is in the recording, or shares its line with an entry left unterminated.
THEOREM NothingForgottenTheorem == Spec => []NothingForgotten
<1>1. RecorderInv => NothingForgotten
  BY RememberedNow
<1>2. QED
  BY <1>1, RecorderInvTheorem, PTL

-----------------------------------------------------------------------------
(* The playback device. *)

LEMMA PlayingFacts ==
    ASSUME PlaybackTypeOK, Playing
    PROVE  /\ Len(records) \in Nat /\ DOMAIN records = 1 .. Len(records)
           /\ \A k \in DOMAIN records : Copied(records[k]) /\ records[k].id \in Ids
           /\ pos \in Nat /\ pos >= 1
           /\ delivered \in Seq(Deliveries) /\ Len(delivered) \in Nat
           /\ DOMAIN delivered = 1 .. Len(delivered)
           /\ input \in Seq(Lengths)
<1>1. Len(records) \in Nat /\ DOMAIN records = 1 .. Len(records)
  BY DEF Playing
<1>2. pos \in Nat /\ pos >= 1
  <2>1. pos = 1 \/ pos \in 1 .. Len(records)
    BY <1>1 DEF PlaybackTypeOK
  <2>2. QED
    BY <1>1, <2>1
<1>3. delivered \in Seq(Deliveries) /\ input \in Seq(Lengths)
  BY DEF PlaybackTypeOK
<1>4. Len(delivered) \in Nat /\ DOMAIN delivered = 1 .. Len(delivered)
  BY <1>3
<1>5. QED
  BY <1>1, <1>2, <1>3, <1>4 DEF PlaybackTypeOK, Playing

\* Transfers that completed keep their shape, and what failed stays failed.
LEMMA RecorderGrows ==
    ASSUME RecorderInv, RecordingNext \/ UNCHANGED recorderVars
    PROVE  /\ \A r \in DOMAIN taken : r \in DOMAIN taken' /\ taken'[r] = taken[r]
           /\ failed \subseteq failed'
<1>1. CASE \E shape \in Shapes : RecordTransfer(shape)
  <2>1. PICK shape \in Shapes : RecordTransfer(shape)
    BY <1>1
  <2>2. taken' = Append(taken, shape) /\ failed' = failed
    BY <2>1 DEF RecordTransfer
  <2>3. taken \in Seq(Shapes)
    BY DEF RecorderInv, RecordingTypeOK
  <2>4. QED
    BY <2>2, <2>3, AppendProperties
<1>2. CASE UNCHANGED taken /\ failed \subseteq failed'
  BY <1>2
<1>3. UNCHANGED recorderVars => UNCHANGED taken /\ failed \subseteq failed'
  BY DEF recorderVars
<1>4. RecordingNext => (\E shape \in Shapes : RecordTransfer(shape))
                       \/ (UNCHANGED taken /\ failed \subseteq failed')
  BY DEF RecordingNext, Plug, Shutdown, Notify, JoinWriter, WriterThread, Open, TakeRecord,
         DropRecord, WriteData, WriteIso, WriteLine, WakeUp, Crash, Put
<1>5. QED
  BY <1>1, <1>2, <1>3, <1>4

\* What was copied from a recording stays a copy while the recorder goes on.
LEMMA CopiedStays ==
    ASSUME NEW r, Copied(r), failed \subseteq failed',
           \A t \in DOMAIN taken : t \in DOMAIN taken' /\ taken'[t] = taken[t]
    PROVE  /\ r.id \in DOMAIN taken' /\ r.ep = taken'[r.id].ep
           /\ r.id \notin failed' => /\ r.data = Buffer(r.id, taken'[r.id])
                                     /\ r.iso = [i \in 1 .. taken'[r.id].iso |-> <<r.id, "iso", i>>]
<1>1. r.id \in DOMAIN taken /\ taken'[r.id] = taken[r.id] /\ r.id \in DOMAIN taken'
  BY DEF Copied
<1>2. QED
  BY <1>1 DEF Copied, Data, Iso

LEMMA RecorderKeepsPlayer ==
    ASSUME Inv, RecordingNext \/ UNCHANGED recorderVars, UNCHANGED playerVars
    PROVE  Inv'
<1>1. /\ RecorderInv /\ PlaybackTypeOK /\ Playing /\ HostGetsRecorded
      /\ UNCHANGED <<player, records, pos, loop, input, requested, delivered>>
  BY DEF Inv, playerVars
<1>2. RecorderInv'
  BY <1>1, RecorderInvStep
<1>3. /\ \A r \in DOMAIN taken : r \in DOMAIN taken' /\ taken'[r] = taken[r]
      /\ failed \subseteq failed'
  BY <1>1, RecorderGrows
<1>4. PlaybackTypeOK'
  BY <1>1, <1>2 DEF PlaybackTypeOK, RecorderInv
<1>5. Playing'
  <2>1. ASSUME NEW k \in DOMAIN records PROVE Copied(records[k])'
    <3>1. Copied(records[k])
      BY <1>1 DEF Playing
    <3>2. /\ records[k].id \in DOMAIN taken' /\ records[k].ep = taken'[records[k].id].ep
          /\ records[k].id \notin failed' =>
                /\ records[k].data = Buffer(records[k].id, taken'[records[k].id])
                /\ records[k].iso = [i \in 1 .. taken'[records[k].id].iso |-> <<records[k].id, "iso", i>>]
      BY <3>1, <1>3, CopiedStays
    <3>3. QED
      BY <3>1, <3>2, <1>1 DEF Copied, Data, Iso
  <2>2. QED
    BY <2>1, <1>1, <1>3 DEF Playing
<1>6. HostGetsRecorded'
  <2>1. ASSUME NEW d \in DOMAIN delivered, delivered[d].id \notin failed' \cup {NoRecord}
        PROVE  LET got == delivered[d]
               IN  /\ taken'[got.id].ep = Endpoint
                   /\ got.data = SubSeq(Buffer(got.id, taken'[got.id]),
                                        1, Least(got.length, taken'[got.id].len))
                   /\ got.iso = [i \in 1 .. taken'[got.id].iso |-> <<got.id, "iso", i>>]
    <3>1. delivered[d].id \in DOMAIN taken /\ taken'[delivered[d].id] = taken[delivered[d].id]
      BY <1>1, <1>3, <2>1 DEF Playing
    <3>2. /\ taken[delivered[d].id].ep = Endpoint
          /\ delivered[d].data = SubSeq(Data(delivered[d].id), 1,
                                        Least(delivered[d].length, taken[delivered[d].id].len))
          /\ delivered[d].iso = Iso(delivered[d].id)
      BY <1>1, <1>3, <2>1 DEF HostGetsRecorded
    <3>3. QED
      BY <3>1, <3>2 DEF Data, Iso
  <2>2. QED
    BY <1>1, <2>1 DEF HostGetsRecorded, Data, Iso
<1>7. QED
  BY <1>2, <1>4, <1>5, <1>6 DEF Inv

\* PlugPlayer has records the way they stand in the files.
LEMMA PlugStep == ASSUME Inv, PlugPlayer PROVE Inv'
<1>1. /\ RecorderInv /\ PlaybackTypeOK /\ Playing /\ HostGetsRecorded /\ RecordingTypeOK
      /\ player = "off" /\ player' = "running" /\ loop' = "get" /\ records' = LoadTransfers
      /\ UNCHANGED <<recorderVars, pos, input, requested, delivered>>
  BY DEF Inv, PlugPlayer, RecorderInv
<1>2. /\ UNCHANGED recorderVars /\ UNCHANGED <<taken, failed>>
      /\ UNCHANGED <<pos, input, requested, delivered>>
  BY <1>1 DEF recorderVars
<1>3. RecorderInv'
  BY <1>1, <1>2, RecorderInvStep
<1>4. /\ \A k \in DOMAIN records' : Copied(records'[k])
      /\ DOMAIN records' = 1 .. Len(records') /\ Len(records') \in Nat
  BY <1>1, FaithfulNow, LoadFacts
<1>5. \A k \in DOMAIN records' : records'[k].id \in Ids
  BY <1>1, <1>4, RecordingFacts DEF Copied
<1>6. pos' = 1
  BY <1>1, <1>2 DEF Playing
<1>7. PlaybackTypeOK'
  <2>1. RecordingTypeOK'
    BY <1>3 DEF RecorderInv
  <2>2. QED
    BY <1>1, <1>2, <1>5, <1>6, <2>1 DEF PlaybackTypeOK
<1>8. Playing'
  BY <1>1, <1>2, <1>4 DEF Playing, Copied, Data, Iso
<1>9. HostGetsRecorded'
  BY <1>1, <1>2, SMTT(30) DEF HostGetsRecorded, Data, Iso
<1>10. QED
  BY <1>3, <1>7, <1>8, <1>9 DEF Inv

\* The index stays inside the records.
LEMMA NextIndexFacts ==
    ASSUME NEW n \in Nat \ {0}, NEW p \in Nat
    PROVE  (p % n) + 1 \in 1 .. n
  OBVIOUS

\* A transfer is completed with the beginning of the record.
LEMMA DeliveryFacts ==
    ASSUME RecordingTypeOK, NEW r, Copied(r), NEW n \in Lengths
    PROVE  LET got == Delivery(r, n)
           IN  /\ got \in Deliveries
               /\ got.id \in DOMAIN taken \cup {NoRecord}
               /\ got.id \notin failed \cup {NoRecord} =>
                    /\ taken[got.id].ep = Endpoint
                    /\ got.data = SubSeq(Data(got.id), 1, Least(got.length, taken[got.id].len))
                    /\ got.iso = Iso(got.id)
<1>1. /\ r.id \in DOMAIN taken /\ r.ep = taken[r.id].ep /\ r.id \in Ids
      /\ r.data \in Played /\ r.iso \in Played /\ n \in Nat /\ taken[r.id].len \in Nat
      /\ r.id \notin failed => r.data = Data(r.id) /\ r.iso = Iso(r.id)
  BY RecordingFacts, PlaybackAssumption DEF Copied
<1>2. CASE r.ep # Endpoint
  <2>1. Delivery(r, n) = [id |-> NoRecord, length |-> n, data |-> <<>>, iso |-> <<>>]
    BY <1>2 DEF Delivery
  <2>2. <<>> \in Played
    BY DEF Played
  <2>3. QED
    BY <2>1, <2>2 DEF Deliveries
<1>3. CASE r.ep = Endpoint
  <2> DEFINE m == Least(n, Len(r.data))
  <2>1. Delivery(r, n) = [id |-> r.id, length |-> n, data |-> SubSeq(r.data, 1, m), iso |-> r.iso]
    BY <1>3 DEF Delivery
  <2>2. Len(r.data) \in Nat
    BY <1>1 DEF Played
  <2>3. m \in 0 .. Len(r.data)
    BY <1>1, <2>2 DEF Least
  <2>4. SubSeq(r.data, 1, m) \in Played
    <3> HIDE DEF m
    <3>1. QED
      BY <1>1, <2>3, Beginning DEF Played
  <2>5. Delivery(r, n) \in Deliveries
    BY <1>1, <2>1, <2>4 DEF Deliveries
  <2>6. r.id \notin failed => Len(r.data) = taken[r.id].len
    <3>1. Data(r.id) = Buffer(r.id, taken[r.id])
      BY DEF Data
    <3>2. QED
      BY <1>1, <3>1, BufferFacts, IsoFacts
  <2>7. ASSUME r.id \notin failed
        PROVE  SubSeq(r.data, 1, m) = SubSeq(Data(r.id), 1, Least(n, taken[r.id].len))
    BY <1>1, <2>6, <2>7
  <2> HIDE DEF m
  <2>8. /\ Delivery(r, n).id = r.id /\ Delivery(r, n).length = n
        /\ Delivery(r, n).data = SubSeq(r.data, 1, m) /\ Delivery(r, n).iso = r.iso
    BY <1>3 DEF Delivery, m
  <2>9. QED
    BY <1>1, <1>3, <2>5, <2>7, <2>8
<1>4. QED
  BY <1>2, <1>3

LEMMA PairStep == ASSUME Inv, Pair PROVE Inv'
<1>1. /\ RecorderInv /\ PlaybackTypeOK /\ Playing /\ HostGetsRecorded /\ RecordingTypeOK
      /\ loop = "pair" /\ loop' = "get" /\ pos' = NextIndex
      /\ UNCHANGED <<recorderVars, player, records, requested>>
  BY DEF Inv, Pair, RecorderInv
<1>2. /\ UNCHANGED recorderVars /\ UNCHANGED <<taken, failed>>
      /\ UNCHANGED <<player, records, requested>>
  BY <1>1 DEF recorderVars
<1>3. RecorderInv'
  BY <1>1, <1>2, RecorderInvStep
<1>4. /\ Len(records) \in Nat /\ DOMAIN records = 1 .. Len(records) /\ pos \in Nat
      /\ \A k \in DOMAIN records : Copied(records[k])
      /\ delivered \in Seq(Deliveries) /\ Len(delivered) \in Nat
      /\ DOMAIN delivered = 1 .. Len(delivered) /\ input \in Seq(Lengths)
  BY <1>1, PlayingFacts
<1>5. Len(records) # 0 /\ pos \in DOMAIN records
  <2>1. records # <<>>
    BY <1>1 DEF Playing
  <2>2. Len(records) # 0
    <3> SUFFICES ASSUME Len(records) = 0 PROVE FALSE
      OBVIOUS
    <3>1. DOMAIN records = {} /\ records = [k \in DOMAIN records |-> records[k]]
      BY <1>4, <1>1 DEF Playing
    <3>2. QED
      BY <2>1, <3>1
  <2>3. QED
    BY <1>1, <1>4, <2>2 DEF PlaybackTypeOK
<1>6. pos' \in DOMAIN records'
  <2>1. (pos % Len(records)) + 1 \in 1 .. Len(records)
    BY <1>4, <1>5, NextIndexFacts
  <2>2. QED
    BY <1>1, <1>2, <1>4, <2>1 DEF NextIndex
<1>7. CASE input = <<>>
  <2>1. UNCHANGED <<input, delivered>>
    BY <1>7 DEF Pair
  <2>2. PlaybackTypeOK'
    BY <1>1, <1>2, <1>3, <1>6, <2>1 DEF PlaybackTypeOK, RecorderInv
  <2>3. Playing'
    BY <1>1, <1>2, <2>1 DEF Playing, Copied, Data, Iso
  <2>4. HostGetsRecorded'
    BY <1>1, <1>2, <2>1 DEF HostGetsRecorded, Data, Iso
  <2>5. QED
    BY <1>3, <2>2, <2>3, <2>4 DEF Inv
<1>8. CASE input # <<>>
  <2> DEFINE got == Delivery(records[pos], Head(input))
  <2>1. input' = Tail(input) /\ delivered' = Append(delivered, got)
    BY <1>8 DEF Pair
  <2>2. Head(input) \in Lengths /\ Tail(input) \in Seq(Lengths)
    BY <1>4, <1>8
  <2>3. /\ got \in Deliveries
        /\ got.id \in DOMAIN taken \cup {NoRecord}
        /\ got.id \notin failed \cup {NoRecord} =>
             /\ taken[got.id].ep = Endpoint
             /\ got.data = SubSeq(Data(got.id), 1, Least(got.length, taken[got.id].len))
             /\ got.iso = Iso(got.id)
    BY <1>1, <1>4, <1>5, <2>2, DeliveryFacts
  <2> HIDE DEF got
  <2>4. /\ delivered' \in Seq(Deliveries) /\ DOMAIN delivered' = 1 .. (Len(delivered) + 1)
        /\ \A d \in 1 .. Len(delivered) : delivered'[d] = delivered[d]
        /\ delivered'[Len(delivered) + 1] = got
    <3>1. /\ Append(delivered, got) \in Seq(Deliveries)
          /\ Len(Append(delivered, got)) = Len(delivered) + 1
          /\ \A d \in 1 .. Len(delivered) : Append(delivered, got)[d] = delivered[d]
          /\ Append(delivered, got)[Len(delivered) + 1] = got
      BY <1>4, <2>3, AppendProperties
    <3>2. DOMAIN Append(delivered, got) = 1 .. (Len(delivered) + 1)
      BY <3>1
    <3>3. QED
      BY <2>1, <3>1, <3>2
  <2>5. \A d \in DOMAIN delivered' : d \in DOMAIN delivered \/ d = Len(delivered) + 1
    BY <1>4, <2>4
  <2>6. PlaybackTypeOK'
    BY <1>1, <1>2, <1>3, <1>6, <2>1, <2>2, <2>4 DEF PlaybackTypeOK, RecorderInv
  <2>7. Playing'
    <3>1. \A d \in DOMAIN delivered' : delivered'[d].id \in DOMAIN taken' \cup {NoRecord}
      BY <1>1, <1>2, <1>4, <2>3, <2>4, <2>5 DEF Playing
    <3>2. QED
      BY <1>1, <1>2, <3>1 DEF Playing, Copied, Data, Iso
  <2>8. HostGetsRecorded'
    <3> SUFFICES ASSUME NEW d \in DOMAIN delivered',
                        delivered'[d].id \notin failed' \cup {NoRecord}
                 PROVE  /\ taken'[delivered'[d].id].ep = Endpoint
                        /\ delivered'[d].data =
                             SubSeq(Buffer(delivered'[d].id, taken'[delivered'[d].id]),
                                    1, Least(delivered'[d].length, taken'[delivered'[d].id].len))
                        /\ delivered'[d].iso = [i \in 1 .. taken'[delivered'[d].id].iso
                                                   |-> <<delivered'[d].id, "iso", i>>]
      BY DEF HostGetsRecorded, Data, Iso
    <3>1. CASE d \in DOMAIN delivered
      <4>1. delivered'[d] = delivered[d]
        BY <3>1, <1>4, <2>4
      <4>2. QED
        BY <3>1, <4>1, <1>1, <1>2 DEF HostGetsRecorded, Data, Iso
    <3>2. CASE d = Len(delivered) + 1
      <4>1. delivered'[d] = got
        BY <3>2, <2>4
      <4>2. QED
        BY <4>1, <1>2, <2>3 DEF Data, Iso
    <3>3. QED
      BY <3>1, <3>2, <2>5
  <2>9. QED
    BY <1>3, <2>6, <2>7, <2>8 DEF Inv
<1>9. QED
  BY <1>7, <1>8

\* The other steps of the device touch neither what it plays nor what it gave
\* to the host, until the thread is gone and the records go with the device.
LEMMA OtherPlayerSteps ==
    ASSUME Inv, \/ \E length \in Lengths : RequestTransfer(length)
                \/ UnplugPlayer \/ JoinPlayer \/ GetNextRecord
    PROVE  Inv'
<1>1. /\ RecorderInv /\ PlaybackTypeOK /\ Playing /\ HostGetsRecorded
      /\ UNCHANGED recorderVars /\ UNCHANGED delivered
  BY DEF Inv, RequestTransfer, UnplugPlayer, JoinPlayer, GetNextRecord
<1>2. UNCHANGED <<taken, failed>>
  BY <1>1 DEF recorderVars
<1>3. RecorderInv' /\ RecordingTypeOK'
  BY <1>1, RecorderInvStep DEF RecorderInv
<1>4. HostGetsRecorded'
  BY <1>1, <1>2 DEF HostGetsRecorded, Data, Iso
<1>5. SUFFICES PlaybackTypeOK' /\ Playing'
  BY <1>3, <1>4 DEF Inv
<1>6. ASSUME NEW length \in Lengths, RequestTransfer(length)
      PROVE  PlaybackTypeOK' /\ Playing'
  <2>1. /\ player = "running" /\ requested < MaxRequests /\ requested' = requested + 1
        /\ input' = Append(input, length) /\ UNCHANGED <<player, records, pos, loop>>
    BY <1>6 DEF RequestTransfer
  <2>2. input' \in Seq(Lengths)
    BY <1>1, <2>1 DEF PlaybackTypeOK
  <2>3. requested' \in 0 .. MaxRequests
    BY <1>1, <2>1, PlaybackAssumption DEF PlaybackTypeOK
  <2>4. PlaybackTypeOK'
    BY <1>1, <1>3, <2>1, <2>2, <2>3 DEF PlaybackTypeOK
  <2>5. Playing'
    BY <1>1, <1>2, <2>1 DEF Playing, Copied, Data, Iso
  <2>6. QED
    BY <2>4, <2>5
<1>7. CASE UnplugPlayer
  <2>1. player' = "stopping" /\ UNCHANGED <<records, pos, loop, input, requested>>
    BY <1>7 DEF UnplugPlayer
  <2>2. PlaybackTypeOK'
    BY <1>1, <1>3, <2>1 DEF PlaybackTypeOK
  <2>3. Playing'
    BY <1>1, <1>2, <2>1 DEF Playing, Copied, Data, Iso
  <2>4. QED
    BY <2>2, <2>3
<1>8. CASE JoinPlayer
  <2>1. /\ loop = "gone" /\ player' = "done" /\ records' = <<>> /\ pos' = 1 /\ input' = <<>>
        /\ UNCHANGED <<loop, requested>>
    BY <1>8 DEF JoinPlayer
  <2>2. DOMAIN records' = {} /\ Len(records') = 0 /\ input' \in Seq(Lengths)
    BY <2>1
  <2>3. PlaybackTypeOK'
    BY <1>1, <1>3, <2>1, <2>2 DEF PlaybackTypeOK
  <2>4. Playing'
    BY <1>1, <1>2, <2>1, <2>2 DEF Playing
  <2>5. QED
    BY <2>3, <2>4
<1>9. CASE GetNextRecord
  <2>1. /\ loop = "get"
        /\ player = "stopping" \/ records # <<>>
        /\ loop' = IF player = "stopping" THEN "gone" ELSE "pair"
        /\ UNCHANGED <<player, records, pos, input, requested>>
    BY <1>9 DEF GetNextRecord
  <2>2. PlaybackTypeOK'
    BY <1>1, <1>3, <2>1 DEF PlaybackTypeOK
  <2>3. Playing'
    BY <1>1, <1>2, <2>1 DEF Playing, Copied, Data, Iso
  <2>4. QED
    BY <2>2, <2>3
<1>10. QED
  BY <1>6, <1>7, <1>8, <1>9

-----------------------------------------------------------------------------
(* The theorems about the playback device. *)

\* From plugging either plugin in to the last destructor, the invariant of both
\* holds.
THEOREM PlaybackInvTheorem == Spec => []Inv
<1>1. ASSUME Init PROVE Inv
  <2>1. /\ player = "off" /\ records = <<>> /\ pos = 1 /\ loop = "gone" /\ input = <<>>
        /\ requested = 0 /\ delivered = <<>>
    BY <1>1 DEF Init
  <2>2. RecorderInv /\ RecordingTypeOK
    BY <1>1, RecorderInvInit DEF Init, RecorderInv
  <2>3. /\ DOMAIN records = {} /\ Len(records) = 0 /\ DOMAIN delivered = {}
        /\ input \in Seq(Lengths) /\ delivered \in Seq(Deliveries)
    BY <2>1
  <2>4. PlaybackTypeOK
    BY <2>1, <2>2, <2>3, PlaybackAssumption DEF PlaybackTypeOK
  <2>5. Playing /\ HostGetsRecorded
    BY <2>1, <2>3 DEF Playing, HostGetsRecorded
  <2>6. QED
    BY <2>2, <2>4, <2>5 DEF Inv
<1>2. ASSUME Inv, [Next]_vars PROVE Inv'
  <2>1. CASE Recorder(RecordingNext)
    BY <2>1, <1>2, RecorderKeepsPlayer DEF Recorder
  <2>2. CASE UNCHANGED vars
    BY <2>2, <1>2, RecorderKeepsPlayer DEF vars
  <2>3. CASE PlugPlayer
    BY <2>3, <1>2, PlugStep
  <2>4. CASE Pair
    BY <2>4, <1>2, PairStep
  <2>5. CASE \/ \E length \in Lengths : RequestTransfer(length)
             \/ UnplugPlayer \/ JoinPlayer \/ GetNextRecord
    BY <2>5, <1>2, OtherPlayerSteps
  <2>6. QED
    BY <1>2, <2>1, <2>2, <2>3, <2>4, <2>5 DEF Next, PlaybackThread
<1>3. QED
  BY <1>1, <1>2, PTL DEF Spec

\* The state of both plugins is well typed; current_index_ names a record.
THEOREM PlaybackTypeTheorem == Spec => []PlaybackTypeOK
<1>1. Inv => PlaybackTypeOK
  BY DEF Inv
<1>2. QED
  BY <1>1, PlaybackInvTheorem, PTL

\* What the playback loop gives to a transfer of the host is the beginning of what
\* the recorded device sent on that endpoint, through both plugins' threads,
\* the files, crashes, and a recording that goes on while it is played.
THEOREM HostGetsRecordedTheorem == Spec => []HostGetsRecorded
<1>1. Inv => HostGetsRecorded
  BY DEF Inv
<1>2. QED
  BY <1>1, PlaybackInvTheorem, PTL
=============================================================================
