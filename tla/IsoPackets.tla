------------------------------ MODULE IsoPackets ------------------------------
(***************************************************************************)
(* The bytes of an isochronous IN transfer on their way from the transfer   *)
(* buffer to the host.  fill_iso cuts the buffer into packets of one length *)
(* and the device fills each of them up to its actual_length; then          *)
(* queue_data_for_host runs iso_descriptors, then iso_data, and packs the   *)
(* result; the host takes the payload apart by the descriptors it came      *)
(* with.                                                                    *)
(*                                                                         *)
(* A byte is named by its position in the transfer buffer, so that a        *)
(* payload says which byte is where.  The loops of the code are the steps.  *)
(***************************************************************************)
EXTENDS Naturals, Sequences

CONSTANTS
    Sizes,          \* transfer_buffer_length of the commands of the host
    MaxPackets,     \* bound: number_of_packets of a command
    Statuses        \* statuses the device gives a packet

ASSUME SizesAssumption == Sizes \subseteq Nat
ASSUME MaxPacketsAssumption == MaxPackets \in Nat
ASSUME StatusesAssumption == Statuses \subseteq {"completed", "failed"}

VARIABLES
    size,           \* transfer->length
    packets,        \* transfer->iso_packet_desc once the device is done
    pc,             \* the loop that runs
    i,              \* the packet it is at
    offset,         \* offset of that loop
    descriptors,    \* iso_desc.descriptors
    data_size,      \* iso_desc.data_size
    error_count,    \* iso_desc.error_count
    data,           \* iso_data, then the payload of the reply
    taken,          \* how much of the payload the host has read
    received        \* what the host has taken for the data of each packet

vars == <<size, packets, pc, i, offset, descriptors, data_size, error_count,
          data, taken, received>>

-----------------------------------------------------------------------------
Count == Len(packets)

\* packet_size of fill_iso: the rest of the division belongs to no packet.
PacketSize(n) == size \div n
PacketLength == PacketSize(Count)

\* A byte that resize() put there.
Padding == size

Bytes(from, n) == [k \in 1 .. n |-> from + k - 1]

\* Where the device has put the data of packet k, and the data.
Start(k) == (k - 1) * PacketLength
Brought(k) == Bytes(Start(k), packets[k].actual_length)

TypeOK ==
    /\ size \in Sizes
    /\ Count \in 1 .. MaxPackets
    /\ packets \in Seq([actual_length : 0 .. PacketLength, status : Statuses])
    /\ pc \in {"describe", "collect", "queue", "unpack"}
    /\ i \in 1 .. Count + 1
    /\ offset \in 0 .. size
    /\ descriptors \in Seq([offset : 0 .. size, actual_length : 0 .. PacketLength,
                            status : {"ok", "EINVAL"}])
    /\ data_size \in 0 .. size
    /\ error_count \in 0 .. Count
    /\ data \in Seq(0 .. size)
    /\ taken \in 0 .. data_size
    /\ received \in Seq([at : 0 .. size, bytes : Seq(0 .. size)])

-----------------------------------------------------------------------------
(* The device: any number of packets, each filled as far as the device      *)
(* likes and with a status of its own.                                      *)

Init ==
    /\ size \in Sizes
    /\ \E n \in 1 .. MaxPackets :
           packets \in [1 .. n -> [actual_length : 0 .. PacketSize(n), status : Statuses]]
    /\ pc = "describe"
    /\ i = 1
    /\ offset = 0
    /\ descriptors = << >>
    /\ data_size = 0
    /\ error_count = 0
    /\ data = << >>
    /\ taken = 0
    /\ received = << >>

-----------------------------------------------------------------------------
(* iso_descriptors. *)

\* Planted bug: data_size is assigned, not added to.
DescribeLast ==
    /\ pc = "describe" /\ i <= Count
    /\ descriptors' = Append(descriptors,
           [offset |-> offset, actual_length |-> packets[i].actual_length,
            status |-> IF packets[i].status = "completed" THEN "ok" ELSE "EINVAL"])
    /\ data_size' = packets[i].actual_length
    /\ error_count' = error_count + (IF packets[i].status = "completed" THEN 0 ELSE 1)
    /\ offset' = offset + PacketLength
    /\ i' = i + 1
    /\ UNCHANGED <<size, packets, pc, data, taken, received>>

Describe ==
    /\ pc = "describe" /\ i <= Count
    /\ descriptors' = Append(descriptors,
           [offset |-> offset, actual_length |-> packets[i].actual_length,
            status |-> IF packets[i].status = "completed" THEN "ok" ELSE "EINVAL"])
    /\ data_size' = data_size + packets[i].actual_length
    /\ error_count' = error_count + (IF packets[i].status = "completed" THEN 0 ELSE 1)
    /\ offset' = offset + PacketLength
    /\ i' = i + 1
    /\ UNCHANGED <<size, packets, pc, data, taken, received>>

\* Planted bug: the two loops share one offset.
DescribeEndShared ==
    /\ pc = "describe" /\ i > Count
    /\ pc' = "collect"
    /\ i' = 1
    /\ UNCHANGED <<size, packets, offset, descriptors, data_size, error_count,
                   data, taken, received>>

DescribeEnd ==
    /\ pc = "describe" /\ i > Count
    /\ pc' = "collect"
    /\ i' = 1
    /\ offset' = 0
    /\ UNCHANGED <<size, packets, descriptors, data_size, error_count, data,
                   taken, received>>

-----------------------------------------------------------------------------
(* iso_data. *)

\* A packet with an error is skipped; offset stays where it is.
CollectSkip ==
    /\ pc = "collect" /\ i <= Count
    /\ packets[i].status # "completed"
    /\ i' = i + 1
    /\ UNCHANGED <<size, packets, pc, offset, descriptors, data_size, error_count,
                   data, taken, received>>

\* Planted bug: offset moves by the bytes taken.
CollectPacked ==
    /\ pc = "collect" /\ i <= Count
    /\ packets[i].status = "completed"
    /\ data' = data \o Bytes(offset, packets[i].actual_length)
    /\ offset' = offset + packets[i].actual_length
    /\ i' = i + 1
    /\ UNCHANGED <<size, packets, pc, descriptors, data_size, error_count, taken,
                   received>>

Collect ==
    /\ pc = "collect" /\ i <= Count
    /\ packets[i].status = "completed"
    /\ data' = data \o Bytes(offset, packets[i].actual_length)
    /\ offset' = offset + PacketLength
    /\ i' = i + 1
    /\ UNCHANGED <<size, packets, pc, descriptors, data_size, error_count, taken,
                   received>>

CollectEnd ==
    /\ pc = "collect" /\ i > Count
    /\ pc' = "queue"
    /\ UNCHANGED <<size, packets, i, offset, descriptors, data_size, error_count,
                   data, taken, received>>

-----------------------------------------------------------------------------
(* The rest of queue_data_for_host, send_data_to_host and                   *)
(* queue_reply_to_host: the data is resized to data_size, and data and      *)
(* descriptors become the payload of the reply.                             *)

Resized(s, n) == [k \in 1 .. n |-> IF k <= Len(s) THEN s[k] ELSE Padding]

QueueDataForHost ==
    /\ pc = "queue"
    /\ data' = Resized(data, data_size)
    /\ pc' = "unpack"
    /\ UNCHANGED <<size, packets, i, offset, descriptors, data_size, error_count,
                   taken, received>>

-----------------------------------------------------------------------------
(* The host: vhci_hcd takes the payload apart by the actual_length of every *)
(* descriptor, whatever its status, and puts the data at its offset.        *)

HostUnpack ==
    /\ pc = "unpack" /\ Len(received) < Count
    /\ LET d == descriptors[Len(received) + 1]
       IN  /\ received' = Append(received,
                  [at |-> d.offset,
                   bytes |-> SubSeq(data, taken + 1, taken + d.actual_length)])
           /\ taken' = taken + d.actual_length
    /\ UNCHANGED <<size, packets, pc, i, offset, descriptors, data_size,
                   error_count, data>>

Next == Describe \/ DescribeEnd \/ CollectSkip \/ Collect \/ CollectEnd
            \/ QueueDataForHost \/ HostUnpack

Spec == Init /\ [][Next]_vars

-----------------------------------------------------------------------------
(* Properties. *)

\* The subspan iso_data takes lies in the transfer buffer, although a packet
\* with an error leaves the offset of the loop behind the packet it is at.
InBounds ==
    (pc = "collect" /\ i <= Count) => offset + packets[i].actual_length <= size

\* The resize of queue_data_for_host never cuts off data that was collected:
\* the sum over all packets is at least what the completed ones brought.
NothingTruncated == pc = "queue" => Len(data) <= data_size

\* Every packet before the first one with an error reaches the host: its
\* bytes, all of them and no others, at the place the device put them.  (What
\* follows a packet with an error is read from a wrong place.)
IntactUpToFailure ==
    \A k \in DOMAIN received :
        (\A j \in 1 .. k : packets[j].status = "completed") =>
            received[k] = [at |-> Start(k), bytes |-> Brought(k)]
=============================================================================
