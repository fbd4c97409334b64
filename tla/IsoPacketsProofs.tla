--------------------------- MODULE IsoPacketsProofs ---------------------------
(***************************************************************************)
(* Proofs about IsoPackets for every buffer size, every number of packets  *)
(* and whatever the device put into them.                                  *)
(***************************************************************************)
EXTENDS IsoPackets, SequenceTheorems, TLAPS

-----------------------------------------------------------------------------
(* The inductive invariant. *)

\* The first k packets are without an error.
Clean(k) == \A j \in 1 .. k : packets[j].status = "completed"

\* How many packets iso_descriptors has described.
Described == IF pc = "describe" THEN i - 1 ELSE Count

\* One descriptor for each of them, at the place of its packet.
Descs ==
    /\ Len(descriptors) = Described
    /\ \A k \in 1 .. Described :
           /\ descriptors[k].offset = Start(k)
           /\ descriptors[k].actual_length = packets[k].actual_length
    /\ error_count <= Described

\* Where the loops stand.
Loops ==
    /\ pc = "describe" => offset = Start(i) /\ data = << >>
    /\ pc = "collect" => offset <= Start(i)
    /\ pc \in {"queue", "unpack"} => i = Count + 1
    /\ pc # "unpack" => received = << >> /\ taken = 0

\* S[k] is the length of the first k packets together; data_size is the last.
Totals(S) ==
    /\ S[0] = 0
    /\ \A k \in 1 .. Described :
           S[k] = S[k - 1] + packets[k].actual_length /\ S[k] <= Start(k + 1)
    /\ \A k \in 0 .. Described : \A j \in 0 .. k : S[j] <= S[k]
    /\ data_size = S[Described]

\* Up to the first error the data is where these lengths put it, and after it
\* there is less than they say.
Fetched(S) ==
    /\ pc = "collect" /\ Clean(i - 1) => offset = Start(i) /\ Len(data) = S[i - 1]
    /\ pc \in {"collect", "queue"} => Len(data) <= S[i - 1]
    /\ pc = "unpack" => Len(data) = data_size
    /\ pc # "describe" =>
           \A j \in 1 .. (i - 1) : Clean(j) =>
               /\ S[j] <= Len(data)
               /\ \A m \in 1 .. packets[j].actual_length :
                      data[S[j - 1] + m] = Start(j) + m - 1

\* The host has read as far as these lengths say.
Handed(S) ==
    /\ Len(received) <= Count
    /\ taken = S[Len(received)]
    /\ IntactUpToFailure

Inv ==
    /\ TypeOK
    /\ Descs
    /\ Loops
    /\ \E S \in [0 .. Described -> 0 .. size] : Totals(S) /\ Fetched(S) /\ Handed(S)

-----------------------------------------------------------------------------
(* Arithmetic. *)

\* fill_iso's division leaves room for all packets.
LEMMA Division ==
    ASSUME NEW a \in Nat, NEW n \in Nat \ {0}
    PROVE  a \div n \in Nat /\ n * (a \div n) <= a
  OBVIOUS

\* Places of packets of length b in front of place n.
LEMMA Multiples ==
    ASSUME NEW b \in Nat, NEW n \in Nat, NEW k \in 1 .. n
    PROVE  /\ (k - 1) * b \in Nat
           /\ k * b = (k - 1) * b + b
           /\ k * b <= n * b
<1>1. k * b = (k - 1) * b + b /\ (k - 1) * b \in Nat
  OBVIOUS
<1>2. (n - k) * b >= 0 /\ n * b = k * b + (n - k) * b
  OBVIOUS
<1>3. QED
  BY <1>1, <1>2

\* Positions in a sequence of length n and in one of length k behind it.
LEMMA Positions ==
    \A n, k, x, m \in Nat :
        /\ 1 <= m /\ x + m <= n => x + m \in 1 .. (n + k)
        /\ 1 <= m /\ m <= k /\ x = n => /\ x + m \in 1 .. (n + k)
                                      /\ ~ (x + m <= n)
                                      /\ (x + m) - n = m
  OBVIOUS

\* The packets lie in the buffer, one behind the other.
LEMMA Places ==
    ASSUME TypeOK
    PROVE  /\ size \in Nat /\ Count \in Nat \ {0}
           /\ PacketLength \in Nat
           /\ Start(1) = 0
           /\ \A k \in 1 .. Count : /\ Start(k) \in Nat
                                   /\ Start(k + 1) = Start(k) + PacketLength
                                   /\ Start(k + 1) <= size
           /\ \A k \in 1 .. (Count + 1) : Start(k) \in Nat /\ Start(k) <= size
           /\ \A k \in 1 .. Count : /\ packets[k].actual_length \in Nat
                                   /\ packets[k].actual_length <= PacketLength
                                   /\ packets[k].status \in Statuses
<1> DEFINE b == PacketLength
           n == Count
<1>1. size \in Nat /\ n \in Nat \ {0}
  BY SizesAssumption, MaxPacketsAssumption DEF TypeOK
<1>2. b \in Nat /\ n * b <= size
  BY <1>1, Division DEF PacketLength, PacketSize
<1>3. \A k \in 1 .. n : /\ packets[k].actual_length \in Nat
                        /\ packets[k].actual_length <= b
                        /\ packets[k].status \in Statuses
  <2> TAKE k \in 1 .. n
  <2>1. packets[k] \in [actual_length : 0 .. b, status : Statuses]
    BY ElementOfSeq DEF TypeOK, Count
  <2>2. QED
    BY <2>1, <1>2
<1> HIDE DEF b, n
<1>4. \A k \in 1 .. n : /\ (k - 1) * b \in Nat
                        /\ k * b = (k - 1) * b + b
                        /\ k * b <= size
  <2> TAKE k \in 1 .. n
  <2>1. (k - 1) * b \in Nat /\ k * b = (k - 1) * b + b /\ k * b <= n * b
    BY <1>1, <1>2, Multiples
  <2>2. k * b \in Nat /\ n * b \in Nat
    BY <1>1, <1>2, <2>1
  <2>3. QED
    BY <2>1, <2>2, <1>1, <1>2
<1>5. \A k \in 1 .. (n + 1) : Start(k) = (k - 1) * b
  BY DEF Start, b
<1>6. Start(1) = 0
  BY <1>1, <1>2, <1>5
<1>7. \A k \in 1 .. n : Start(k) \in Nat /\ Start(k + 1) = Start(k) + b /\ Start(k + 1) <= size
  <2> TAKE k \in 1 .. n
  <2>1. k + 1 \in 1 .. (n + 1) /\ k \in 1 .. (n + 1) /\ (k + 1) - 1 = k
    BY <1>1
  <2>2. Start(k) = (k - 1) * b /\ Start(k + 1) = k * b
    BY <1>5, <2>1
  <2>3. QED
    BY <2>2, <1>4
<1>8. \A k \in 1 .. (n + 1) : Start(k) \in Nat /\ Start(k) <= size
  <2> TAKE k \in 1 .. (n + 1)
  <2>1. CASE k = 1
    BY <2>1, <1>6, <1>1
  <2>2. CASE k # 1
    <3>1. k - 1 \in 1 .. n /\ (k - 1) + 1 = k
      BY <2>2, <1>1
    <3>2. Start(k - 1) \in Nat /\ Start(k) = Start(k - 1) + b /\ Start(k) <= size
      BY <3>1, <1>7
    <3>3. QED
      BY <3>2, <1>2
  <2>3. QED
    BY <2>1, <2>2
<1>9. QED
  BY <1>1, <1>2, <1>3, <1>6, <1>7, <1>8 DEF b, n

\* A run of buffer positions.
LEMMA BytesAre ==
    ASSUME NEW from \in Nat, NEW n \in Nat, NEW top \in Nat, from + n <= top
    PROVE  /\ Bytes(from, n) \in Seq(0 .. top)
           /\ Len(Bytes(from, n)) = n
           /\ \A m \in 1 .. n : Bytes(from, n)[m] = from + m - 1
<1>1. \A m \in 1 .. n : from + m - 1 \in 0 .. top
  OBVIOUS
<1>2. Bytes(from, n) \in [1 .. n -> 0 .. top]
  BY <1>1 DEF Bytes
<1>3. Bytes(from, n) \in Seq(0 .. top)
  BY <1>2
<1>4. Len(Bytes(from, n)) = n
  BY <1>2, <1>3
<1>5. QED
  BY <1>3, <1>4 DEF Bytes
-----------------------------------------------------------------------------
(* Every step keeps the invariant. *)

\* What the steps leave alone.
LEMMA SamePackets ==
    ASSUME UNCHANGED <<size, packets>>
    PROVE  /\ Count' = Count /\ PacketLength' = PacketLength
           /\ \A k : Start(k)' = Start(k) /\ Brought(k)' = Brought(k)
           /\ \A k : Clean(k)' <=> Clean(k)
  BY DEF Count, PacketLength, PacketSize, Count, Start, Brought, Bytes, Clean

LEMMA InitInv ==
    ASSUME Init
    PROVE  Inv
<1>1. PICK n \in 1 .. MaxPackets :
          packets \in [1 .. n -> [actual_length : 0 .. PacketSize(n), status : Statuses]]
  BY DEF Init
<1>2. n \in Nat \ {0}
  BY MaxPacketsAssumption
<1>3. Count = n
  BY <1>1, <1>2 DEF Count
<1>4. size \in Nat
  BY SizesAssumption DEF Init
<1>5. TypeOK
  <2>1. packets \in Seq([actual_length : 0 .. PacketLength, status : Statuses])
    <3> DEFINE R == [actual_length : 0 .. PacketSize(n), status : Statuses]
    <3>1. packets \in [1 .. n -> R] /\ PacketLength = PacketSize(n)
      BY <1>1, <1>3 DEF PacketLength
    <3> HIDE DEF R
    <3>2. packets \in Seq(R)
      BY <3>1, <1>2
    <3>3. QED
      BY <3>1, <3>2 DEF R
  <2>2. QED
    BY <2>1, <1>2, <1>3, <1>4 DEF Init, TypeOK
<1>6. Start(1) = 0
  BY <1>5, Places
<1>7. Described = 0
  BY DEF Described, Init
<1>8. Descs
  BY <1>7 DEF Descs, Init
<1>9. Loops
  BY <1>6 DEF Loops, Init
<1>10. \E S \in [0 .. Described -> 0 .. size] : Totals(S) /\ Fetched(S) /\ Handed(S)
  <2> DEFINE Z == [k \in 0 .. 0 |-> 0]
  <2>1. Z \in [0 .. Described -> 0 .. size] /\ Z[0] = 0
    BY <1>7, <1>4
  <2>2. Totals(Z)
    BY <1>7, <2>1 DEF Totals, Init
  <2>3. Fetched(Z)
    BY DEF Fetched, Init
  <2>4. Handed(Z)
    BY <1>2, <1>3, <2>1 DEF Handed, IntactUpToFailure, Init
  <2>5. QED
    BY <2>1, <2>2, <2>3, <2>4
<1>11. QED
  BY <1>5, <1>8, <1>9, <1>10 DEF Inv

\* iso_descriptors: the lengths so far get one more.
LEMMA DescribeInv ==
    ASSUME Inv, Describe
    PROVE  Inv'
<1> USE DEF Inv
<1>1. /\ pc = "describe" /\ pc' = "describe" /\ i \in 1 .. Count /\ i' = i + 1
      /\ UNCHANGED <<size, packets, data, taken, received>>
      /\ Described = i - 1 /\ Described' = i
  BY Places DEF Describe, Described, TypeOK
<1>2. /\ Count' = Count /\ PacketLength' = PacketLength
      /\ \A k : Start(k)' = Start(k)
  BY <1>1, SamePackets
<1>3. /\ size \in Nat /\ Count \in Nat \ {0} /\ PacketLength \in Nat /\ Start(1) = 0
      /\ Start(i) \in Nat /\ Start(i + 1) = Start(i) + PacketLength /\ Start(i + 1) <= size
      /\ packets[i].actual_length \in 0 .. PacketLength
      /\ \A k \in 1 .. (Count + 1) : Start(k) \in Nat /\ Start(k) <= size
  BY <1>1, Places
<1>4. offset = Start(i) /\ data = << >> /\ received = << >> /\ taken = 0
  BY <1>1 DEF Loops
<1>5. PICK S \in [0 .. (i - 1) -> 0 .. size] : Totals(S) /\ Handed(S)
  BY <1>1
<1>6. S[0] = 0 /\ data_size = S[i - 1] /\ data_size \in Nat /\ data_size <= Start(i)
  <2>1. CASE i = 1
    BY <2>1, <1>1, <1>3, <1>5 DEF Totals
  <2>2. CASE i # 1
    <3>1. i - 1 \in 1 .. (i - 1) /\ (i - 1) + 1 = i
      BY <2>2, <1>1
    <3>2. QED
      BY <3>1, <1>1, <1>3, <1>5 DEF Totals
  <2>3. QED
    BY <2>1, <2>2
<1> DEFINE d == [offset |-> offset, actual_length |-> packets[i].actual_length,
                 status |-> IF packets[i].status = "completed" THEN "ok" ELSE "EINVAL"]
           a == packets[i].actual_length
           D == [offset : 0 .. size, actual_length : 0 .. PacketLength,
                 status : {"ok", "EINVAL"}]
<1>7. d \in D /\ descriptors \in Seq(D) /\ descriptors' = Append(descriptors, d)
  BY <1>1, <1>3, <1>4 DEF Describe, TypeOK
<1>8. /\ descriptors' \in Seq(D)
      /\ Len(descriptors') = i
      /\ \A k \in 1 .. (i - 1) : descriptors'[k] = descriptors[k]
      /\ descriptors'[i] = d
  <2> HIDE DEF D, d
  <2>1. Len(descriptors) = i - 1 /\ (i - 1) + 1 = i
    BY <1>1 DEF Descs
  <2>2. QED
    BY <1>7, <2>1, AppendProperties
<1>9. /\ data_size' = S[i - 1] + a
      /\ data_size' \in 0 .. size /\ data_size' <= Start(i + 1)
      /\ a \in Nat /\ a <= PacketLength
  <2>1. data_size' = data_size + a
    BY DEF Describe
  <2>2. a \in Nat /\ a <= PacketLength
    BY <1>3
  <2> HIDE DEF a
  <2>3. QED
    BY <2>1, <2>2, <1>3, <1>6
<1>10. error_count' \in 0 .. i
  BY <1>1, <1>3 DEF Describe, Descs, TypeOK
<1>11. TypeOK'
  <2>1. offset' \in 0 .. size
    BY <1>3, <1>4 DEF Describe
  <2>2. error_count' \in 0 .. Count /\ i' \in 1 .. Count + 1
    BY <1>1, <1>3, <1>10
  <2>3. taken' \in 0 .. data_size'
    BY <1>1, <1>4, <1>9
  <2>4. QED
    BY <2>1, <2>2, <2>3, <1>1, <1>2, <1>8, <1>9 DEF TypeOK
<1>12. Descs'
  <2>1. \A k \in 1 .. i : /\ descriptors'[k].offset = Start(k)
                         /\ descriptors'[k].actual_length = packets[k].actual_length
    <3> TAKE k \in 1 .. i
    <3>1. CASE k = i
      BY <3>1, <1>4, <1>8
    <3>2. CASE k # i
      <4>1. k \in 1 .. (i - 1)
        BY <3>2, <1>1
      <4>2. QED
        BY <4>1, <1>1, <1>8 DEF Descs
    <3>3. QED
      BY <3>1, <3>2
  <2>2. QED
    BY <2>1, <1>1, <1>2, <1>3, <1>8, <1>10, SMTT(30) DEF Descs
<1>13. Loops'
  BY <1>1, <1>2, <1>3, <1>4 DEF Loops, Describe
<1>14. PICK T \in [0 .. i -> 0 .. size] : \A k \in 0 .. i : T[k] = IF k = i THEN S[i - 1] + a ELSE S[k]
  <2> DEFINE W == [k \in 0 .. i |-> IF k = i THEN S[i - 1] + a ELSE S[k]]
  <2> HIDE DEF Inv
  <2>1. ASSUME NEW k \in 0 .. i
        PROVE  (IF k = i THEN S[i - 1] + a ELSE S[k]) \in 0 .. size
    <3>1. CASE k = i
      BY <3>1, <1>9
    <3>2. CASE k # i
      <4>1. i \in Nat
        BY <1>1, <1>3
      <4>2. k \in 0 .. (i - 1)
        BY <3>2, <4>1
      <4>3. S[k] \in 0 .. size
        BY <4>2, <1>5
      <4>4. QED
        BY <3>2, <4>3
    <3>3. QED
      BY <3>1, <3>2
  <2>2. W \in [0 .. i -> 0 .. size]
    BY <2>1
  <2>3. QED
    BY <2>2
<1>15. T[0] = 0 /\ (\A k \in 0 .. (i - 1) : T[k] = S[k]) /\ T[i] = S[i - 1] + packets[i].actual_length
  BY <1>1, <1>6, <1>14
<1> HIDE DEF D, d, a
<1>16. Totals(T)'
  <2> HIDE DEF Inv
  <2>1. \A k \in 1 .. i :
           T[k] = T[k - 1] + packets[k].actual_length /\ T[k] <= Start(k + 1)
    <3> TAKE k \in 1 .. i
    <3>1. CASE k = i
      BY <3>1, <1>1, <1>3, <1>9, <1>15 DEF a
    <3>2. CASE k # i
      <4>1. k \in 1 .. (i - 1) /\ k - 1 \in 0 .. (i - 1)
        BY <3>2, <1>1
      <4>2. QED
        BY <4>1, <1>1, <1>5, <1>15 DEF Totals
    <3>3. QED
      BY <3>1, <3>2
  <2>2. \A k \in 0 .. i : \A j \in 0 .. k : T[j] <= T[k]
    <3> TAKE k \in 0 .. i
    <3> TAKE j \in 0 .. k
    <3>1. CASE k # i
      <4>1. k \in 0 .. (i - 1) /\ j \in 0 .. (i - 1)
        BY <3>1, <1>1
      <4>2. QED
        BY <4>1, <1>1, <1>5, <1>15 DEF Totals
    <3>2. CASE j = i
      BY <3>2, <1>1, <1>14
    <3>3. CASE k = i /\ j # i
      <4>1. j \in 0 .. (i - 1) /\ i - 1 \in 0 .. (i - 1)
        BY <3>3, <1>1
      <4>2. S[j] <= S[i - 1] /\ S[j] \in Nat /\ S[i - 1] \in Nat
        <5>1. S[j] \in 0 .. size /\ S[i - 1] \in 0 .. size
          BY <4>1, <1>5
        <5>2. S[j] <= S[i - 1]
          BY <4>1, <1>1, <1>5 DEF Totals
        <5>3. QED
          BY <5>1, <5>2, <1>3
      <4>3. T[j] = S[j] /\ T[k] = S[i - 1] + packets[i].actual_length
        BY <3>3, <4>1, <1>15
      <4>4. packets[i].actual_length \in Nat
        BY <1>3
      <4>5. QED
        BY <4>2, <4>3, <4>4
    <3>4. QED
      BY <3>1, <3>2, <3>3
  <2>3. QED
    BY <2>1, <2>2, <1>1, <1>2, <1>9, <1>15 DEF Totals, a
<1>17. Fetched(T)'
  BY <1>1 DEF Fetched
<1>18. Handed(T)'
  BY <1>1, <1>2, <1>3, <1>4, <1>15 DEF Handed, IntactUpToFailure
<1>19. QED
  BY <1>1, <1>11, <1>12, <1>13, <1>14, <1>16, <1>17, <1>18

\* iso_data begins at the first packet and at the start of the buffer.
LEMMA DescribeEndInv ==
    ASSUME Inv, DescribeEnd
    PROVE  Inv'
<1> USE DEF Inv
<1>1. /\ pc = "describe" /\ pc' = "collect" /\ i = Count + 1 /\ i' = 1 /\ offset' = 0
      /\ UNCHANGED <<size, packets, descriptors, data_size, error_count, data, taken,
                     received>>
  BY Places DEF DescribeEnd, TypeOK
<1>2. /\ Count' = Count /\ PacketLength' = PacketLength
      /\ \A k : Start(k)' = Start(k) /\ Brought(k)' = Brought(k)
  BY <1>1, SamePackets
<1>3. size \in Nat /\ Count \in Nat \ {0} /\ Start(1) = 0
  BY Places
<1>4. Described = Count /\ Described' = Count
  BY <1>1, <1>2, <1>3 DEF Described
<1>5. data = << >> /\ received = << >> /\ taken = 0
  BY <1>1 DEF Loops
<1>6. PICK S \in [0 .. Count -> 0 .. size] : Totals(S) /\ Handed(S)
  BY <1>4
<1>7. TypeOK'
  BY <1>1, <1>2, <1>3 DEF TypeOK
<1>8. Descs'
  BY <1>1, <1>2, <1>4 DEF Descs
<1>9. Loops'
  BY <1>1, <1>2, <1>3, <1>5 DEF Loops
<1>10. Totals(S)'
  BY <1>1, <1>2, <1>4, <1>6 DEF Totals
<1>11. Fetched(S)'
  BY <1>1, <1>2, <1>3, <1>5, <1>6 DEF Fetched, Totals
<1>12. Handed(S)'
  BY <1>1, <1>2, <1>5, <1>6 DEF Handed, IntactUpToFailure
<1>13. QED
  BY <1>1, <1>4, <1>6, <1>7, <1>8, <1>9, <1>10, <1>11, <1>12

\* A packet with an error: no packet behind it counts as clean any more.
LEMMA CollectSkipInv ==
    ASSUME Inv, CollectSkip
    PROVE  Inv'
<1> USE DEF Inv
<1>1. /\ pc = "collect" /\ pc' = "collect" /\ i \in 1 .. Count /\ i' = i + 1
      /\ packets[i].status # "completed"
      /\ UNCHANGED <<size, packets, offset, descriptors, data_size, error_count, data,
                     taken, received>>
  BY Places DEF CollectSkip, TypeOK
<1>2. /\ Count' = Count /\ PacketLength' = PacketLength
      /\ \A k : Start(k)' = Start(k) /\ Brought(k)' = Brought(k)
      /\ \A k : Clean(k)' <=> Clean(k)
  BY <1>1, SamePackets
<1>3. /\ size \in Nat /\ Count \in Nat \ {0} /\ PacketLength \in Nat
      /\ Start(i) \in Nat /\ Start(i + 1) = Start(i) + PacketLength
      /\ packets[i].actual_length \in Nat
  BY <1>1, Places
<1>4. Described = Count /\ Described' = Count
  BY <1>1, <1>2 DEF Described
<1>5. PICK S \in [0 .. Count -> 0 .. size] : Totals(S) /\ Fetched(S) /\ Handed(S)
  BY <1>4
<1>6. TypeOK'
  BY <1>1, <1>2, <1>3 DEF TypeOK
<1>7. Descs'
  BY <1>1, <1>2, <1>4 DEF Descs
<1>8. Loops'
  <2>1. offset <= Start(i) /\ offset \in Nat
    BY <1>1, <1>3 DEF Loops, TypeOK
  <2>2. offset' <= Start(i')
    BY <2>1, <1>1, <1>3
  <2>3. QED
    BY <2>2, <1>1, <1>2 DEF Loops
<1>9. Totals(S)'
  BY <1>1, <1>2, <1>4, <1>5 DEF Totals
<1>10. Fetched(S)'
  <2>1. ~ Clean(i) /\ i' - 1 = i
    BY <1>1 DEF Clean
  <2>2. Len(data) <= S[i]
    <3>1. Len(data) <= S[i - 1] /\ Len(data) \in Nat
      BY <1>1, <1>5 DEF Fetched, TypeOK
    <3>2. i - 1 \in 0 .. Count /\ i \in 0 .. Count /\ i - 1 \in 0 .. i
      BY <1>1, <1>3
    <3>3. S[i - 1] <= S[i] /\ S[i - 1] \in Nat /\ S[i] \in Nat
      BY <3>2, <1>3, <1>4, <1>5 DEF Totals
    <3>4. QED
      BY <3>1, <3>3
  <2>3. \A j \in 1 .. i : Clean(j) => j \in 1 .. (i - 1)
    BY <2>1, <1>1
  <2>4. \A j \in 1 .. i : Clean(j) =>
           /\ S[j] <= Len(data)
           /\ \A m \in 1 .. packets[j].actual_length : data[S[j - 1] + m] = Start(j) + m - 1
    BY <2>3, <1>1, <1>5 DEF Fetched
  <2>5. QED
    BY <2>1, <2>2, <2>4, <1>1, <1>2 DEF Fetched
<1>11. Handed(S)'
  BY <1>1, <1>2, <1>5 DEF Handed, IntactUpToFailure
<1>12. QED
  BY <1>1, <1>4, <1>5, <1>6, <1>7, <1>8, <1>9, <1>10, <1>11

\* A packet without an error: its bytes are in the buffer, even from an offset
\* that was left behind, and if nothing was left behind they are its own.
LEMMA CollectInv ==
    ASSUME Inv, Collect
    PROVE  Inv'
<1> TypeOK /\ Descs /\ Loops
  BY DEF Inv
<1> DEFINE a == packets[i].actual_length
           more == Bytes(offset, a)
<1>1. /\ pc = "collect" /\ pc' = "collect" /\ i \in 1 .. Count /\ i' = i + 1
      /\ data' = data \o more /\ offset' = offset + PacketLength
      /\ UNCHANGED <<size, packets, descriptors, data_size, error_count, taken, received>>
  BY Places DEF Collect, TypeOK
<1>2. /\ Count' = Count /\ PacketLength' = PacketLength
      /\ \A k : Start(k)' = Start(k) /\ Brought(k)' = Brought(k)
      /\ \A k : Clean(k)' <=> Clean(k)
  BY <1>1, SamePackets
<1>3. /\ size \in Nat /\ Count \in Nat \ {0} /\ PacketLength \in Nat
      /\ Start(i) \in Nat /\ Start(i + 1) = Start(i) + PacketLength /\ Start(i + 1) <= size
      /\ a \in Nat /\ a <= PacketLength
  BY <1>1, Places
<1>4. Described = Count /\ Described' = Count
  BY <1>1, <1>2 DEF Described
<1>5. PICK S \in [0 .. Count -> 0 .. size] : Totals(S) /\ Fetched(S) /\ Handed(S)
  BY <1>4 DEF Inv
<1>6. offset \in Nat /\ offset <= Start(i) /\ offset + a <= size
  <2>1. offset \in Nat /\ offset <= Start(i)
    BY <1>1, <1>3 DEF Loops, TypeOK
  <2> HIDE DEF a
  <2>2. QED
    BY <2>1, <1>3
<1>7. /\ data \in Seq(0 .. size) /\ Len(data) \in Nat
      /\ more \in Seq(0 .. size) /\ Len(more) = a
      /\ \A m \in 1 .. a : more[m] = offset + m - 1
  <2>1. data \in Seq(0 .. size) /\ Len(data) \in Nat
    BY DEF TypeOK
  <2> HIDE DEF a
  <2>2. QED
    BY <2>1, <1>3, <1>6, BytesAre
<1> HIDE DEF more
<1>8. /\ data' \in Seq(0 .. size) /\ Len(data') = Len(data) + a
      /\ \A k \in 1 .. (Len(data) + a) :
             data'[k] = IF k <= Len(data) THEN data[k] ELSE more[k - Len(data)]
  <2> HIDE DEF a
  <2>1. /\ data \o more \in Seq(0 .. size) /\ Len(data \o more) = Len(data) + a
        /\ \A k \in 1 .. (Len(data) + a) :
               (data \o more)[k] = IF k <= Len(data) THEN data[k] ELSE more[k - Len(data)]
    BY <1>7, ConcatProperties
  <2>2. QED
    BY <2>1, <1>1
<1>9. TypeOK'
  <2>1. offset' \in 0 .. size
    BY <1>1, <1>3, <1>6
  <2>2. QED
    BY <2>1, <1>1, <1>2, <1>3, <1>8 DEF TypeOK
<1>10. Descs'
  BY <1>1, <1>2, <1>4 DEF Descs
<1>11. Loops'
  <2>1. offset' <= Start(i')
    BY <1>1, <1>3, <1>6
  <2>2. QED
    BY <2>1, <1>1, <1>2 DEF Loops
<1>12. Totals(S)'
  BY <1>1, <1>2, <1>4, <1>5 DEF Totals
<1>13. /\ S[i] = S[i - 1] + a /\ S[i - 1] \in Nat /\ S[i] \in Nat /\ i' - 1 = i
  <2>1. i - 1 \in 0 .. Count /\ i \in 0 .. Count /\ i' - 1 = i
    BY <1>1, <1>3
  <2>2. S[i - 1] \in Nat /\ S[i] \in Nat
    BY <2>1, <1>3, <1>5
  <2>3. QED
    BY <2>1, <2>2, <1>1, <1>4, <1>5 DEF Totals
<1>14. Clean(i) => Clean(i - 1)
  BY <1>1 DEF Clean
<1>15. Clean(i - 1) => offset = Start(i) /\ Len(data) = S[i - 1]
  BY <1>1, <1>5 DEF Fetched
<1>16. Fetched(S)'
  <2> HIDE DEF a
  <2>1. Clean(i) => offset' = Start(i + 1) /\ Len(data') = S[i]
    BY <1>1, <1>3, <1>8, <1>13, <1>14, <1>15
  <2>2. Len(data') <= S[i]
    <3>1. Len(data) <= S[i - 1]
      BY <1>1, <1>5 DEF Fetched
    <3>2. QED
      BY <3>1, <1>3, <1>7, <1>8, <1>13
  <2>3. ASSUME NEW j \in 1 .. i, Clean(j)
        PROVE  /\ S[j] <= Len(data')
               /\ \A m \in 1 .. packets[j].actual_length :
                      data'[S[j - 1] + m] = Start(j) + m - 1
    <3>1. CASE j = i
      <4>1. Len(data) = S[i - 1] /\ offset = Start(i) /\ Len(data') = S[i]
        BY <3>1, <2>3, <2>1, <1>14, <1>15
      <4>2. ASSUME NEW m \in 1 .. a
            PROVE  data'[S[i - 1] + m] = Start(i) + m - 1
        <5>1. /\ S[i - 1] + m \in 1 .. (Len(data) + a) /\ ~ (S[i - 1] + m <= Len(data))
              /\ (S[i - 1] + m) - Len(data) = m
          <6>1. m \in Nat /\ 1 <= m /\ m <= a /\ Len(data) \in Nat /\ S[i - 1] \in Nat
            BY <1>3, <1>7, <1>13
          <6>2. a \in Nat /\ S[i - 1] = Len(data)
            BY <1>3, <4>1
          <6>3. QED
            BY <6>1, <6>2, Positions
        <5>2. QED
          BY <5>1, <4>1, <1>7, <1>8
      <4>3. QED
        BY <3>1, <4>1, <4>2, <1>13 DEF a
    <3>2. CASE j # i
      <4>1. j \in 1 .. (i - 1) /\ j \in 1 .. Count /\ j - 1 \in 0 .. Count
        BY <3>2, <1>1, <1>3
      <4>2. /\ S[j] <= Len(data)
            /\ \A m \in 1 .. packets[j].actual_length :
                   data[S[j - 1] + m] = Start(j) + m - 1
        BY <4>1, <2>3, <1>1, <1>5 DEF Fetched
      <4>3. /\ S[j] = S[j - 1] + packets[j].actual_length
            /\ S[j] \in Nat /\ S[j - 1] \in Nat
            /\ packets[j].actual_length \in Nat
        <5>1. S[j] \in Nat /\ S[j - 1] \in Nat
          BY <4>1, <1>3, <1>5
        <5>2. packets[j].actual_length \in Nat
          BY <4>1, Places
        <5>3. QED
          BY <5>1, <5>2, <4>1, <1>4, <1>5 DEF Totals
      <4>4. ASSUME NEW m \in 1 .. packets[j].actual_length
            PROVE  data'[S[j - 1] + m] = Start(j) + m - 1
        <5>1. S[j - 1] + m \in 1 .. (Len(data) + a) /\ S[j - 1] + m <= Len(data)
          <6>1. m \in Nat /\ 1 <= m /\ m <= packets[j].actual_length /\ Len(data) \in Nat
            BY <4>3, <1>7
          <6>2. S[j - 1] + m <= S[j]
            BY <6>1, <4>3
          <6>3. S[j - 1] + m <= Len(data)
            BY <6>1, <6>2, <4>2, <4>3
          <6>4. QED
            BY <6>1, <6>3, <4>3, <1>3, Positions
        <5>2. QED
          BY <5>1, <4>2, <1>8
      <4>5. QED
        BY <4>2, <4>3, <4>4, <1>3, <1>7, <1>8
    <3>3. QED
      BY <3>1, <3>2
  <2>4. QED
    BY <2>1, <2>2, <2>3, <1>1, <1>2, <1>13 DEF Fetched
<1>17. Handed(S)'
  BY <1>1, <1>2, <1>5 DEF Handed, IntactUpToFailure
<1>18. QED
  BY <1>1, <1>4, <1>5, <1>9, <1>10, <1>11, <1>12, <1>16, <1>17 DEF Inv

LEMMA CollectEndInv ==
    ASSUME Inv, CollectEnd
    PROVE  Inv'
<1> TypeOK /\ Descs /\ Loops
  BY DEF Inv
<1>1. /\ pc = "collect" /\ pc' = "queue" /\ i = Count + 1
      /\ UNCHANGED <<size, packets, i, offset, descriptors, data_size, error_count, data,
                     taken, received>>
  BY Places DEF CollectEnd, TypeOK
<1>2. /\ Count' = Count /\ PacketLength' = PacketLength
      /\ \A k : Start(k)' = Start(k) /\ Brought(k)' = Brought(k)
      /\ \A k : Clean(k)' <=> Clean(k)
  BY <1>1, SamePackets
<1>3. Described = Count /\ Described' = Count
  BY <1>1, <1>2 DEF Described
<1>4. PICK S \in [0 .. Count -> 0 .. size] : Totals(S) /\ Fetched(S) /\ Handed(S)
  BY <1>3 DEF Inv
<1>5. TypeOK'
  BY <1>1, <1>2 DEF TypeOK
<1>6. Descs'
  BY <1>1, <1>2, <1>3 DEF Descs
<1>7. Loops'
  BY <1>1, <1>2 DEF Loops
<1>8. Totals(S)'
  BY <1>1, <1>2, <1>3, <1>4 DEF Totals
<1>9. Fetched(S)'
  BY <1>1, <1>2, <1>4 DEF Fetched
<1>10. Handed(S)'
  BY <1>1, <1>2, <1>4 DEF Handed, IntactUpToFailure
<1>11. QED
  BY <1>1, <1>3, <1>4, <1>5, <1>6, <1>7, <1>8, <1>9, <1>10 DEF Inv

\* The resize only adds to the data.
LEMMA QueueInv ==
    ASSUME Inv, QueueDataForHost
    PROVE  Inv'
<1> TypeOK /\ Descs /\ Loops
  BY DEF Inv
<1>1. /\ pc = "queue" /\ pc' = "unpack" /\ i = Count + 1
      /\ data' = Resized(data, data_size)
      /\ UNCHANGED <<size, packets, i, offset, descriptors, data_size, error_count, taken,
                     received>>
  BY DEF QueueDataForHost, Loops
<1>2. /\ Count' = Count /\ PacketLength' = PacketLength
      /\ \A k : Start(k)' = Start(k) /\ Brought(k)' = Brought(k)
      /\ \A k : Clean(k)' <=> Clean(k)
  BY <1>1, SamePackets
<1>3. Described = Count /\ Described' = Count
  BY <1>1, <1>2 DEF Described
<1>4. PICK S \in [0 .. Count -> 0 .. size] : Totals(S) /\ Fetched(S) /\ Handed(S)
  BY <1>3 DEF Inv
<1>5. size \in Nat /\ Count \in Nat \ {0} /\ data_size \in 0 .. size
      /\ data \in Seq(0 .. size) /\ Len(data) \in Nat
  BY Places DEF TypeOK
<1>6. Len(data) <= data_size
  <2>1. Len(data) <= S[i - 1] /\ i - 1 = Count
    BY <1>1, <1>4, <1>5 DEF Fetched
  <2>2. QED
    BY <2>1, <1>3, <1>4 DEF Totals
<1>7. /\ data' \in Seq(0 .. size) /\ Len(data') = data_size
      /\ \A k \in 1 .. Len(data) : data'[k] = data[k]
  <2>1. data' = [k \in 1 .. data_size |-> IF k <= Len(data) THEN data[k] ELSE size]
    BY <1>1 DEF Resized, Padding
  <2>2. \A k \in 1 .. Len(data) : data[k] \in 0 .. size
    BY <1>5
  <2>3. data' \in [1 .. data_size -> 0 .. size]
    BY <2>1, <2>2, <1>5
  <2>4. data' \in Seq(0 .. size) /\ Len(data') = data_size
    BY <2>3, <1>5
  <2>5. QED
    BY <2>1, <2>4, <1>5, <1>6
<1>8. TypeOK'
  BY <1>1, <1>2, <1>7 DEF TypeOK
<1>9. Descs'
  BY <1>1, <1>2, <1>3 DEF Descs
<1>10. Loops'
  BY <1>1, <1>2 DEF Loops
<1>11. Totals(S)'
  BY <1>1, <1>2, <1>3, <1>4 DEF Totals
<1>12. Fetched(S)'
  <2>1. ASSUME NEW j \in 1 .. (i - 1), Clean(j)
        PROVE  /\ S[j] <= Len(data')
               /\ \A m \in 1 .. packets[j].actual_length :
                      data'[S[j - 1] + m] = Start(j) + m - 1
    <3>1. j \in 1 .. Count /\ j \in 0 .. Count /\ j - 1 \in 0 .. Count
      BY <1>1, <1>5
    <3>2. S[j] \in Nat /\ S[j - 1] \in Nat /\ packets[j].actual_length \in Nat
      <4>1. packets[j].actual_length \in Nat
        BY <3>1, Places
      <4>2. QED
        BY <4>1, <3>1, <1>4, <1>5
    <3>3. S[j] = S[j - 1] + packets[j].actual_length
      BY <3>1, <1>3, <1>4 DEF Totals
    <3>4. /\ S[j] <= Len(data)
          /\ \A m \in 1 .. packets[j].actual_length :
                 data[S[j - 1] + m] = Start(j) + m - 1
      BY <2>1, <1>1, <1>4 DEF Fetched
    <3>5. ASSUME NEW m \in 1 .. packets[j].actual_length
          PROVE  data'[S[j - 1] + m] = Start(j) + m - 1
      <4>1. m \in Nat /\ 1 <= m /\ m <= packets[j].actual_length
        BY <3>2
      <4>2. S[j - 1] + m <= S[j]
        BY <4>1, <3>2, <3>3
      <4>3. S[j - 1] + m \in 1 .. Len(data)
        <5>1. S[j - 1] + m \in Nat /\ S[j - 1] + m <= Len(data)
          <6>1. S[j] <= Len(data) /\ Len(data) \in Nat
            BY <3>4, <1>5
          <6>2. QED
            BY <6>1, <4>1, <4>2, <3>2
        <5>2. S[j - 1] + m >= 1
          BY <4>1, <3>2
        <5>3. QED
          BY <5>1, <5>2, <1>5
      <4>4. QED
        BY <4>3, <3>4, <1>7
    <3>6. S[j] <= Len(data')
      BY <3>2, <3>4, <1>5, <1>6, <1>7
    <3>7. QED
      BY <3>5, <3>6
  <2>2. QED
    BY <2>1, <1>1, <1>2, <1>7 DEF Fetched
<1>13. Handed(S)'
  BY <1>1, <1>2, <1>4 DEF Handed, IntactUpToFailure
<1>14. QED
  BY <1>1, <1>3, <1>4, <1>8, <1>9, <1>10, <1>11, <1>12, <1>13 DEF Inv

\* The host takes the next packet from where the lengths before it end.
LEMMA HostUnpackInv ==
    ASSUME Inv, HostUnpack
    PROVE  Inv'
<1> TypeOK /\ Descs /\ Loops
  BY DEF Inv
<1>1. /\ pc = "unpack" /\ i = Count + 1 /\ Len(received) < Count
      /\ UNCHANGED <<size, packets, pc, i, offset, descriptors, data_size, error_count,
                     data>>
  BY DEF HostUnpack, Loops
<1>2. /\ Count' = Count /\ PacketLength' = PacketLength
      /\ \A k : Start(k)' = Start(k) /\ Brought(k)' = Brought(k)
      /\ \A k : Clean(k)' <=> Clean(k)
  BY <1>1, SamePackets
<1>3. Described = Count /\ Described' = Count
  BY <1>1, <1>2 DEF Described
<1>4. PICK S \in [0 .. Count -> 0 .. size] : Totals(S) /\ Fetched(S) /\ Handed(S)
  BY <1>3 DEF Inv
<1>5. /\ size \in Nat /\ Count \in Nat \ {0} /\ Len(data) = data_size
      /\ data_size = S[Count] /\ data_size \in Nat /\ Len(received) \in Nat
      /\ data \in Seq(0 .. size)
  BY <1>1, <1>3, <1>4, Places DEF Fetched, Totals, TypeOK
<1>6. PICK k \in 1 .. Count : k = Len(received) + 1
  BY <1>1, <1>5
<1>7. k - 1 \in 0 .. Count /\ k \in 0 .. Count /\ Count \in 0 .. Count
      /\ k - 1 = Len(received) /\ k \in 1 .. (i - 1)
  BY <1>1, <1>5, <1>6
<1>8. PICK a \in Nat : a = packets[k].actual_length
  BY Places
<1>9. /\ S[k] = S[k - 1] + a /\ S[k - 1] \in Nat /\ S[k] \in Nat
      /\ S[k] <= data_size /\ taken = S[k - 1]
  <2>1. S[k] = S[k - 1] + a
    BY <1>3, <1>4, <1>8 DEF Totals
  <2>2. S[k - 1] \in Nat /\ S[k] \in Nat
    BY <1>4, <1>5, <1>7
  <2>3. S[k] <= S[Count]
    BY <1>3, <1>4, <1>7 DEF Totals
  <2>4. QED
    BY <2>1, <2>2, <2>3, <1>4, <1>5, <1>7 DEF Handed
<1>10. PICK part : part = SubSeq(data, taken + 1, taken + a)
  OBVIOUS
<1>11. /\ received' = Append(received, [at |-> Start(k), bytes |-> part])
       /\ taken' = S[k]
  BY <1>3, <1>6, <1>8, <1>9, <1>10 DEF HostUnpack, Descs
<1>12. /\ part \in Seq(0 .. size) /\ Len(part) = a
       /\ \A m \in 1 .. a : part[m] = data[S[k - 1] + m]
  <2> DEFINE b == S[k - 1] + 1
             e == S[k - 1] + a
  <2>1. b \in Int /\ e \in Int /\ part = SubSeq(data, b, e) /\ e - b + 1 = a
        /\ (b <= e \/ (a = 0 /\ ~ (b <= e)))
        /\ \A m \in 1 .. a : b + m - 1 = S[k - 1] + m
    <3>1. b \in Int /\ e \in Int /\ part = SubSeq(data, b, e)
      BY <1>9, <1>10
    <3>2. \A x, n \in Nat : /\ (x + n) - (x + 1) + 1 = n
                           /\ (x + 1 <= x + n \/ (n = 0 /\ ~ (x + 1 <= x + n)))
                           /\ \A m \in 1 .. n : (x + 1) + m - 1 = x + m
      OBVIOUS
    <3>3. QED
      BY <3>1, <3>2, <1>9
  <2>2. \A m \in b .. e : data[m] \in 0 .. size
    <3>1. e <= Len(data)
      BY <1>5, <1>9
    <3>2. \A m \in b .. e : m \in 1 .. Len(data)
      BY <3>1, <1>5, <1>9, SMTT(30)
    <3>3. QED
      BY <3>2, <1>5, SMTT(30)
  <2> HIDE DEF b, e
  <2>3. /\ SubSeq(data, b, e) \in Seq(0 .. size)
        /\ Len(SubSeq(data, b, e)) = IF b <= e THEN e - b + 1 ELSE 0
        /\ \A m \in 1 .. (e - b + 1) : SubSeq(data, b, e)[m] = data[b + m - 1]
    BY <2>1, <2>2, SubSeqProperties
  <2>4. QED
    BY <2>1, <2>3
<1>13. Start(k) \in Nat /\ Start(k) <= size /\ Start(k) + a <= size
  BY <1>8, Places
<1> DEFINE R == [at : 0 .. size, bytes : Seq(0 .. size)]
           r == [at |-> Start(k), bytes |-> part]
<1>14. r \in R /\ received \in Seq(R)
  BY <1>5, <1>12, <1>13 DEF TypeOK
<1>15. /\ received' \in Seq(R) /\ Len(received') = k
       /\ \A n \in 1 .. (k - 1) : received'[n] = received[n]
       /\ received'[k] = r
  <2>1. received' = Append(received, r) /\ Len(received) + 1 = k
    BY <1>6, <1>11
  <2> HIDE DEF R, r
  <2>2. QED
    BY <2>1, <1>7, <1>14, AppendProperties
<1>16. TypeOK'
  BY <1>1, <1>2, <1>5, <1>9, <1>11, <1>15 DEF TypeOK
<1>17. Descs'
  BY <1>1, <1>2, <1>3 DEF Descs
<1>18. Loops'
  BY <1>1, <1>2 DEF Loops
<1>19. Totals(S)'
  BY <1>1, <1>2, <1>3, <1>4 DEF Totals
<1>20. Fetched(S)'
  BY <1>1, <1>2, <1>4 DEF Fetched
<1>21. IntactUpToFailure'
  <2>1. DOMAIN received = 1 .. (k - 1) /\ DOMAIN received' = 1 .. k
    <3> HIDE DEF R, r
    <3>1. QED
      BY <1>7, <1>14, <1>15, LenProperties
  <2>2. ASSUME NEW n \in 1 .. k, Clean(n)
        PROVE  received'[n] = [at |-> Start(n), bytes |-> Brought(n)]
    <3>1. CASE n = k
      <4>1. \A m \in 1 .. a : part[m] = Start(k) + m - 1
        BY <3>1, <2>2, <1>1, <1>4, <1>7, <1>8, <1>12 DEF Fetched
      <4>2. /\ Brought(k) \in Seq(0 .. size) /\ Len(Brought(k)) = a
            /\ \A m \in 1 .. a : Brought(k)[m] = Start(k) + m - 1
        BY <1>5, <1>8, <1>13, BytesAre DEF Brought
      <4>3. part = Brought(k)
        BY <4>1, <4>2, <1>12, SeqEqual
      <4>4. QED
        BY <3>1, <4>3, <1>15
    <3>2. CASE n # k
      <4>1. n \in 1 .. (k - 1)
        BY <3>2, <1>6
      <4>2. QED
        BY <4>1, <2>1, <2>2, <1>4, <1>15 DEF Handed, IntactUpToFailure, Clean
    <3>3. QED
      BY <3>1, <3>2
  <2>3. QED
    BY <2>1, <2>2, <1>1, <1>2 DEF IntactUpToFailure, Clean
<1>22. Handed(S)'
  BY <1>2, <1>5, <1>6, <1>11, <1>15, <1>21 DEF Handed
<1>23. QED
  BY <1>1, <1>3, <1>4, <1>16, <1>17, <1>18, <1>19, <1>20, <1>22 DEF Inv
-----------------------------------------------------------------------------
(* What the invariant says of iso_descriptors, iso_data and the host. *)

\* The invariant holds in every state of queue_data_for_host, for every size of
\* the buffer and every outcome of the packets.
THEOREM InvTheorem == Spec => []Inv
<1>1. Init => Inv
  BY InitInv
<1>2. Inv /\ [Next]_vars => Inv'
  <2> SUFFICES ASSUME Inv, [Next]_vars
               PROVE  Inv'
    OBVIOUS
  <2>1. CASE UNCHANGED vars
    BY <2>1, ZenonT(40) DEF vars, Inv, TypeOK, Descs, Loops, Totals, Fetched, Handed, Described,
               IntactUpToFailure, Count, PacketLength, PacketSize, Start, Brought, Bytes,
               Clean
  <2>2. CASE Next
    BY <2>2, DescribeInv, DescribeEndInv, CollectSkipInv, CollectInv, CollectEndInv,
       QueueInv, HostUnpackInv DEF Next
  <2>3. QED
    BY <2>1, <2>2
<1>3. QED
  BY <1>1, <1>2, PTL DEF Spec

\* iso_data never reads outside the transfer buffer, wherever an error left its
\* offset.
THEOREM InBoundsTheorem == Spec => []InBounds
<1>1. Inv => InBounds
  <2> SUFFICES ASSUME Inv, pc = "collect", i <= Count
               PROVE  offset + packets[i].actual_length <= size
    BY DEF InBounds
  <2>1. TypeOK /\ Loops
    BY DEF Inv
  <2>2. i \in 1 .. Count /\ offset \in Nat /\ offset <= Start(i)
    BY <2>1, Places DEF TypeOK, Loops
  <2>3. /\ Start(i) \in Nat /\ PacketLength \in Nat /\ size \in Nat
        /\ Start(i) + PacketLength <= size
        /\ packets[i].actual_length \in Nat /\ packets[i].actual_length <= PacketLength
    BY <2>1, <2>2, Places
  <2>4. QED
    BY <2>2, <2>3
<1>2. QED
  BY <1>1, InvTheorem, PTL

\* The resize of queue_data_for_host never cuts data off.
THEOREM NothingTruncatedTheorem == Spec => []NothingTruncated
<1>1. Inv => NothingTruncated
  <2> SUFFICES ASSUME Inv, pc = "queue"
               PROVE  Len(data) <= data_size
    BY DEF NothingTruncated
  <2>1. TypeOK /\ Loops
    BY DEF Inv
  <2>2. PICK S : Totals(S) /\ Fetched(S)
    BY DEF Inv
  <2>3. i - 1 = Count /\ Described = Count
    BY <2>1, Places DEF Loops, Described
  <2>4. QED
    BY <2>2, <2>3 DEF Totals, Fetched
<1>2. QED
  BY <1>1, InvTheorem, PTL

\* Every packet in front of the first error reaches the host whole, and from its
\* own place in the buffer.
THEOREM IntactUpToFailureTheorem == Spec => []IntactUpToFailure
<1>1. Inv => IntactUpToFailure
  BY DEF Inv, Handed
<1>2. QED
  BY <1>1, InvTheorem, PTL
=============================================================================
