-------------------------- MODULE DeviceConfigProofs --------------------------
(***************************************************************************)
(* Proofs about DeviceConfig for every set of devices: what the tree       *)
(* answers is what the device answers, and load gives back what save and   *)
(* the parser wrote, or refuses it.                                        *)
(***************************************************************************)
EXTENDS DeviceConfig, SequenceTheorems, FiniteSetTheorems, TLAPS

-----------------------------------------------------------------------------
(* Sequences of sequences. *)

\* A set that holds 0, and with every number below n the next one.
LEMMA Induction ==
    ASSUME NEW n \in Nat, NEW P, 0 \in P, \A i \in 1 .. n : i - 1 \in P => i \in P
    PROVE  \A i \in 0 .. n : i \in P
<1> DEFINE Bad == {i \in 0 .. n : i \notin P}
<1> SUFFICES ASSUME Bad # {} PROVE FALSE
  OBVIOUS
<1>1. Bad \subseteq Nat
  OBVIOUS
<1>2. PICK x \in Bad : \A y \in Bad : ~(<<y, x>> \in OpToRel(<, Nat))
  <2> HIDE DEF Bad
  <2>1. QED
    BY <1>1, NatLessThanWellFounded, WFMin
<1>3. x \in Nat /\ x # 0 /\ x \in 1 .. n /\ x - 1 \in 0 .. n
  OBVIOUS
<1>4. x - 1 \notin P
  BY <1>3
<1>5. x - 1 \in Bad
  BY <1>3, <1>4
<1>6. <<x - 1, x>> \in OpToRel(<, Nat)
  BY <1>3 DEF OpToRel
<1>7. QED
  BY <1>2, <1>5, <1>6

\* FlattenSeq concatenates one sequence after the other.
LEMMA Flatten ==
    ASSUME NEW S, NEW ss \in Seq(Seq(S))
    PROVE  \E flat : /\ flat \in [0 .. Len(ss) -> Seq(S)]
                     /\ flat[0] = <<>>
                     /\ \A i \in 1 .. Len(ss) : flat[i] = flat[i - 1] \o ss[i]
                     /\ FlattenSeq(ss) = flat[Len(ss)]
<1> DEFINE n == Len(ss)
           Rec(m, g) == g = [i \in 1 .. m |-> IF i = 1 THEN ss[i] ELSE g[i - 1] \o ss[i]]
           Has == {m \in 0 .. n : \E g : Rec(m, g)}
           f == CHOOSE g : Rec(n, g)
           flat == [i \in 0 .. n |-> IF i = 0 THEN <<>> ELSE f[i]]
           Typed == {m \in 0 .. n : flat[m] \in Seq(S)}
<1>1. n \in Nat /\ \A i \in 1 .. n : ss[i] \in Seq(S)
  OBVIOUS
<1>2. 0 \in Has
  <2>1. Rec(0, [i \in 1 .. 0 |-> 0])
    OBVIOUS
  <2> HIDE DEF Rec
  <2>2. QED
    BY <2>1, <1>1
<1>3. ASSUME NEW m \in 1 .. n, m - 1 \in Has PROVE m \in Has
  <2>1. PICK g : Rec(m - 1, g)
    BY <1>3
  <2> DEFINE h == [i \in 1 .. m |-> IF i < m THEN g[i]
                                    ELSE IF i = 1 THEN ss[i] ELSE g[i - 1] \o ss[i]]
  <2>2. Rec(m, h)
    <3>1. ASSUME NEW i \in 1 .. m
          PROVE  h[i] = IF i = 1 THEN ss[i] ELSE h[i - 1] \o ss[i]
      <4>1. CASE i = m
        BY <4>1
      <4>2. CASE i < m
        <5>1. i \in 1 .. m - 1 /\ h[i] = g[i]
          BY <4>2
        <5>2. g[i] = IF i = 1 THEN ss[i] ELSE g[i - 1] \o ss[i]
          BY <2>1, <5>1
        <5>3. i # 1 => h[i - 1] = g[i - 1]
          BY <4>2
        <5>4. QED
          BY <5>1, <5>2, <5>3
      <4>3. QED
        BY <4>1, <4>2, <1>1
    <3>2. QED
      BY <3>1
  <2> HIDE DEF Rec, h
  <2>3. \E x : Rec(m, x)
    BY <2>2
  <2>4. m \in 0 .. n
    BY <1>1
  <2>5. QED
    BY <2>3, <2>4
<1>4. n \in Has
  <2> HIDE DEF Has
  <2>1. \A i \in 0 .. n : i \in Has
    BY <1>1, <1>2, <1>3, Induction
  <2>2. QED
    BY <2>1, <1>1
<1>5. Rec(n, f)
  BY <1>4
<1>6. \A i \in 1 .. n : flat[i] = flat[i - 1] \o ss[i]
  <2> SUFFICES ASSUME NEW i \in 1 .. n PROVE flat[i] = flat[i - 1] \o ss[i]
    OBVIOUS
  <2> HIDE DEF f
  <2>1. f[i] = IF i = 1 THEN ss[i] ELSE f[i - 1] \o ss[i]
    BY <1>5
  <2>2. flat[i] = f[i] /\ (i # 1 => flat[i - 1] = f[i - 1]) /\ flat[0] = <<>>
    BY <1>1
  <2>3. <<>> \o ss[i] = ss[i]
    BY <1>1, ConcatEmptySeq
  <2>4. CASE i = 1
    BY <2>1, <2>2, <2>3, <2>4, SMTT(30)
  <2>5. CASE i # 1
    BY <2>1, <2>2, <2>5
  <2>6. QED
    BY <2>4, <2>5
<1>7. flat[0] = <<>>
  BY <1>1
<1>8. \A i \in 0 .. n : flat[i] \in Seq(S)
  <2>1. 0 \in Typed
    BY <1>1, <1>7
  <2>2. ASSUME NEW m \in 1 .. n, m - 1 \in Typed PROVE m \in Typed
    <3> HIDE DEF flat
    <3>1. flat[m] = flat[m - 1] \o ss[m] /\ flat[m - 1] \in Seq(S) /\ ss[m] \in Seq(S)
      BY <1>1, <1>6, <2>2
    <3>2. flat[m] \in Seq(S)
      BY <3>1, ConcatProperties
    <3>3. QED
      BY <3>2
  <2>3. \A i \in 0 .. n : i \in Typed
    <3> HIDE DEF Typed
    <3>1. QED
      BY <1>1, <2>1, <2>2, Induction
  <2>4. QED
    BY <2>3
<1>9. FlattenSeq(ss) = flat[n]
  <2>1. CASE n = 0
    BY <2>1, <1>7 DEF FlattenSeq
  <2>2. CASE n # 0
    <3>1. FlattenSeq(ss) = f[n]
      BY <2>2 DEF FlattenSeq
    <3>2. QED
      BY <3>1, <2>2, <1>1
  <2>3. QED
    BY <2>1, <2>2
<1>10. QED
  <2> HIDE DEF f
  <2>1. flat \in [0 .. n -> Seq(S)]
    BY <1>8
  <2> HIDE DEF flat
  <2>2. QED
    BY <2>1, <1>6, <1>7, <1>9

\* The type of FlattenSeq.
LEMMA FlattenType ==
    ASSUME NEW S, NEW ss \in Seq(Seq(S))
    PROVE  FlattenSeq(ss) \in Seq(S)
<1>1. PICK flat : flat \in [0 .. Len(ss) -> Seq(S)] /\ FlattenSeq(ss) = flat[Len(ss)]
  BY Flatten
<1>2. Len(ss) \in 0 .. Len(ss)
  OBVIOUS
<1>3. QED
  BY <1>1, <1>2

\* A function that grows by one sequence at a time ends with FlattenSeq.
LEMMA FlattenUnique ==
    ASSUME NEW S, NEW ss \in Seq(Seq(S)), NEW g, g[0] = <<>>,
           \A i \in 1 .. Len(ss) : g[i] = g[i - 1] \o ss[i]
    PROVE  FlattenSeq(ss) = g[Len(ss)]
<1>1. PICK flat : /\ flat \in [0 .. Len(ss) -> Seq(S)]
                  /\ flat[0] = <<>>
                  /\ \A i \in 1 .. Len(ss) : flat[i] = flat[i - 1] \o ss[i]
                  /\ FlattenSeq(ss) = flat[Len(ss)]
  BY Flatten
<1> DEFINE Same == {i \in 0 .. Len(ss) : flat[i] = g[i]}
<1>2. Len(ss) \in Nat
  OBVIOUS
<1>3. 0 \in Same
  BY <1>1, <1>2
<1>4. ASSUME NEW i \in 1 .. Len(ss), i - 1 \in Same PROVE i \in Same
  <2>1. flat[i - 1] = g[i - 1] /\ i \in 0 .. Len(ss)
    BY <1>2, <1>4
  <2>2. flat[i] = g[i]
    BY <1>1, <2>1
  <2>3. QED
    BY <2>1, <2>2
<1>5. \A i \in 0 .. Len(ss) : i \in Same
  <2> HIDE DEF Same
  <2>1. QED
    BY <1>2, <1>3, <1>4, Induction
<1>6. QED
  BY <1>1, <1>2, <1>5

\* The concatenation of one sequence, and of none.
LEMMA FlattenOne ==
    ASSUME NEW S, NEW s \in Seq(S)
    PROVE  FlattenSeq(<<s>>) = s /\ FlattenSeq(<<>>) = <<>>
<1>1. <<s>> \in Seq(Seq(S)) /\ Len(<<s>>) = 1 /\ <<s>>[1] = s
  OBVIOUS
<1> DEFINE g == [i \in {0, 1} |-> IF i = 0 THEN <<>> ELSE s]
<1>2. g[0] = <<>> /\ g[1] = s /\ <<>> \o s = s
  BY ConcatEmptySeq
<1>3. \A i \in 1 .. Len(<<s>>) : g[i] = g[i - 1] \o <<s>>[i]
  BY <1>1, <1>2
<1>4. FlattenSeq(<<s>>) = g[Len(<<s>>)]
  <2> HIDE DEF g
  <2>1. QED
    BY <1>1, <1>2, <1>3, FlattenUnique
<1>5. FlattenSeq(<<>>) = <<>>
  BY DEF FlattenSeq
<1>6. QED
  BY <1>1, <1>2, <1>4, <1>5

-----------------------------------------------------------------------------
(* What the tree answers. *)

\* A list of the members of a struct, each one once.
IsList(fields, n) ==
    /\ fields \in Seq(Range(fields))
    /\ Len(fields) = n
    /\ \A i, j \in 1 .. n : fields[i] = fields[j] => i = j

\* How to see that fields is such a list.
LEMMA Listed ==
    ASSUME NEW fields, NEW n \in Nat, DOMAIN fields = 1 .. n,
           fields = [i \in 1 .. n |-> fields[i]],
           \A i, j \in 1 .. n : fields[i] = fields[j] => i = j
    PROVE  IsList(fields, n)
<1>1. \A i \in 1 .. n : fields[i] \in Range(fields)
  BY DEF Range
<1>2. QED
  BY <1>1 DEF IsList

\* The lists of libusb's structs name every member once.
LEMMA FieldLists ==
    /\ IsList(DeviceFields, 14)
    /\ IsList(ConfigFields, 8)
    /\ IsList(InterfaceFields, 9)
    /\ IsList(EndpointFields, 8)
    /\ IsList(BosFields, 4)
    /\ IsList(CapFields, 3)
<1>1. IsList(DeviceFields, 14)
  <2>1. DOMAIN DeviceFields = 1 .. 14 /\ DeviceFields = [i \in 1 .. 14 |-> DeviceFields[i]]
    BY DEF DeviceFields
  <2>2. \A i, j \in 1 .. 14 : DeviceFields[i] = DeviceFields[j] => i = j
    BY DEF DeviceFields
  <2>3. QED
    BY <2>1, <2>2, Listed
<1>2. IsList(ConfigFields, 8)
  <2>1. DOMAIN ConfigFields = 1 .. 8 /\ ConfigFields = [i \in 1 .. 8 |-> ConfigFields[i]]
    BY DEF ConfigFields
  <2>2. \A i, j \in 1 .. 8 : ConfigFields[i] = ConfigFields[j] => i = j
    BY DEF ConfigFields
  <2>3. QED
    BY <2>1, <2>2, Listed
<1>3. IsList(InterfaceFields, 9)
  <2>1. DOMAIN InterfaceFields = 1 .. 9 /\ InterfaceFields = [i \in 1 .. 9 |-> InterfaceFields[i]]
    BY DEF InterfaceFields
  <2>2. \A i, j \in 1 .. 9 : InterfaceFields[i] = InterfaceFields[j] => i = j
    BY DEF InterfaceFields
  <2>3. QED
    BY <2>1, <2>2, Listed
<1>4. IsList(EndpointFields, 8)
  <2>1. DOMAIN EndpointFields = 1 .. 8 /\ EndpointFields = [i \in 1 .. 8 |-> EndpointFields[i]]
    BY DEF EndpointFields
  <2>2. \A i, j \in 1 .. 8 : EndpointFields[i] = EndpointFields[j] => i = j
    BY DEF EndpointFields
  <2>3. QED
    BY <2>1, <2>2, Listed
<1>5. IsList(BosFields, 4)
  <2>1. DOMAIN BosFields = 1 .. 4 /\ BosFields = [i \in 1 .. 4 |-> BosFields[i]]
    BY DEF BosFields
  <2>2. \A i, j \in 1 .. 4 : BosFields[i] = BosFields[j] => i = j
    BY DEF BosFields
  <2>3. QED
    BY <2>1, <2>2, Listed
<1>6. IsList(CapFields, 3)
  <2>1. DOMAIN CapFields = 1 .. 3 /\ CapFields = [i \in 1 .. 3 |-> CapFields[i]]
    BY DEF CapFields
  <2>2. \A i, j \in 1 .. 3 : CapFields[i] = CapFields[j] => i = j
    BY DEF CapFields
  <2>3. QED
    BY <2>1, <2>2, Listed
<1>7. QED
  BY <1>1, <1>2, <1>3, <1>4, <1>5, <1>6

\* A word holds more than a byte; the number itself never matters.
LEMMA Limit == WordLimit \in Nat /\ WordLimit > 256
  BY SMT DEF WordLimit

\* The members of a struct by their place.
LEMMA Members ==
    ASSUME NEW n \in Nat, NEW fields, IsList(fields, n), NEW s \in Structs(fields)
    PROVE  \A i \in 1 .. n : /\ s[fields[i]] \in Nat
                            /\ s[fields[i]] < IF fields[i] \in Words THEN WordLimit ELSE 256
<1> SUFFICES ASSUME NEW i \in 1 .. n
             PROVE  /\ s[fields[i]] \in Nat
                    /\ s[fields[i]] < IF fields[i] \in Words THEN WordLimit ELSE 256
  OBVIOUS
<1>1. fields[i] \in Range(fields)
  BY DEF IsList
<1>2. QED
  BY <1>1 DEF Structs

\* Bytes are numbers.
LEMMA PackStructType ==
    ASSUME NEW S, NEW fields \in Seq(S), NEW s,
           \A i \in 1 .. Len(fields) : s[fields[i]] \in Nat
    PROVE  PackStruct(s, fields) \in Seq(Nat)
<1> DEFINE ss == [i \in DOMAIN fields |-> LittleEndian(s[fields[i]], Width(fields[i]))]
<1>1. \A w : \A v \in Nat : LittleEndian(v, w) \in Seq(Nat)
  BY DEF LittleEndian
<1>2. DOMAIN fields = 1 .. Len(fields) /\ Len(fields) \in Nat
  OBVIOUS
<1>3. \A i \in 1 .. Len(fields) : LittleEndian(s[fields[i]], Width(fields[i])) \in Seq(Nat)
  BY <1>1
<1>4. ss \in Seq(Seq(Nat))
  BY <1>2, <1>3
<1>5. PackStruct(s, fields) = FlattenSeq(ss)
  BY DEF PackStruct, Each
<1>6. QED
  <2> HIDE DEF ss
  <2>1. QED
    BY <1>4, <1>5, FlattenType

\* A packed struct of any of the lists is a sequence of numbers.
LEMMA PackWhole ==
    ASSUME NEW n \in Nat, NEW fields, IsList(fields, n), NEW s \in Structs(fields)
    PROVE  PackStruct(s, fields) \in Seq(Nat)
<1>1. fields \in Seq(Range(fields)) /\ Len(fields) = n
  BY DEF IsList
<1>2. \A i \in 1 .. Len(fields) : s[fields[i]] \in Nat
  BY <1>1, Members
<1>3. QED
  BY <1>1, <1>2, PackStructType

\* A sequence of bytes is a sequence of numbers.
LEMMA BytesAreNumbers == ASSUME NEW s \in Seq(Bytes) PROVE s \in Seq(Nat)
<1>1. Bytes \subseteq Nat
  BY DEF Bytes
<1>2. QED
  BY <1>1, SeqMonotonic

\* The bytes of an endpoint, with its two more bytes or without.
LEMMA RawEndpointType ==
    ASSUME NEW e \in Endpoints
    PROVE  RawEndpoint(e) \in Seq(Nat) /\ TreeEndpoint(e) = RawEndpoint(e)
<1>1. e.header \in Structs(EndpointFields) /\ e.extra \in Seq(Bytes)
  BY DEF Endpoints
<1> DEFINE S == Range(EndpointFields)
           six == SubSeq(EndpointFields, 1, 6)
<1>2. EndpointFields \in Seq(S) /\ Len(EndpointFields) = 8
  BY FieldLists DEF IsList
<1>3. six \in Seq(S) /\ Len(six) = 6 /\ \A i \in 1 .. 6 : six[i] = EndpointFields[i]
  <2> HIDE DEF S
  <2>1. \A i \in 1 .. 6 : EndpointFields[i] \in S
    BY <1>2, ElementOfSeq
  <2>2. QED
    BY <2>1, SubSeqProperties
<1>4. \A i \in 1 .. 8 : e.header[EndpointFields[i]] \in Nat
  BY <1>1, FieldLists, Members
<1>5. PackStruct(e.header, EndpointFields) \in Seq(Nat)
  BY <1>1, FieldLists, PackWhole
<1>6. PackStruct(e.header, six) \in Seq(Nat)
  <2> HIDE DEF six
  <2>1. \A i \in 1 .. Len(six) : i \in 1 .. 6 /\ i \in 1 .. 8
    BY <1>3
  <2>2. \A i \in 1 .. Len(six) : e.header[six[i]] \in Nat
    BY <2>1, <1>3, <1>4
  <2>3. QED
    BY <1>3, <2>2, PackStructType
<1>7. PackEndpoint(e.header) \in Seq(Nat)
  BY <1>5, <1>6 DEF PackEndpoint
<1>8. e.extra \in Seq(Nat)
  BY <1>1, BytesAreNumbers
<1>9. QED
  BY <1>7, <1>8, ConcatProperties DEF RawEndpoint, TreeEndpoint

\* The concatenation of what is made of each element of a sequence.
LEMMA EachType ==
    ASSUME NEW S, NEW n \in Nat, NEW ss, DOMAIN ss = 1 .. n, ss = [i \in 1 .. n |-> ss[i]],
           \A i \in 1 .. n : ss[i] \in Seq(S)
    PROVE  ss \in Seq(Seq(S)) /\ Len(ss) = n /\ FlattenSeq(ss) \in Seq(S)
<1>1. ss \in Seq(Seq(S)) /\ Len(ss) = n
  OBVIOUS
<1>2. QED
  BY <1>1, FlattenType

\* Counts that announce what is there leave an array as it is.
LEMMA Announced ==
    ASSUME NEW S, NEW s \in Seq(S)
    PROVE  Vectorize(s, Len(s)) = s /\ s = [i \in 1 .. Len(s) |-> s[i]]
  BY SubSeqFull, LenProperties DEF Vectorize

\* The tree keeps an alternate setting, and packs it as the device sends it.
LEMMA InterfaceFacts ==
    ASSUME NEW a \in CountedAlternates
    PROVE  /\ BuildInterface(a) = a
           /\ RawInterface(a) \in Seq(Nat)
           /\ TreeInterface(a) = RawInterface(a)
<1>1. /\ a.header \in Structs(InterfaceFields) /\ a.extra \in Seq(Bytes)
      /\ a.endpoints \in Seq(Endpoints) /\ a.header["bNumEndpoints"] = Len(a.endpoints)
      /\ a = [a EXCEPT !.endpoints = a.endpoints]
  BY DEF CountedAlternates, Alternates
<1>2. Vectorize(a.endpoints, Len(a.endpoints)) = a.endpoints
  BY <1>1, Announced
<1>3. BuildInterface(a) = a
  BY <1>1, <1>2 DEF BuildInterface
<1> DEFINE raw == [i \in DOMAIN a.endpoints |-> RawEndpoint(a.endpoints[i])]
           own == [i \in DOMAIN a.endpoints |-> TreeEndpoint(a.endpoints[i])]
<1>4. /\ DOMAIN a.endpoints = 1 .. Len(a.endpoints) /\ Len(a.endpoints) \in Nat
      /\ \A i \in 1 .. Len(a.endpoints) : a.endpoints[i] \in Endpoints
  BY <1>1
<1>5. raw = own /\ \A i \in 1 .. Len(a.endpoints) : raw[i] \in Seq(Nat)
  BY <1>4, RawEndpointType
<1>6. FlattenSeq(raw) \in Seq(Nat)
  <2>1. DOMAIN raw = 1 .. Len(a.endpoints) /\ raw = [i \in 1 .. Len(a.endpoints) |-> raw[i]]
    BY <1>4
  <2> HIDE DEF raw, own
  <2>2. QED
    BY <1>4, <1>5, <2>1, EachType, ZenonT(40)
<1>7. PackStruct(a.header, InterfaceFields) \in Seq(Nat) /\ a.extra \in Seq(Nat)
  BY <1>1, FieldLists, PackWhole, BytesAreNumbers
<1>8. /\ RawInterface(a) = PackStruct(a.header, InterfaceFields) \o a.extra \o FlattenSeq(raw)
      /\ TreeInterface(a) = PackStruct(a.header, InterfaceFields) \o a.extra \o FlattenSeq(own)
  BY <1>1, <1>2 DEF RawInterface, TreeInterface, Each
<1>9. QED
  <2> HIDE DEF raw, own
  <2>1. QED
    BY <1>3, <1>5, <1>6, <1>7, <1>8, ConcatProperties

\* The same of all the alternate settings of an interface.
LEMMA UsbInterfaceFacts ==
    ASSUME NEW f \in Seq(CountedAlternates)
    PROVE  /\ [i \in DOMAIN f |-> BuildInterface(f[i])] = f
           /\ Each(f, RawInterface) \in Seq(Nat)
           /\ Each(f, TreeInterface) = Each(f, RawInterface)
<1> DEFINE raw == [i \in DOMAIN f |-> RawInterface(f[i])]
           own == [i \in DOMAIN f |-> TreeInterface(f[i])]
<1>1. DOMAIN f = 1 .. Len(f) /\ Len(f) \in Nat /\ f = [i \in 1 .. Len(f) |-> f[i]]
  OBVIOUS
<1>2. \A i \in 1 .. Len(f) : f[i] \in CountedAlternates
  OBVIOUS
<1>3. [i \in DOMAIN f |-> BuildInterface(f[i])] = f
  BY <1>1, <1>2, InterfaceFacts
<1>4. raw = own /\ \A i \in 1 .. Len(f) : raw[i] \in Seq(Nat)
  BY <1>1, <1>2, InterfaceFacts
<1>5. DOMAIN raw = 1 .. Len(f) /\ raw = [i \in 1 .. Len(f) |-> raw[i]]
  BY <1>1
<1>6. Each(f, RawInterface) = FlattenSeq(raw) /\ Each(f, TreeInterface) = FlattenSeq(own)
  BY DEF Each
<1>7. QED
  <2> HIDE DEF raw, own
  <2>1. FlattenSeq(raw) \in Seq(Nat)
    BY <1>1, <1>4, <1>5, EachType, ZenonT(40)
  <2>2. QED
    BY <1>3, <1>4, <1>6, <2>1

\* The same of a configuration.
LEMMA ConfigFacts ==
    ASSUME NEW c \in CountedConfigs
    PROVE  /\ BuildConfig(c) = c
           /\ RawConfig(c) \in Seq(Nat)
           /\ TreeConfig(c) = RawConfig(c)
<1> DEFINE f == c.interfaces
           raw == [i \in DOMAIN f |-> Each(f[i], RawInterface)]
           own == [i \in DOMAIN f |-> Each(f[i], TreeInterface)]
           built == [i \in 1 .. c.header["bNumInterfaces"] |->
                        [a \in DOMAIN f[i] |-> BuildInterface(f[i][a])]]
<1>1. /\ c.header \in Structs(ConfigFields) /\ c.extra \in Seq(Bytes)
      /\ f \in Seq(Seq(CountedAlternates)) /\ c.header["bNumInterfaces"] = Len(f)
      /\ c = [c EXCEPT !.interfaces = f]
  BY DEF CountedConfigs, Configs
<1>2. /\ DOMAIN f = 1 .. Len(f) /\ Len(f) \in Nat /\ f = [i \in 1 .. Len(f) |-> f[i]]
      /\ \A i \in 1 .. Len(f) : f[i] \in Seq(CountedAlternates)
      /\ Vectorize(f, Len(f)) = f
  <2> HIDE DEF f
  <2>1. f = [i \in 1 .. Len(f) |-> f[i]] /\ Vectorize(f, Len(f)) = f
    BY <1>1, Announced
  <2>2. QED
    BY <1>1, <2>1
<1>3. built = f
  <2> HIDE DEF f
  <2>1. \A i \in 1 .. Len(f) : [a \in DOMAIN f[i] |-> BuildInterface(f[i][a])] = f[i]
    BY <1>2, UsbInterfaceFacts
  <2>2. QED
    BY <1>1, <1>2, <2>1
<1>4. BuildConfig(c) = c
  <2>1. BuildConfig(c) = [c EXCEPT !.interfaces = built]
    BY DEF BuildConfig
  <2> HIDE DEF built
  <2>2. QED
    BY <2>1, <1>1, <1>3
<1>5. raw = own /\ \A i \in 1 .. Len(f) : raw[i] \in Seq(Nat)
  <2> HIDE DEF f
  <2>1. QED
    BY <1>2, UsbInterfaceFacts
<1>6. DOMAIN raw = 1 .. Len(f) /\ raw = [i \in 1 .. Len(f) |-> raw[i]]
  <2> HIDE DEF f
  <2>1. QED
    BY <1>2
<1>7. FlattenSeq(raw) \in Seq(Nat)
  <2> HIDE DEF raw, own, f
  <2>1. QED
    BY <1>2, <1>5, <1>6, EachType, ZenonT(40)
<1>8. PackStruct(c.header, ConfigFields) \in Seq(Nat) /\ c.extra \in Seq(Nat)
  BY <1>1, FieldLists, PackWhole, BytesAreNumbers
<1>9. /\ RawConfig(c) = PackStruct(c.header, ConfigFields) \o c.extra \o FlattenSeq(raw)
      /\ TreeConfig(c) = PackStruct(c.header, ConfigFields) \o c.extra \o FlattenSeq(own)
  <2>1. Vectorize(c.interfaces, c.header["bNumInterfaces"]) = f
    BY <1>1, <1>2
  <2>2. RawConfig(c) = PackStruct(c.header, ConfigFields) \o c.extra
                           \o Each(f, LAMBDA iface : Each(iface, RawInterface))
    BY <2>1 DEF RawConfig
  <2>3. Each(f, LAMBDA iface : Each(iface, RawInterface)) = FlattenSeq(raw)
    BY DEF Each
  <2>4. TreeConfig(c) = PackStruct(c.header, ConfigFields) \o c.extra \o FlattenSeq(own)
    BY DEF TreeConfig, Each
  <2>5. QED
    BY <2>2, <2>3, <2>4
<1>10. QED
  <2> HIDE DEF raw, own
  <2>1. QED
    BY <1>4, <1>5, <1>7, <1>8, <1>9, ConcatProperties

\* The same of a device capability.
LEMMA CapFacts ==
    ASSUME NEW c \in CountedCaps
    PROVE  /\ BuildCap(c) = c
           /\ RawCap(c) \in Seq(Nat)
           /\ PackStruct(c.header, CapFields) \o c.data = RawCap(c)
<1>1. /\ c.header \in Structs(CapFields) /\ c.data \in Seq(Bytes)
      /\ c.header["bLength"] = Len(CapFields) + Len(c.data) /\ Len(CapFields) = 3
      /\ c = [c EXCEPT !.data = c.data]
  BY FieldLists DEF CountedCaps, Caps, IsList
<1>2. Vectorize(c.data, Len(c.data)) = c.data /\ Len(c.data) \in Nat
  BY <1>1, Announced
<1>3. c.header["bLength"] - 3 = Len(c.data)
  BY <1>1, <1>2
<1>4. PackStruct(c.header, CapFields) \in Seq(Nat) /\ c.data \in Seq(Nat)
  BY <1>1, FieldLists, PackWhole, BytesAreNumbers
<1>5. BuildCap(c) = c
  BY <1>1, <1>2, <1>3 DEF BuildCap
<1>6. RawCap(c) = PackStruct(c.header, CapFields) \o c.data
  BY <1>1, <1>2, <1>3 DEF RawCap
<1>7. QED
  BY <1>4, <1>5, <1>6, ConcatProperties

\* The same of a BOS descriptor.
LEMMA BosFacts ==
    ASSUME NEW b \in CountedBosSet
    PROVE  /\ BuildBos(<<b>>) = b
           /\ RawBos(b) \in Seq(Nat)
           /\ TreeBos(b) = RawBos(b)
<1> DEFINE f == b.caps
           raw == [i \in DOMAIN f |-> RawCap(f[i])]
           own == [i \in DOMAIN f |-> PackStruct(f[i].header, CapFields) \o f[i].data]
           built == [i \in 1 .. b.header["bNumDeviceCaps"] |-> BuildCap(f[i])]
<1>1. /\ b.header \in Structs(BosFields) /\ f \in Seq(CountedCaps)
      /\ b.header["bNumDeviceCaps"] = Len(f)
      /\ b = [b EXCEPT !.caps = f]
  BY DEF CountedBosSet, BosSet
<1>2. /\ DOMAIN f = 1 .. Len(f) /\ Len(f) \in Nat /\ f = [i \in 1 .. Len(f) |-> f[i]]
      /\ \A i \in 1 .. Len(f) : f[i] \in CountedCaps
      /\ Vectorize(f, Len(f)) = f
  <2> HIDE DEF f
  <2>1. f = [i \in 1 .. Len(f) |-> f[i]] /\ Vectorize(f, Len(f)) = f
    BY <1>1, Announced
  <2>2. QED
    BY <1>1, <2>1
<1>3. built = f
  <2> HIDE DEF f
  <2>1. \A i \in 1 .. Len(f) : BuildCap(f[i]) = f[i]
    BY <1>2, CapFacts
  <2>2. QED
    BY <1>1, <1>2, <2>1
<1>4. BuildBos(<<b>>) = b
  <2>1. <<b>> # <<>> /\ <<b>>[1] = b
    OBVIOUS
  <2>2. BuildBos(<<b>>) = [b EXCEPT !.caps = built]
    BY <2>1 DEF BuildBos
  <2> HIDE DEF built
  <2>3. QED
    BY <2>2, <1>1, <1>3
<1>5. raw = own /\ \A i \in 1 .. Len(f) : raw[i] \in Seq(Nat)
  <2> HIDE DEF f
  <2>1. QED
    BY <1>2, CapFacts
<1>6. DOMAIN raw = 1 .. Len(f) /\ raw = [i \in 1 .. Len(f) |-> raw[i]]
  <2> HIDE DEF f
  <2>1. QED
    BY <1>2
<1>7. FlattenSeq(raw) \in Seq(Nat)
  <2> HIDE DEF raw, own, f
  <2>1. QED
    BY <1>2, <1>5, <1>6, EachType, ZenonT(40)
<1>8. PackStruct(b.header, BosFields) \in Seq(Nat)
  BY <1>1, FieldLists, PackWhole
<1>9. /\ RawBos(b) = PackStruct(b.header, BosFields) \o FlattenSeq(raw)
      /\ TreeBos(b) = PackStruct(b.header, BosFields) \o FlattenSeq(own)
  <2>1. Vectorize(b.caps, b.header["bNumDeviceCaps"]) = f
    BY <1>1, <1>2
  <2>2. RawBos(b) = PackStruct(b.header, BosFields) \o Each(f, RawCap)
    BY <2>1 DEF RawBos
  <2>3. Each(f, RawCap) = FlattenSeq(raw)
    BY DEF Each
  <2>4. TreeBos(b) = PackStruct(b.header, BosFields) \o FlattenSeq(own)
    BY DEF TreeBos, Each
  <2>5. QED
    BY <2>2, <2>3, <2>4
<1>10. QED
  <2> HIDE DEF raw, own
  <2>1. QED
    BY <1>4, <1>5, <1>7, <1>8, <1>9, ConcatProperties

\* The strings from the first up to one that is not there.
LEMMA Collected ==
    ASSUME NEW ss \in Seq(Seq(Bytes))
    PROVE  \E n \in 0 .. Len(ss) :
               /\ CollectStrings(ss) = SubSeq(ss, 1, n)
               /\ \A i \in 1 .. n : IsString(ss[i])
               /\ n < Len(ss) => ~IsString(ss[n + 1])
<1> DEFINE there == {n \in 0 .. Len(ss) : \A i \in 1 .. n : IsString(ss[i])}
<1>1. Len(ss) \in Nat
  OBVIOUS
<1>2. 0 \in there
  BY <1>1
<1>3. \E n \in there : \A m \in there : m <= n
  <2> SUFFICES ASSUME \A n \in there : \E m \in there : ~(m <= n) PROVE FALSE
    OBVIOUS
  <2>1. \A i \in 1 .. Len(ss) : i - 1 \in there => i \in there
    <3> SUFFICES ASSUME NEW i \in 1 .. Len(ss), i - 1 \in there PROVE i \in there
      OBVIOUS
    <3>1. PICK m \in there : ~(m <= i - 1)
      OBVIOUS
    <3>2. m \in Nat /\ i \in Nat /\ i <= m
      BY <1>1, <3>1
    <3>3. \A j \in 1 .. i : j \in 1 .. m
      BY <3>2
    <3>4. QED
      BY <3>1, <3>3, <1>1
  <2>2. \A i \in 0 .. Len(ss) : i \in there
    <3> HIDE DEF there
    <3>1. QED
      BY <1>1, <1>2, <2>1, Induction
  <2>3. Len(ss) \in there
    BY <1>1, <2>2
  <2>4. PICK m \in there : ~(m <= Len(ss))
    BY <2>3
  <2>5. QED
    BY <2>4, <1>1
<1> DEFINE k == CHOOSE n \in there : \A m \in there : m <= n
<1>4. k \in there /\ \A m \in there : m <= k
  BY <1>3
<1>5. CollectStrings(ss) = SubSeq(ss, 1, k)
  BY DEF CollectStrings
<1>6. k < Len(ss) => ~IsString(ss[k + 1])
  <2> HIDE DEF k
  <2> SUFFICES ASSUME k < Len(ss), IsString(ss[k + 1]) PROVE FALSE
    OBVIOUS
  <2>1. k \in Nat /\ k + 1 \in 0 .. Len(ss) /\ \A i \in 1 .. k : IsString(ss[i])
    BY <1>1, <1>4
  <2>2. \A i \in 1 .. k + 1 : i \in 1 .. k \/ i = k + 1
    BY <2>1
  <2>3. k + 1 \in there
    BY <2>1, <2>2
  <2>4. QED
    BY <2>1, <2>3, <1>4
<1>7. QED
  <2> HIDE DEF k
  <2>1. QED
    BY <1>4, <1>5, <1>6

\* What the tree of a device holds.
LEMMA BuildFacts ==
    ASSUME NEW d, IsDevice(d)
    PROVE  /\ Build(d).dd = d.dd /\ Build(d).config = d.config /\ Build(d).report = d.report
           /\ Build(d).strings = StringDescriptors(d) /\ Build(d).bos = BuildBos(d.bos)
           /\ BuildBos(d.bos) \in BosSet
           /\ d.bos # <<>> => Len(d.bos) = 1 /\ d.bos[1] \in CountedBosSet /\ BuildBos(d.bos) = d.bos[1]
<1>1. d.config \in CountedConfigs /\ d.bos \in Seq(CountedBosSet) /\ Len(d.bos) \in 0 .. 1
  BY DEF IsDevice
<1>2. BuildConfig(d.config) = d.config
  BY <1>1, ConfigFacts
<1>3. ASSUME d.bos # <<>>
      PROVE  Len(d.bos) = 1 /\ d.bos[1] \in CountedBosSet /\ BuildBos(d.bos) = d.bos[1]
  <2>1. Len(d.bos) = 1
    <3>1. Len(d.bos) \in Nat /\ Len(d.bos) # 0
      BY <1>1, <1>3
    <3>2. QED
      BY <3>1, <1>1
  <2>2. d.bos[1] \in CountedBosSet /\ d.bos = <<d.bos[1]>>
    BY <1>1, <2>1
  <2>3. QED
    BY <2>1, <2>2, BosFacts
<1>4. BuildBos(<<>>) \in BosSet
  <2> DEFINE h == [f \in Range(BosFields) |-> 0]
  <2>2. h \in Structs(BosFields)
    BY Limit DEF Structs
  <2> DEFINE b == [header |-> h, caps |-> <<>>]
  <2>3. BuildBos(<<>>) = b
    BY DEF BuildBos
  <2>4. b.header = h /\ b.caps = <<>> /\ <<>> \in Seq(Caps)
    OBVIOUS
  <2>5. b \in [header : Structs(BosFields), caps : Seq(Caps)]
    BY <2>2, <2>4
  <2> HIDE DEF h, b
  <2>6. QED
    BY <2>3, <2>5 DEF BosSet
<1>5. BuildBos(d.bos) \in BosSet
  BY <1>3, <1>4 DEF CountedBosSet
<1>6. QED
  BY <1>2, <1>3, <1>5 DEF Build

\* Where the strings of a device are found.
LEMMA StringFacts ==
    ASSUME NEW d, IsDevice(d)
    PROVE  /\ d.langs = <<>> => DOMAIN StringDescriptors(d) = {}
           /\ d.langs # <<>> => /\ 0 \in DOMAIN StringDescriptors(d)
                                /\ StringDescriptors(d)[0] = <<LangTable(d.langs)>>
           /\ \A l \in Range(d.langs) :
                  /\ l \in 1 .. WordLimit - 1
                  /\ d.strings[l] \in Seq(Seq(Bytes))
                  /\ l \in DOMAIN StringDescriptors(d) <=> CollectStrings(d.strings[l]) # <<>>
                  /\ l \in DOMAIN StringDescriptors(d) =>
                         StringDescriptors(d)[l] = CollectStrings(d.strings[l])
           /\ DOMAIN StringDescriptors(d) \subseteq Range(d.langs) \cup {0}
<1>1. /\ d.langs \in Seq(1 .. WordLimit - 1)
      /\ \A l \in Range(d.langs) : d.strings[l] \in Seq(Seq(Bytes))
  BY DEF IsDevice
<1>2. \A l \in Range(d.langs) : l \in 1 .. WordLimit - 1
  <2>1. \A i \in DOMAIN d.langs : d.langs[i] \in 1 .. WordLimit - 1
    BY <1>1, ElementOfSeq, LenProperties
  <2>2. QED
    BY <2>1 DEF Range
<1>3. d.langs = <<>> => Range(d.langs) = {}
  BY DEF Range
<1> DEFINE map == StringDescriptors(d)
           spoken == {l \in Range(d.langs) : CollectStrings(d.strings[l]) # <<>>}
<1>4. d.langs = <<>> => DOMAIN map = {}
  BY DEF StringDescriptors
<1>5. d.langs # <<>> =>
          map = [l \in spoken \cup {0} |-> IF l = 0 THEN <<LangTable(d.langs)>>
                                           ELSE CollectStrings(d.strings[l])]
  BY DEF StringDescriptors
<1>6. \A l \in Range(d.langs) : l # 0
  BY <1>2, Limit
<1> HIDE DEF map
<1>7. d.langs # <<>> => 0 \in DOMAIN map /\ map[0] = <<LangTable(d.langs)>>
  BY <1>5
<1>8. DOMAIN map \subseteq Range(d.langs) \cup {0}
  BY <1>4, <1>5
<1>9. ASSUME NEW l \in Range(d.langs)
      PROVE  /\ l \in DOMAIN map <=> CollectStrings(d.strings[l]) # <<>>
             /\ l \in DOMAIN map => map[l] = CollectStrings(d.strings[l])
  <2>1. l # 0 /\ d.langs # <<>>
    BY <1>3, <1>6
  <2>2. l \in DOMAIN map <=> l \in spoken
    BY <2>1, <1>5
  <2>3. l \in DOMAIN map => map[l] = CollectStrings(d.strings[l])
    BY <2>1, <2>2, <1>5
  <2>4. QED
    BY <2>2, <2>3
<1>10. QED
  BY <1>1, <1>2, <1>4, <1>7, <1>8, <1>9 DEF map

\* More behind what was asked for does not change it.
LEMMA TruncatedPrefix ==
    ASSUME NEW P \in Seq(Nat), NEW C \in Seq(Nat), NEW n \in Nat
    PROVE  Truncate(Truncate(P \o C, n), Len(Truncate(P, n))) = Truncate(P, n)
<1> DEFINE W == P \o C
           a == IF n < Len(P) THEN n ELSE Len(P)
           b == IF n < Len(W) THEN n ELSE Len(W)
<1>1. /\ W \in Seq(Nat) /\ Len(W) = Len(P) + Len(C)
      /\ \A i \in 1 .. Len(P) : W[i] = P[i]
      /\ Len(P) \in Nat /\ Len(C) \in Nat
  BY ConcatProperties
<1> HIDE DEF W
<1>2. a \in Nat /\ b \in Nat /\ a <= b /\ a <= Len(P) /\ b <= Len(W)
  BY <1>1
<1>3. Truncate(P, n) = SubSeq(P, 1, a) /\ Truncate(W, n) = SubSeq(W, 1, b)
  BY DEF Truncate
<1> HIDE DEF a, b
<1>4. /\ SubSeq(P, 1, a) \in Seq(Nat) /\ Len(SubSeq(P, 1, a)) = a
      /\ \A i \in 1 .. a : SubSeq(P, 1, a)[i] = P[i]
  <2>1. \A i \in 1 .. a : P[i] \in Nat
    BY <1>2
  <2>2. QED
    BY <2>1, <1>2, SubSeqProperties
<1>5. /\ SubSeq(W, 1, b) \in Seq(Nat) /\ Len(SubSeq(W, 1, b)) = b
      /\ \A i \in 1 .. b : SubSeq(W, 1, b)[i] = W[i]
  <2>1. \A i \in 1 .. b : W[i] \in Nat
    BY <1>1, <1>2
  <2>2. QED
    BY <2>1, <1>2, SubSeqProperties
<1> DEFINE T == SubSeq(W, 1, b)
<1>6. Truncate(T, a) = SubSeq(T, 1, a)
  BY <1>2, <1>5 DEF Truncate
<1> HIDE DEF T
<1>7. /\ SubSeq(T, 1, a) \in Seq(Nat) /\ Len(SubSeq(T, 1, a)) = a
      /\ \A i \in 1 .. a : SubSeq(T, 1, a)[i] = T[i]
  <2>1. \A i \in 1 .. a : T[i] \in Nat
    BY <1>2, <1>5 DEF T
  <2>2. QED
    BY <2>1, <1>2, SubSeqProperties
<1>8. \A i \in 1 .. a : SubSeq(T, 1, a)[i] = SubSeq(P, 1, a)[i]
  <2> TAKE i \in 1 .. a
  <2>1. i \in 1 .. b /\ i \in 1 .. Len(P)
    BY <1>1, <1>2
  <2>2. T[i] = W[i]
    BY <2>1, <1>5 DEF T
  <2>3. QED
    BY <2>1, <2>2, <1>1, <1>4, <1>7
<1>9. SubSeq(T, 1, a) = SubSeq(P, 1, a)
  BY <1>4, <1>7, <1>8, SeqEqual
<1>10. QED
  BY <1>3, <1>4, <1>6, <1>9 DEF T, W

\* A string the host asks for is the device's or, behind one that is not
\* there, none.
LEMMA StringAnswer ==
    ASSUME IsDevice(device), NEW l \in Range(device.langs), NEW index \in 1 .. 3
    PROVE  \/ PackString(Build(device), l, index) = DeviceString(l, index)
           \/ /\ PackString(Build(device), l, index) = <<>>
              /\ \E i \in 1 .. index : ~IsString(DeviceString(l, i))
<1> DEFINE ss == device.strings[l]
           map == StringDescriptors(device)
<1>1. /\ ss \in Seq(Seq(Bytes))
      /\ l \in DOMAIN map <=> CollectStrings(ss) # <<>>
      /\ l \in DOMAIN map => map[l] = CollectStrings(ss)
  BY StringFacts
<1>2. Build(device).strings = map
  BY BuildFacts
<1>3. \A i \in 1 .. index :
          DeviceString(l, i) = IF i <= Len(ss) THEN ss[i] ELSE <<>>
  BY DEF DeviceString
<1> HIDE DEF ss, map
<1>4. PICK n \in 0 .. Len(ss) : /\ CollectStrings(ss) = SubSeq(ss, 1, n)
                                /\ \A i \in 1 .. n : IsString(ss[i])
                                /\ n < Len(ss) => ~IsString(ss[n + 1])
  <2>1. ss \in Seq(Seq(Bytes))
    BY <1>1
  <2>2. QED
    BY <2>1, Collected
<1>5. n \in Nat /\ Len(ss) \in Nat
  BY <1>1
<1>6. /\ Len(CollectStrings(ss)) = n /\ CollectStrings(ss) \in Seq(Seq(Bytes))
      /\ \A i \in 1 .. n : CollectStrings(ss)[i] = ss[i]
  <2>1. \A i \in 1 .. n : ss[i] \in Seq(Bytes)
    BY <1>1, <1>4
  <2>2. QED
    BY <2>1, <1>4, <1>5, SubSeqProperties
<1>7. CollectStrings(ss) = <<>> <=> n = 0
  BY <1>6, EmptySeq
<1>8. CASE index <= n
  <2>1. l \in DOMAIN map /\ map[l] = CollectStrings(ss) /\ index \in 1 .. n
    BY <1>1, <1>5, <1>7, <1>8
  <2>2. PackString(Build(device), l, index) = ss[index]
    BY <2>1, <1>2, <1>5, <1>6 DEF PackString
  <2>3. index <= Len(ss) /\ index \in 1 .. index
    BY <1>4, <1>5, <1>8
  <2>4. QED
    BY <2>2, <2>3, <1>3
<1>9. CASE ~(index <= n)
  <2>1. PackString(Build(device), l, index) = <<>>
    BY <1>1, <1>2, <1>5, <1>6, <1>9 DEF PackString
  <2>2. n + 1 \in 1 .. index
    BY <1>5, <1>9
  <2>3. ~IsString(<<>>)
    BY DEF IsString
  <2>4. ~IsString(DeviceString(l, n + 1))
    <3>1. CASE n < Len(ss)
      BY <3>1, <2>2, <1>3, <1>4, <1>5
    <3>2. CASE ~(n < Len(ss))
      BY <3>2, <2>2, <2>3, <1>3, <1>4, <1>5
    <3>3. QED
      BY <3>1, <3>2
  <2>5. QED
    BY <2>1, <2>2, <2>4
<1>10. QED
  BY <1>8, <1>9

\* Truncate of nothing.
LEMMA TruncateNothing == ASSUME NEW n \in Nat PROVE Truncate(<<>>, n) = <<>>
  BY DEF Truncate

\* The tree of a device answers as the device does.
LEMMA Answers ==
    ASSUME device \in Devices, tree = <<Build(device)>>
    PROVE  AnswersOfTheDevice
<1> DEFINE t == Build(device)
<1>1. IsDevice(device) /\ tree[1] = t
  BY DevicesAssumption
<1> SUFFICES ASSUME NEW q \in Requests
             PROVE  LET own == DeviceAnswer(q)
                        reply == Descriptor(t, q)
                    IN  CASE q.type = "device" -> Truncate(reply.data, Len(own)) = own
                          [] q.type = "string" /\ q.index > 0 ->
                               \/ reply.data = own
                               \/ /\ reply.data = <<>>
                                  /\ \E i \in 1 .. q.index :
                                         ~IsString(DeviceString(q.lang, i))
                          [] OTHER -> own # <<>> => reply.data = own
  BY <1>1 DEF AnswersOfTheDevice
<1>2. /\ device.dd \in Structs(DeviceFields) /\ device.config \in CountedConfigs
      /\ device.report \in Seq(Bytes) /\ device.bos \in Seq(CountedBosSet)
  BY <1>1 DEF IsDevice
<1>3. /\ t.dd = device.dd /\ t.config = device.config /\ t.report = device.report
      /\ t.strings = StringDescriptors(device)
  BY <1>1, BuildFacts
<1>4. TreeConfig(t.config) = RawConfig(device.config) /\ RawConfig(device.config) \in Seq(Nat)
  BY <1>2, <1>3, ConfigFacts
<1>5. /\ q.wLength \in Nat
      /\ q.type \in {"device", "config", "string", "bos", "report"}
      /\ q.type = "string" => \/ q.lang = 0 /\ q.index = 0
                              \/ q.lang \in Range(device.langs) /\ q.index \in 1 .. 3
  <2>1. CASE q \in [type : {"device", "config", "bos", "report"}, lang : {0}, index : {0},
                    wLength : WLengths]
    BY <2>1, WLengthsAssumption
  <2>2. CASE q \in {[type |-> "string", lang |-> a[1], index |-> a[2], wLength |-> n] :
                        a \in Asked, n \in WLengths}
    <3>1. PICK a \in Asked, n \in WLengths :
              q = [type |-> "string", lang |-> a[1], index |-> a[2], wLength |-> n]
      BY <2>2
    <3>2. q.type = "string" /\ q.lang = a[1] /\ q.index = a[2] /\ q.wLength = n
      BY <3>1
    <3>3. \/ a[1] = 0 /\ a[2] = 0
          \/ a[1] \in Range(device.langs) /\ a[2] \in 1 .. 3
      BY DEF Asked
    <3>4. QED
      BY <3>2, <3>3, WLengthsAssumption
  <2>3. QED
    BY <2>1, <2>2 DEF Requests
<1> HIDE DEF t
<1> DEFINE own == DeviceAnswer(q)
           data == Descriptor(t, q).data
<1>6. ASSUME q.type = "device" PROVE Truncate(data, Len(own)) = own
  <2> DEFINE P == PackStruct(device.dd, DeviceFields)
  <2>1. P \in Seq(Nat)
    BY <1>2, FieldLists, PackWhole
  <2>2. own = Truncate(P, q.wLength)
    BY <1>6 DEF DeviceAnswer
  <2>3. data = Truncate(P \o RawConfig(device.config), q.wLength)
    BY <1>6, <1>3, <1>4 DEF Descriptor, PackDevice
  <2> HIDE DEF P, own, data
  <2>4. QED
    BY <2>1, <2>2, <2>3, <1>4, <1>5, TruncatedPrefix
<1>7. ASSUME q.type = "config" PROVE data = own
  BY <1>7, <1>4 DEF Descriptor, DeviceAnswer
<1>8. ASSUME q.type = "report" PROVE data = own
  BY <1>8, <1>3 DEF Descriptor, DeviceAnswer
<1>9. ASSUME q.type = "bos" PROVE own # <<>> => data = own
  <2>1. own = Truncate(Each(device.bos, RawBos), q.wLength)
    BY <1>9 DEF DeviceAnswer
  <2>2. data = Truncate(TreeBos(t.bos), q.wLength)
    BY <1>9 DEF Descriptor
  <2>3. CASE device.bos = <<>>
    <3>1. Each(<<>>, RawBos) = <<>>
      BY DEF Each, FlattenSeq
    <3>2. own = <<>>
      BY <2>1, <2>3, <3>1, <1>5, TruncateNothing
    <3>3. QED
      BY <3>2
  <2>4. CASE device.bos # <<>>
    <3> DEFINE b == device.bos[1]
    <3>1. Len(device.bos) = 1 /\ b \in CountedBosSet /\ t.bos = b
      BY <1>1, <2>4, BuildFacts DEF t
    <3>2. TreeBos(b) = RawBos(b) /\ RawBos(b) \in Seq(Nat)
      BY <3>1, BosFacts
    <3>3. [i \in DOMAIN device.bos |-> RawBos(device.bos[i])] = <<RawBos(b)>>
      BY <1>2, <3>1
    <3>4. Each(device.bos, RawBos) = RawBos(b)
      BY <3>2, <3>3, FlattenOne DEF Each
    <3> HIDE DEF b
    <3>5. QED
      BY <2>1, <2>2, <3>1, <3>2, <3>4
  <2>5. QED
    BY <2>3, <2>4
<1>10. ASSUME q.type = "string", q.lang = 0, q.index = 0 PROVE own # <<>> => data = own
  <2>1. own = Truncate(DeviceString(0, 0), q.wLength)
    BY <1>10 DEF DeviceAnswer
  <2>2. data = Truncate(PackString(t, 0, 0), q.wLength)
    BY <1>10 DEF Descriptor
  <2>3. CASE device.langs = <<>>
    <3>1. own = <<>>
      BY <2>1, <2>3, <1>5, TruncateNothing DEF DeviceString
    <3>2. QED
      BY <3>1
  <2>4. CASE device.langs # <<>>
    <3>1. DeviceString(0, 0) = LangTable(device.langs)
      BY <2>4 DEF DeviceString
    <3>2. 0 \in DOMAIN t.strings /\ t.strings[0] = <<LangTable(device.langs)>>
      BY <1>1, <1>3, <2>4, StringFacts
    <3>3. PackString(t, 0, 0) = LangTable(device.langs)
      BY <3>2 DEF PackString
    <3>4. QED
      BY <2>1, <2>2, <3>1, <3>3
  <2>5. QED
    BY <2>3, <2>4
<1>11. ASSUME q.type = "string", q.lang \in Range(device.langs), q.index \in 1 .. 3
       PROVE  \/ data = own
              \/ data = <<>> /\ \E i \in 1 .. q.index : ~IsString(DeviceString(q.lang, i))
  <2>1. own = Truncate(DeviceString(q.lang, q.index), q.wLength)
    BY <1>11 DEF DeviceAnswer
  <2>2. data = Truncate(PackString(t, q.lang, q.index), q.wLength)
    BY <1>11 DEF Descriptor
  <2> HIDE DEF own, data
  <2>3. \/ PackString(t, q.lang, q.index) = DeviceString(q.lang, q.index)
        \/ /\ PackString(t, q.lang, q.index) = <<>>
           /\ \E i \in 1 .. q.index : ~IsString(DeviceString(q.lang, i))
    BY <1>1, <1>11, StringAnswer DEF t
  <2>4. CASE PackString(t, q.lang, q.index) = DeviceString(q.lang, q.index)
    BY <2>1, <2>2, <2>4
  <2>5. CASE /\ PackString(t, q.lang, q.index) = <<>>
             /\ \E i \in 1 .. q.index : ~IsString(DeviceString(q.lang, i))
    BY <2>2, <2>5, <1>5, TruncateNothing
  <2>6. QED
    BY <2>3, <2>4, <2>5
<1> HIDE DEF own, data
<1>12. CASE q.type = "device"
  BY <1>6, <1>12 DEF own, data
<1>13. CASE q.type \in {"config", "report", "bos"}
  <2>1. q.type # "device" /\ q.type # "string"
    BY <1>13
  <2>2. own # <<>> => data = own
    BY <1>7, <1>8, <1>9, <1>13
  <2>3. QED
    BY <2>1, <2>2 DEF own, data
<1>14. CASE q.type = "string" /\ q.lang = 0 /\ q.index = 0
  <2>1. own # <<>> => data = own
    BY <1>10, <1>14
  <2>2. QED
    BY <1>14, <2>1 DEF own, data
<1>15. CASE q.type = "string" /\ q.lang \in Range(device.langs) /\ q.index \in 1 .. 3
  <2>1. q.index > 0
    BY <1>15
  <2>2. QED
    BY <1>11, <1>15, <2>1 DEF own, data
<1>16. QED
  BY <1>5, <1>12, <1>13, <1>14, <1>15

-----------------------------------------------------------------------------
(* Reading what was written.  A stream agrees with the numbers that were   *)
(* written from a place on as far as the stream goes; a reader must then   *)
(* come out behind them with their value, or fail if they do not fit.      *)

Agree(in, at, nums) ==
    \A i \in 1 .. Len(nums) : at + i - 1 <= Len(in) => in[at + i - 1] = nums[i]
Fits(in, at, nums) == at + Len(nums) - 1 <= Len(in)
Follows(in, at, nums, r, v) ==
    /\ Fits(in, at, nums) => r.at = at + Len(nums) /\ r.val = v
    /\ ~Fits(in, at, nums) => r.at = 0

Places == Nat \ {0}

\* A stream that agrees with a concatenation agrees with both parts.
LEMMA AgreeSplit ==
    ASSUME NEW in \in Seq(Nat), NEW at \in Places, NEW a \in Seq(Nat), NEW b \in Seq(Nat),
           Agree(in, at, a \o b)
    PROVE  Agree(in, at, a) /\ Agree(in, at + Len(a), b)
<1>1. /\ Len(a) \in Nat /\ Len(b) \in Nat /\ Len(a \o b) = Len(a) + Len(b)
      /\ \A i \in 1 .. Len(a) + Len(b) :
             (a \o b)[i] = IF i <= Len(a) THEN a[i] ELSE b[i - Len(a)]
  BY ConcatProperties
<1>2. \A i \in 1 .. Len(a) + Len(b) :
          at + i - 1 <= Len(in) => in[at + i - 1] = (a \o b)[i]
  BY <1>1 DEF Agree
<1>3. ASSUME NEW i \in 1 .. Len(a), at + i - 1 <= Len(in) PROVE in[at + i - 1] = a[i]
  <2>1. i \in 1 .. Len(a) + Len(b) /\ i <= Len(a)
    BY <1>1
  <2>2. QED
    BY <1>1, <1>2, <1>3, <2>1
<1>4. ASSUME NEW i \in 1 .. Len(b), (at + Len(a)) + i - 1 <= Len(in)
      PROVE  in[(at + Len(a)) + i - 1] = b[i]
  <2> DEFINE j == Len(a) + i
  <2>1. j \in 1 .. Len(a) + Len(b) /\ ~(j <= Len(a)) /\ j - Len(a) = i
    BY <1>1
  <2>2. (at + Len(a)) + i - 1 = at + j - 1
    BY <1>1 DEF Places
  <2> HIDE DEF j
  <2>3. in[at + j - 1] = (a \o b)[j] /\ (a \o b)[j] = b[j - Len(a)]
    BY <1>1, <1>2, <1>4, <2>1, <2>2
  <2>4. QED
    BY <2>1, <2>2, <2>3
<1>5. QED
  BY <1>3, <1>4 DEF Agree

\* A reader behind another one.
LEMMA FollowsJoin ==
    ASSUME NEW in \in Seq(Nat), NEW at \in Places, NEW a \in Seq(Nat), NEW b \in Seq(Nat),
           NEW r1, NEW v1, NEW r2, NEW v2, Follows(in, at, a, r1, v1),
           r1.at = at + Len(a) => Follows(in, at + Len(a), b, r2, v2),
           r1.at = 0 => r2.at = 0
    PROVE  /\ Follows(in, at, a \o b, r2, v2)
           /\ r2.at # 0 => r1.at # 0 /\ r1.val = v1
           /\ Fits(in, at, a \o b) => Fits(in, at, a)
<1>1. Len(a) \in Nat /\ Len(b) \in Nat /\ Len(a \o b) = Len(a) + Len(b) /\ Len(in) \in Nat
  BY ConcatProperties
<1>2. at \in Nat /\ at # 0
  BY DEF Places
<1>3. Fits(in, at, a \o b) <=> at + Len(a) + Len(b) - 1 <= Len(in)
  BY <1>1, <1>2 DEF Fits
<1>4. Fits(in, at, a) <=> at + Len(a) - 1 <= Len(in)
  BY DEF Fits
<1>5. Fits(in, at + Len(a), b) <=> at + Len(a) + Len(b) - 1 <= Len(in)
  BY <1>1, <1>2 DEF Fits
<1>6. Fits(in, at, a \o b) => Fits(in, at, a)
  BY <1>1, <1>2, <1>3, <1>4
<1>7. CASE Fits(in, at, a)
  <2>1. r1.at = at + Len(a) /\ r1.val = v1 /\ r1.at # 0
    BY <1>1, <1>2, <1>7 DEF Follows
  <2>2. Follows(in, at + Len(a), b, r2, v2)
    BY <2>1
  <2>3. Fits(in, at, a \o b) => r2.at = at + Len(a \o b) /\ r2.val = v2
    BY <2>2, <1>1, <1>2, <1>3, <1>5 DEF Follows
  <2>4. ~Fits(in, at, a \o b) => r2.at = 0
    BY <2>2, <1>3, <1>5 DEF Follows
  <2>5. QED
    BY <2>1, <2>3, <2>4, <1>6 DEF Follows
<1>8. CASE ~Fits(in, at, a)
  <2>1. r1.at = 0 /\ r2.at = 0 /\ ~Fits(in, at, a \o b)
    BY <1>6, <1>8 DEF Follows
  <2>2. QED
    BY <2>1, <1>6 DEF Follows
<1>9. QED
  BY <1>7, <1>8

\* A number that fits its width.
LEMMA ReadNumberFollows ==
    ASSUME NEW in \in Seq(Nat), NEW at \in Places, NEW width \in {0, 1, 2}, NEW x \in Nat,
           width = 1 => x < 256, width = 2 => x < WordLimit, Agree(in, at, <<x>>)
    PROVE  Follows(in, at, <<x>>, ReadNumber(in, at, width), x)
<1>1. /\ <<x>> \in Seq(Nat) /\ Len(<<x>>) = 1 /\ <<x>>[1] = x
      /\ at \in Nat /\ at # 0 /\ Len(in) \in Nat /\ at + 1 - 1 = at
  BY DEF Places
<1>2. Fits(in, at, <<x>>) <=> at <= Len(in)
  BY <1>1 DEF Fits
<1>3. CASE at <= Len(in)
  <2>1. in[at] = x
    <3>1. 1 \in 1 .. Len(<<x>>)
      BY <1>1
    <3>2. at + 1 - 1 <= Len(in) => in[at + 1 - 1] = <<x>>[1]
      BY <3>1 DEF Agree
    <3>3. QED
      BY <3>2, <1>1, <1>3
  <2>2. ~(at = 0 \/ at > Len(in)) /\ ~(width = 2 /\ in[at] >= WordLimit)
    BY <2>1, <1>1, <1>3, Limit
  <2>3. width = 1 => x % 256 = x
    OBVIOUS
  <2>4. ReadNumber(in, at, width) = [at |-> at + 1, val |-> x]
    BY <2>1, <2>2, <2>3 DEF ReadNumber
  <2>5. QED
    BY <2>4, <1>1, <1>2, <1>3 DEF Follows
<1>4. CASE ~(at <= Len(in))
  <2>1. ReadNumber(in, at, width).at = 0
    BY <1>1, <1>4 DEF ReadNumber
  <2>2. QED
    BY <2>1, <1>2, <1>4 DEF Follows
<1>5. QED
  BY <1>3, <1>4

\* Once a number could not be read, no number can.
LEMMA NumberFailed == \A in, w : ReadNumber(in, 0, w).at = 0
  BY DEF ReadNumber

\* A struct is written as its members, in the order of the list.
LEMMA StreamStructType ==
    ASSUME NEW n \in Nat, NEW fields, IsList(fields, n), NEW s \in Structs(fields)
    PROVE  /\ StreamStruct(s, fields) \in Seq(Nat)
           /\ Len(StreamStruct(s, fields)) = n
           /\ \A i \in 1 .. n : StreamStruct(s, fields)[i] = s[fields[i]]
<1>1. DOMAIN fields = 1 .. n
  BY LenProperties DEF IsList
<1>2. \A i \in 1 .. n : s[fields[i]] \in Nat
  BY Members
<1>3. QED
  BY <1>1, <1>2 DEF StreamStruct

\* A struct is read back: no member is cut, because each fits its width.
LEMMA ReadStructFollows ==
    ASSUME NEW in \in Seq(Nat), NEW at \in Places, NEW n \in Places, NEW fields,
           IsList(fields, n), NEW s \in Structs(fields), Agree(in, at, StreamStruct(s, fields))
    PROVE  Follows(in, at, StreamStruct(s, fields), ReadStruct(in, at, fields), s)
<1> DEFINE nums == StreamStruct(s, fields)
           number == [i \in DOMAIN fields |-> ReadNumber(in, at + i - 1, Width(fields[i]))]
<1>1. at \in Nat /\ at # 0 /\ n \in Nat /\ n # 0 /\ Len(in) \in Nat
  BY DEF Places
<1>2. nums \in Seq(Nat) /\ Len(nums) = n /\ \A i \in 1 .. n : nums[i] = s[fields[i]]
  BY <1>1, StreamStructType
<1>3. /\ DOMAIN fields = 1 .. n /\ Len(fields) = n
      /\ \A i, j \in 1 .. n : fields[i] = fields[j] => i = j
  BY LenProperties DEF IsList
<1>4. Fits(in, at, nums) <=> at + n - 1 <= Len(in)
  BY <1>2 DEF Fits
<1>5. \A i \in 1 .. n : number[i] = ReadNumber(in, at + i - 1, Width(fields[i]))
  BY <1>3
<1>6. ReadStruct(in, at, fields) =
          IF \E i \in 1 .. n : number[i].at = 0 THEN Failed
          ELSE [at |-> at + n,
                val |-> [f \in Range(fields) |->
                             number[CHOOSE i \in 1 .. n : fields[i] = f].val]]
  BY <1>1, <1>3, SMTT(30) DEF ReadStruct
<1> HIDE DEF number
<1>7. CASE at + n - 1 <= Len(in)
  <2>1. ASSUME NEW i \in 1 .. n PROVE number[i].at # 0 /\ number[i].val = s[fields[i]]
    <3> DEFINE p == at + i - 1
               x == s[fields[i]]
               w == Width(fields[i])
    <3>1. p \in Places /\ p <= Len(in) /\ p + 1 - 1 = p
      BY <1>1, <1>7 DEF Places
    <3>2. /\ x \in Nat /\ w \in {0, 1, 2}
          /\ w = 1 => x < 256
          /\ w = 2 => x < WordLimit
      BY <1>1, Members DEF Width
    <3>3. in[p] = x
      BY <1>2, <3>1 DEF Agree
    <3> HIDE DEF p, x, w
    <3>4. Agree(in, p, <<x>>) /\ Fits(in, p, <<x>>)
      BY <3>1, <3>3 DEF Agree, Fits
    <3>5. Follows(in, p, <<x>>, ReadNumber(in, p, w), x)
      BY <3>1, <3>2, <3>4, ReadNumberFollows
    <3>6. ReadNumber(in, p, w).at = p + 1 /\ ReadNumber(in, p, w).val = x
      BY <3>4, <3>5 DEF Follows
    <3>7. p + 1 # 0
      BY <3>1 DEF Places
    <3>8. QED
      BY <3>6, <3>7, <1>5 DEF p, x, w
  <2>2. ASSUME NEW f \in Range(fields)
        PROVE  number[CHOOSE i \in 1 .. n : fields[i] = f].val = s[f]
    <3>1. \E i \in 1 .. n : fields[i] = f
      BY <1>3 DEF Range
    <3> DEFINE k == CHOOSE i \in 1 .. n : fields[i] = f
    <3>2. k \in 1 .. n /\ fields[k] = f
      BY <3>1
    <3> HIDE DEF k
    <3>3. number[k].val = s[f]
      BY <2>1, <3>2
    <3>4. QED
      BY <3>3 DEF k
  <2>3. s = [f \in Range(fields) |-> s[f]]
    BY DEF Structs
  <2>4. [f \in Range(fields) |-> number[CHOOSE i \in 1 .. n : fields[i] = f].val] = s
    BY <2>2, <2>3
  <2>5. ReadStruct(in, at, fields) = [at |-> at + n, val |-> s]
    BY <1>6, <2>1, <2>4
  <2>6. QED
    BY <2>5, <1>2, <1>4, <1>7 DEF Follows
<1>8. CASE ~(at + n - 1 <= Len(in))
  <2>1. n \in 1 .. n /\ number[n] = ReadNumber(in, at + n - 1, Width(fields[n]))
    BY <1>1, <1>5
  <2>2. number[n].at = 0
    BY <2>1, <1>1, <1>8 DEF ReadNumber
  <2>3. ReadStruct(in, at, fields).at = 0
    BY <1>6, <2>1, <2>2 DEF Failed
  <2>4. QED
    BY <2>3, <1>4, <1>8 DEF Follows
<1>9. QED
  BY <1>7, <1>8

\* Once a number could not be read, no struct can.
LEMMA StructFailed == \A in, fields : ReadStruct(in, 0, fields).at = 0
  BY DEF ReadStruct, Failed

\* Where an element ends, reckoned from two sides.
LEMMA PlaceSums ==
    ASSUME NEW p \in Nat, NEW m \in Nat, NEW n \in Nat
    PROVE  /\ (p + 1 + m) + n - 1 = p + (m + n)
           /\ p + (1 + n) = p + 1 + n
  OBVIOUS

\* Elements are read one behind the other, each from where the last one ended.
IsRead(read, n, r0, elem) ==
    read = [i \in 0 .. n |-> IF i = 0 THEN r0 ELSE elem[read[i - 1].at]]

\* The function that ReadElements defines by recursion exists.
LEMMA ReadFunction ==
    ASSUME NEW n \in Nat, NEW r0, NEW elem
    PROVE  \E read : IsRead(read, n, r0, elem)
<1> DEFINE Rec(m, g) == g = [i \in 0 .. m |-> IF i = 0 THEN r0 ELSE elem[g[i - 1].at]]
           Has == {m \in 0 .. n : \E g : Rec(m, g)}
<1>1. 0 \in Has
  <2>1. Rec(0, [i \in 0 .. 0 |-> r0])
    OBVIOUS
  <2> HIDE DEF Rec
  <2>2. QED
    BY <2>1
<1>2. ASSUME NEW m \in 1 .. n, m - 1 \in Has PROVE m \in Has
  <2>1. PICK g : Rec(m - 1, g)
    BY <1>2
  <2> DEFINE h == [i \in 0 .. m |-> IF i < m THEN g[i] ELSE elem[g[m - 1].at]]
  <2>2. Rec(m, h)
    <3>1. ASSUME NEW i \in 0 .. m PROVE h[i] = IF i = 0 THEN r0 ELSE elem[h[i - 1].at]
      <4>1. CASE i = m
        <5>1. h[i] = elem[g[m - 1].at] /\ m - 1 \in 0 .. m /\ m - 1 < m
          BY <4>1
        <5>2. h[m - 1] = g[m - 1]
          BY <5>1
        <5>3. QED
          BY <4>1, <5>1, <5>2
      <4>2. CASE i < m
        <5>1. i \in 0 .. m - 1 /\ h[i] = g[i]
          BY <4>2
        <5>2. g[i] = IF i = 0 THEN r0 ELSE elem[g[i - 1].at]
          BY <2>1, <5>1
        <5>3. i # 0 => h[i - 1] = g[i - 1]
          BY <4>2
        <5>4. QED
          BY <5>1, <5>2, <5>3
      <4>3. QED
        BY <4>1, <4>2
    <3>2. QED
      BY <3>1
  <2> HIDE DEF Rec, h
  <2>3. \E x : Rec(m, x)
    BY <2>2
  <2>4. m \in 0 .. n
    OBVIOUS
  <2>5. QED
    BY <2>3, <2>4
<1>3. n \in Has
  <2> HIDE DEF Has
  <2>1. \A i \in 0 .. n : i \in Has
    BY <1>1, <1>2, Induction
  <2>2. QED
    BY <2>1
<1>4. QED
  BY <1>3 DEF IsRead

\* A vector: its length, then its elements.  E[i] is what was written for the
\* element v[i].
LEMMA ReadElementsFollows ==
    ASSUME NEW in \in Seq(Nat), NEW at \in Places, NEW E \in Seq(Seq(Nat)),
           NEW v, NEW elem, v = [i \in 1 .. Len(E) |-> v[i]],
           \A i \in 1 .. Len(E) : Len(E[i]) >= 1,
           elem[0].at = 0,
           \A i \in 1 .. Len(E) : \A p \in Places :
               Agree(in, p, E[i]) => Follows(in, p, E[i], elem[p], v[i]),
           Agree(in, at, <<Len(E)>> \o FlattenSeq(E))
    PROVE  Follows(in, at, <<Len(E)>> \o FlattenSeq(E), ReadElements(in, at, elem), v)
<1> DEFINE N == Len(E)
           all == <<N>> \o FlattenSeq(E)
           n0 == ReadNumber(in, at, Unlimited)
           R == ReadElements(in, at, elem)
<1>1. N \in Nat /\ at \in Nat /\ at # 0 /\ Len(in) \in Nat /\ \A i \in 1 .. N : E[i] \in Seq(Nat)
  BY DEF Places
<1>2. PICK flat : /\ flat \in [0 .. N -> Seq(Nat)]
                  /\ flat[0] = <<>>
                  /\ \A i \in 1 .. N : flat[i] = flat[i - 1] \o E[i]
                  /\ FlattenSeq(E) = flat[N]
  BY Flatten
<1>3. \A i \in 0 .. N : flat[i] \in Seq(Nat) /\ Len(flat[i]) \in Nat
  BY <1>2, LenProperties
<1>4. \A i \in 1 .. N : /\ i - 1 \in 0 .. N /\ i \in 0 .. N
                        /\ Len(flat[i]) = Len(flat[i - 1]) + Len(E[i])
                        /\ Len(E[i]) \in Nat /\ Len(E[i]) >= 1
  <2> TAKE i \in 1 .. N
  <2>1. i - 1 \in 0 .. N /\ i \in 0 .. N
    BY <1>1
  <2>2. flat[i - 1] \in Seq(Nat) /\ E[i] \in Seq(Nat) /\ flat[i] = flat[i - 1] \o E[i]
    BY <2>1, <1>1, <1>2, <1>3
  <2>3. Len(flat[i]) = Len(flat[i - 1]) + Len(E[i]) /\ Len(E[i]) \in Nat
    BY <2>2, ConcatProperties, LenProperties
  <2>4. QED
    BY <2>1, <2>3
<1>5. PICK L : L \in [0 .. N -> Nat] /\ \A i \in 0 .. N : L[i] = Len(flat[i])
  <2> DEFINE F == [i \in 0 .. N |-> Len(flat[i])]
  <2>1. F \in [0 .. N -> Nat] /\ \A i \in 0 .. N : F[i] = Len(flat[i])
    BY <1>3
  <2> HIDE DEF F
  <2>2. QED
    BY <2>1
<1>6. PICK M : M \in [1 .. N -> Nat] /\ \A i \in 1 .. N : M[i] = Len(E[i])
  <2> DEFINE F == [i \in 1 .. N |-> Len(E[i])]
  <2>1. F \in [1 .. N -> Nat] /\ \A i \in 1 .. N : F[i] = Len(E[i])
    BY <1>4
  <2> HIDE DEF F
  <2>2. QED
    BY <2>1
<1>7. \A i \in 1 .. N : /\ i - 1 \in 0 .. N /\ i \in 0 .. N /\ i # 0
                         /\ L[i] = L[i - 1] + M[i]
                         /\ L[i] \in Nat /\ L[i - 1] \in Nat
                         /\ M[i] \in Nat /\ M[i] >= 1 /\ M[i] = Len(E[i])
  <2> TAKE i \in 1 .. N
  <2>1. i - 1 \in 0 .. N /\ i \in 0 .. N /\ i # 0
    BY <1>1
  <2>2. L[i] = Len(flat[i]) /\ L[i - 1] = Len(flat[i - 1]) /\ M[i] = Len(E[i])
    BY <2>1, <1>5, <1>6
  <2>3. L[i] \in Nat /\ L[i - 1] \in Nat /\ M[i] \in Nat
    BY <2>1, <1>5, <1>6
  <2>4. L[i] = L[i - 1] + M[i] /\ M[i] >= 1
    BY <2>2, <1>4
  <2>5. QED
    BY <2>1, <2>2, <2>3, <2>4
<1>8. 0 \in 0 .. N /\ N \in 0 .. N /\ L[0] = 0 /\ L[N] \in Nat /\ L[N] = Len(flat[N])
  <2>1. 0 \in 0 .. N /\ N \in 0 .. N
    BY <1>1
  <2>2. Len(flat[0]) = 0
    BY <1>2
  <2>3. QED
    BY <2>1, <2>2, <1>5
<1>9. /\ <<N>> \in Seq(Nat) /\ Len(<<N>>) = 1 /\ flat[N] \in Seq(Nat) /\ L[N] \in Nat
      /\ all = <<N>> \o flat[N] /\ Len(all) = 1 + L[N]
  <2>1. <<N>> \in Seq(Nat) /\ Len(<<N>>) = 1
    BY <1>1
  <2>2. N \in 0 .. N
    BY <1>1
  <2>3. flat[N] \in Seq(Nat) /\ L[N] = Len(flat[N]) /\ L[N] \in Nat
    BY <2>2, <1>3, <1>8
  <2>4. QED
    BY <1>2, <2>1, <2>3, ConcatProperties
<1> HIDE DEF N, all
<1>10. Agree(in, at, <<N>>) /\ Agree(in, at + 1, flat[N])
  <2>1. Agree(in, at, <<N>> \o flat[N])
    BY <1>9 DEF all, N
  <2>2. QED
    BY <2>1, <1>9, AgreeSplit
<1>11. Follows(in, at, <<N>>, n0, N)
  BY <1>1, <1>10, ReadNumberFollows DEF Unlimited
<1>12. Fits(in, at, all) <=> at + L[N] <= Len(in)
  BY <1>1, <1>9 DEF Fits
<1>13. \A i \in 0 .. N : L[i] >= i
  <2> DEFINE Long == {i \in 0 .. N : L[i] >= i}
  <2>1. 0 \in Long
    BY <1>8
  <2>2. ASSUME NEW i \in 1 .. N, i - 1 \in Long PROVE i \in Long
    <3>1. L[i - 1] >= i - 1 /\ i \in Nat
      BY <2>2, <1>1
    <3>2. L[i] = L[i - 1] + M[i] /\ L[i - 1] \in Nat /\ M[i] \in Nat /\ M[i] >= 1
      BY <1>7
    <3>3. L[i] >= i
      BY <3>1, <3>2
    <3>4. QED
      BY <3>3, <1>7
  <2>3. \A i \in 0 .. N : i \in Long
    <3> HIDE DEF Long
    <3>1. QED
      BY <1>1, <2>1, <2>2, Induction
  <2>4. QED
    BY <2>3
<1>14. \A i \in 0 .. N : Agree(in, at + 1, flat[i]) /\ L[i] <= L[N]
  <2> DEFINE Ok(i) == Agree(in, at + 1, flat[i]) /\ L[i] <= L[N]
             Down == {j \in 0 .. N : Ok(N - j)}
  <2>1. 0 \in Down
    <3>1. Ok(N)
      BY <1>9, <1>10
    <3>2. N - 0 = N /\ 0 \in 0 .. N
      BY <1>1
    <3> HIDE DEF Ok
    <3>3. QED
      BY <3>1, <3>2
  <2>2. ASSUME NEW j \in 1 .. N, j - 1 \in Down PROVE j \in Down
    <3> DEFINE i == N - (j - 1)
    <3>1. i \in 1 .. N /\ N - j = i - 1 /\ j \in 0 .. N
      BY <1>1
    <3>2. Ok(i)
      BY <2>2
    <3> HIDE DEF i
    <3>3. /\ flat[i] = flat[i - 1] \o E[i] /\ flat[i - 1] \in Seq(Nat) /\ E[i] \in Seq(Nat)
          /\ at + 1 \in Places
      <4>1. i - 1 \in 0 .. N /\ at + 1 \in Places
        BY <3>1, <1>1, <1>7 DEF Places
      <4>2. QED
        BY <3>1, <4>1, <1>1, <1>2, <1>3
    <3>4. Agree(in, at + 1, flat[i - 1])
      BY <3>2, <3>3, AgreeSplit
    <3>5. L[i - 1] <= L[N]
      <4>1. L[i] = L[i - 1] + M[i] /\ L[i - 1] \in Nat /\ M[i] \in Nat /\ L[N] \in Nat
        BY <3>1, <1>7, <1>8
      <4>2. L[i] <= L[N]
        BY <3>2
      <4>3. QED
        BY <4>1, <4>2
    <3>6. Ok(i - 1)
      BY <3>4, <3>5
    <3> HIDE DEF Ok
    <3>7. QED
      BY <3>1, <3>6
  <2>3. \A j \in 0 .. N : j \in Down
    <3> HIDE DEF Down
    <3>1. QED
      BY <1>1, <2>1, <2>2, Induction
  <2>4. ASSUME NEW i \in 0 .. N PROVE Ok(i)
    <3>1. N - i \in 0 .. N /\ N - (N - i) = i
      BY <1>1
    <3> HIDE DEF Ok
    <3>2. QED
      BY <2>3, <3>1
  <2>5. QED
    BY <2>4
<1>15. CASE n0.at = 0
  <2>1. R.at = 0
    BY <1>15 DEF ReadElements, Failed
  <2>2. ~Fits(in, at, <<N>>)
    BY <1>1, <1>9, <1>11, <1>15 DEF Follows
  <2>3. ~Fits(in, at, all)
    BY <2>2, <1>1, <1>9 DEF Fits
  <2>4. QED
    BY <2>1, <2>3 DEF Follows, all, N
<1>16. CASE n0.at # 0
  <2>1. n0.at = at + 1 /\ n0.val = N
    BY <1>9, <1>11, <1>16 DEF Follows
  <2>2. CASE N > Len(in)
    <3>1. R.at = 0
      BY <2>1, <2>2 DEF ReadElements, Failed
    <3>2. L[N] >= N
      BY <1>1, <1>13
    <3>3. ~(at + L[N] <= Len(in))
      BY <3>2, <2>2, <1>1, <1>9
    <3>4. QED
      BY <3>1, <3>3, <1>12 DEF Follows, all, N
  <2>3. CASE ~(N > Len(in))
    <3> DEFINE Rec(g) == IsRead(g, N, n0, elem)
               read == CHOOSE g : Rec(g)
    <3>1. R = [at |-> read[N].at, val |-> [i \in 1 .. N |-> read[i].val]]
      BY <2>1, <2>3, <1>16 DEF ReadElements, IsRead
    <3>2. Rec(read)
      <4>1. \E g : Rec(g)
        <5> HIDE DEF n0
        <5>1. QED
          BY <1>1, ReadFunction
      <4> HIDE DEF Rec
      <4>2. QED
        BY <4>1
    <3> HIDE DEF read, n0
    <3>3. read[0] = n0 /\ \A i \in 1 .. N : read[i] = elem[read[i - 1].at]
      <4>1. 0 \in 0 .. N /\ \A i \in 1 .. N : i \in 0 .. N /\ i # 0
        BY <1>7, <1>8
      <4>2. QED
        BY <3>2, <4>1 DEF IsRead
    <3> HIDE DEF Rec
    <3> DEFINE In(i) == at + L[i] <= Len(in)
               Ok(i) == /\ In(i) => /\ read[i].at = at + 1 + L[i]
                                    /\ i # 0 => read[i].val = v[i]
                        /\ ~In(i) => read[i].at = 0
               Good == {i \in 0 .. N : Ok(i)}
    <3>4. 0 \in Good
      <4>1. L[0] = 0 /\ 0 \in 0 .. N
        BY <1>8
      <4>2. Fits(in, at, <<N>>)
        BY <1>11, <1>16 DEF Follows
      <4>3. at <= Len(in)
        BY <4>2, <1>1, <1>9 DEF Fits
      <4>4. Ok(0)
        BY <3>3, <4>1, <4>3, <2>1, <1>1
      <4> HIDE DEF Ok
      <4>5. QED
        BY <4>1, <4>4
    <3>5. ASSUME NEW i \in 1 .. N, i - 1 \in Good PROVE i \in Good
      <4>1. Ok(i - 1)
        BY <3>5
      <4>2. /\ i - 1 \in 0 .. N /\ i \in 0 .. N /\ i # 0
            /\ L[i] = L[i - 1] + M[i]
            /\ M[i] \in Nat /\ L[i - 1] \in Nat /\ E[i] \in Seq(Nat)
            /\ read[i] = elem[read[i - 1].at]
        BY <1>1, <1>7, <3>3
      <4>3. CASE In(i - 1)
        <5> DEFINE p == at + 1 + L[i - 1]
        <5>1. read[i - 1].at = p /\ p \in Places
          BY <4>1, <4>2, <4>3, <1>1, SMTT(30) DEF Places
        <5>2. Agree(in, at + 1, flat[i - 1] \o E[i])
          BY <1>2, <1>14, <4>2
        <5>3. Agree(in, p, E[i])
          <6>1. at + 1 \in Places /\ flat[i - 1] \in Seq(Nat) /\ E[i] \in Seq(Nat)
            BY <1>1, <1>3, <4>2, SMTT(30) DEF Places
          <6>2. Agree(in, at + 1 + Len(flat[i - 1]), E[i])
            BY <5>2, <6>1, AgreeSplit
          <6>3. L[i - 1] = Len(flat[i - 1])
            BY <4>2, <1>5
          <6>4. QED
            BY <6>2, <6>3
        <5> HIDE DEF p
        <5>4. Follows(in, p, E[i], elem[p], v[i])
          BY <5>1, <5>3 DEF N
        <5>5. Fits(in, p, E[i]) <=> In(i)
          <6>1. Fits(in, p, E[i]) <=> p + M[i] - 1 <= Len(in)
            BY <1>7 DEF Fits
          <6>2. p + M[i] - 1 = at + L[i]
            <7>1. /\ L[i] = L[i - 1] + M[i] /\ L[i - 1] \in Nat /\ M[i] \in Nat
                  /\ at \in Nat
              BY <1>1, <1>7
            <7>2. p + M[i] - 1 = at + (L[i - 1] + M[i])
              BY <1>1, <4>2, PlaceSums, Zenon DEF p
            <7>3. QED
              BY <7>1, <7>2, Zenon
          <6>3. QED
            BY <6>1, <6>2
        <5>6. p + M[i] = at + 1 + L[i]
          BY <4>2, <1>1, SMTT(30) DEF p
        <5>7. Ok(i)
          <6>1. p + Len(E[i]) = at + 1 + L[i]
            BY <5>6, <1>7
          <6>2. QED
            BY <4>2, <5>1, <5>4, <5>5, <6>1 DEF Follows
        <5> HIDE DEF Ok
        <5>8. QED
          BY <4>2, <5>7
      <4>4. CASE ~In(i - 1)
        <5>1. read[i].at = 0
          BY <4>1, <4>2, <4>4
        <5>2. ~In(i)
          BY <4>2, <4>4, <1>1, SMTT(30)
        <5>3. Ok(i)
          BY <5>1, <5>2
        <5> HIDE DEF Ok
        <5>4. QED
          BY <4>2, <5>3
      <4>5. QED
        BY <4>3, <4>4
    <3>6. \A i \in 0 .. N : Ok(i)
      <4>1. \A i \in 0 .. N : i \in Good
        <5> HIDE DEF Good
        <5>1. QED
          BY <1>1, <3>4, <3>5, Induction
      <4> HIDE DEF Ok
      <4>2. QED
        BY <4>1
    <3>7. Ok(N) /\ N \in 0 .. N
      BY <3>6, <1>8
    <3>8. CASE In(N)
      <4>1. \A i \in 1 .. N : In(i)
        <5> TAKE i \in 1 .. N
        <5>1. L[i] <= L[N] /\ L[i] \in Nat
          BY <1>14, <1>7
        <5>2. QED
          BY <5>1, <3>8, <1>1, <1>8
      <4>2. \A i \in 1 .. N : read[i].val = v[i]
        BY <4>1, <3>6, <1>7
      <4>3. [i \in 1 .. N |-> read[i].val] = v
        BY <4>2 DEF N
      <4>4. R.at = at + 1 + L[N] /\ R.val = v
        BY <3>1, <3>7, <3>8, <4>3
      <4>5. Follows(in, at, all, R, v)
        <5>1. at + Len(all) = at + 1 + L[N]
          <6>1. at + (1 + L[N]) = at + 1 + L[N]
            BY <1>1, <1>8, PlaceSums, Zenon
          <6>2. QED
            BY <1>9, <6>1, Zenon
        <5>2. QED
          BY <5>1, <4>4, <3>8, <1>12 DEF Follows
      <4>6. QED
        BY <4>5 DEF all, N
    <3>9. CASE ~In(N)
      <4>1. R.at = 0
        BY <3>1, <3>7, <3>9
      <4>2. Follows(in, at, all, R, v)
        BY <4>1, <3>9, <1>12 DEF Follows
      <4>3. QED
        BY <4>2 DEF all, N
    <3>10. QED
      BY <3>8, <3>9
  <2>4. QED
    BY <2>2, <2>3
<1>17. QED
  BY <1>15, <1>16

\* Once a number could not be read, no vector can.
LEMMA ElementsFailed == \A in, elem : ReadElements(in, 0, elem).at = 0
  BY NumberFailed DEF ReadElements, Failed

-----------------------------------------------------------------------------
(* r[p] is what a reader gives at place p.  It reads v from nums if it     *)
(* follows nums wherever they are, and fails once a reader has failed.     *)

Reader(r) == r[0].at = 0 /\ \A p \in Nat : r[p].at \in Nat

Reads(in, nums, r, v) ==
    /\ nums \in Seq(Nat) /\ Len(nums) >= 1
    /\ Reader(r)
    /\ \A p \in Places : Agree(in, p, nums) => Follows(in, p, nums, r[p], v)

\* One reader behind another, and the values of both.
Then(r1, r2) ==
    [p \in Nat |-> [at |-> r2[r1[p].at].at, val |-> <<r1[p].val, r2[r1[p].at].val>>]]

\* Two readers in a row are a reader.
LEMMA ThenReader ==
    ASSUME NEW r1, NEW r2, Reader(r1), Reader(r2)
    PROVE  Reader(Then(r1, r2))
<1>1. Then(r1, r2)[0].at = 0
  BY DEF Then, Reader
<1>2. ASSUME NEW p \in Nat PROVE Then(r1, r2)[p].at \in Nat
  <2>1. r1[p].at \in Nat
    BY DEF Reader
  <2>2. QED
    BY <2>1 DEF Then, Reader
<1>3. QED
  BY <1>1, <1>2 DEF Reader

\* Two readers in a row read two things in a row.
LEMMA ThenReads ==
    ASSUME NEW in \in Seq(Nat), NEW a, NEW r1, NEW v1, NEW b, NEW r2, NEW v2,
           Reads(in, a, r1, v1), Reads(in, b, r2, v2)
    PROVE  Reads(in, a \o b, Then(r1, r2), <<v1, v2>>)
<1>1. /\ a \in Seq(Nat) /\ Len(a) >= 1 /\ b \in Seq(Nat) /\ Len(b) >= 1
      /\ Reader(r1) /\ Reader(r2)
  BY DEF Reads
<1>2. a \o b \in Seq(Nat) /\ Len(a \o b) >= 1
  <2>1. a \o b \in Seq(Nat) /\ Len(a \o b) = Len(a) + Len(b)
    BY <1>1, ConcatProperties
  <2>2. PICK m \in Nat, n \in Nat : m = Len(a) /\ n = Len(b)
    BY <1>1, LenProperties
  <2>3. QED
    BY <1>1, <2>1, <2>2
<1>3. Reader(Then(r1, r2))
  BY <1>1, ThenReader
<1>4. ASSUME NEW p \in Places, Agree(in, p, a \o b)
      PROVE  Follows(in, p, a \o b, Then(r1, r2)[p], <<v1, v2>>)
  <2> DEFINE s1 == r1[p]
             s2 == r2[r1[p].at]
  <2>1. Agree(in, p, a) /\ Agree(in, p + Len(a), b)
    BY <1>1, <1>4, AgreeSplit
  <2>2. Follows(in, p, a, s1, v1)
    BY <2>1 DEF Reads
  <2>3. p + Len(a) \in Places
    <3>1. PICK m \in Nat : m = Len(a)
      BY <1>1, LenProperties
    <3>2. QED
      BY <3>1 DEF Places
  <2>4. s1.at = p + Len(a) => Follows(in, p + Len(a), b, s2, v2)
    BY <2>1, <2>3 DEF Reads
  <2>5. s1.at = 0 => s2.at = 0
    BY <1>1 DEF Reader
  <2>6. p \in Nat
    BY DEF Places
  <2>7. Then(r1, r2)[p] = [at |-> s2.at, val |-> <<s1.val, s2.val>>]
    BY <2>6 DEF Then
  <2> HIDE DEF s1, s2
  <2>8. /\ Follows(in, p, a \o b, s2, v2)
        /\ Fits(in, p, a \o b) => Fits(in, p, a)
    BY <1>1, <2>2, <2>4, <2>5, FollowsJoin
  <2>9. QED
    BY <2>2, <2>7, <2>8 DEF Follows
<1>5. QED
  BY <1>2, <1>3, <1>4 DEF Reads

\* A reader that makes something else of what another has read.
LEMMA ReadsAs ==
    ASSUME NEW in, NEW nums, NEW r, NEW v, NEW s, NEW w, Reads(in, nums, r, v),
           \A p \in Nat : s[p].at = r[p].at /\ (r[p].val = v => s[p].val = w)
    PROVE  Reads(in, nums, s, w)
<1>1. Reader(s)
  BY DEF Reads, Reader
<1>2. ASSUME NEW p \in Places, Agree(in, p, nums) PROVE Follows(in, p, nums, s[p], w)
  <2>1. Follows(in, p, nums, r[p], v) /\ p \in Nat
    BY <1>2 DEF Reads, Places
  <2>2. QED
    BY <2>1 DEF Follows
<1>3. QED
  BY <1>1, <1>2 DEF Reads

NumberReader(in, width) == [p \in Nat |-> ReadNumber(in, p, width)]

\* A number is read back if it fits its width.
LEMMA NumberReads ==
    ASSUME NEW in \in Seq(Nat), NEW width \in {0, 1, 2}
    PROVE  /\ Reader(NumberReader(in, width))
           /\ \A x \in Nat :
                  (width = 1 => x < 256) /\ (width = 2 => x < WordLimit)
                      => Reads(in, <<x>>, NumberReader(in, width), x)
<1> DEFINE r == NumberReader(in, width)
<1>1. Reader(r)
  BY DEF NumberReader, ReadNumber, Reader
<1>2. ASSUME NEW x \in Nat, width = 1 => x < 256, width = 2 => x < WordLimit
      PROVE  Reads(in, <<x>>, r, x)
  <2>1. <<x>> \in Seq(Nat) /\ Len(<<x>>) >= 1
    OBVIOUS
  <2>2. ASSUME NEW p \in Places, Agree(in, p, <<x>>) PROVE Follows(in, p, <<x>>, r[p], x)
    <3>1. r[p] = ReadNumber(in, p, width)
      BY DEF NumberReader, Places
    <3> HIDE DEF r
    <3>2. QED
      BY <1>2, <2>2, <3>1, ReadNumberFollows
  <2>3. QED
    BY <1>1, <2>1, <2>2 DEF Reads
<1>3. QED
  BY <1>1, <1>2

StructReader(in, fields) == [p \in Nat |-> ReadStruct(in, p, fields)]

\* A struct is read back wherever it stands.
LEMMA StructReads ==
    ASSUME NEW in \in Seq(Nat), NEW n \in Places, NEW fields, IsList(fields, n)
    PROVE  /\ Reader(StructReader(in, fields))
           /\ \A s \in Structs(fields) :
                  Reads(in, StreamStruct(s, fields), StructReader(in, fields), s)
<1> DEFINE r == StructReader(in, fields)
<1>1. Reader(r)
  <2>1. r[0].at = 0
    BY StructFailed DEF StructReader
  <2>2. Len(fields) \in Nat
    BY DEF IsList, Places
  <2>3. ASSUME NEW p \in Nat PROVE r[p].at \in Nat
    <3>1. \/ ReadStruct(in, p, fields).at = 0
          \/ ReadStruct(in, p, fields).at = p + Len(fields)
      BY DEF ReadStruct, Failed
    <3>2. QED
      BY <2>2, <3>1 DEF StructReader
  <2>4. QED
    BY <2>1, <2>3 DEF Reader
<1>2. ASSUME NEW s \in Structs(fields) PROVE Reads(in, StreamStruct(s, fields), r, s)
  <2> DEFINE nums == StreamStruct(s, fields)
  <2>1. nums \in Seq(Nat) /\ Len(nums) >= 1
    <3>1. n \in Nat /\ n >= 1
      BY DEF Places
    <3>2. nums \in Seq(Nat) /\ Len(nums) = n
      BY <3>1, StreamStructType
    <3>3. QED
      BY <3>1, <3>2
  <2>2. ASSUME NEW p \in Places, Agree(in, p, nums) PROVE Follows(in, p, nums, r[p], s)
    <3>1. r[p] = ReadStruct(in, p, fields)
      BY DEF StructReader, Places
    <3> HIDE DEF r
    <3>2. QED
      BY <2>2, <3>1, ReadStructFollows
  <2>3. QED
    BY <1>1, <2>1, <2>2 DEF Reads
<1>3. QED
  BY <1>1, <1>2

\* A function on 1 .. n is a sequence.
LEMMA ListOf ==
    ASSUME NEW T, NEW n \in Nat, NEW E \in [1 .. n -> T]
    PROVE  E \in Seq(T) /\ Len(E) = n
<1>1. E \in Seq(T)
  BY SeqDef
<1>2. QED
  BY <1>1, LenProperties

ElementsReader(in, elem) == [p \in Nat |-> ReadElements(in, p, elem)]

\* A reader of elements makes a reader of vectors.
LEMMA ElementsReaderType ==
    ASSUME NEW in \in Seq(Nat), NEW elem, Reader(elem)
    PROVE  Reader(ElementsReader(in, elem))
<1>1. ElementsReader(in, elem)[0].at = 0
  BY ElementsFailed DEF ElementsReader
<1>2. ASSUME NEW p \in Nat PROVE ReadElements(in, p, elem).at \in Nat
  <2> DEFINE n == ReadNumber(in, p, Unlimited)
             read == CHOOSE g : IsRead(g, n.val, n, elem)
  <2>1. CASE n.at = 0 \/ n.val > Len(in)
    BY <2>1 DEF ReadElements, Failed
  <2>2. CASE ~(n.at = 0 \/ n.val > Len(in))
    <3>1. n.at \in Nat /\ n.val \in Nat
      <4>1. n = [at |-> p + 1, val |-> in[p]] /\ p \in 1 .. Len(in)
        BY <2>2 DEF ReadNumber, Unlimited
      <4>2. QED
        BY <4>1
    <3>2. ReadElements(in, p, elem).at = read[n.val].at
      BY <2>2 DEF ReadElements, IsRead
    <3> HIDE DEF n
    <3>3. IsRead(read, n.val, n, elem)
      BY <3>1, ReadFunction
    <3> HIDE DEF read
    <3> DEFINE Good == {i \in 0 .. n.val : read[i].at \in Nat}
    <3>4. 0 \in Good
      BY <3>1, <3>3 DEF IsRead
    <3>5. ASSUME NEW i \in 1 .. n.val, i - 1 \in Good PROVE i \in Good
      <4>1. read[i] = elem[read[i - 1].at] /\ read[i - 1].at \in Nat /\ i \in 0 .. n.val
        BY <3>1, <3>3, <3>5 DEF IsRead
      <4>2. QED
        BY <4>1 DEF Reader
    <3> HIDE DEF Good
    <3>6. n.val \in Good
      <4>1. \A i \in 0 .. n.val : i \in Good
        BY <3>1, <3>4, <3>5, Induction
      <4>2. QED
        BY <3>1, <4>1
    <3>7. QED
      BY <3>2, <3>6 DEF Good
  <2>3. QED
    BY <2>1, <2>2
<1>3. QED
  BY <1>1, <1>2 DEF Reader, ElementsReader

\* A vector is read back if each of its elements is.
LEMMA ElementsRead ==
    ASSUME NEW in \in Seq(Nat), NEW E, NEW v, NEW elem, NEW n \in Nat,
           E = [i \in 1 .. n |-> E[i]], v = [i \in 1 .. n |-> v[i]], Reader(elem),
           \A i \in 1 .. n : Reads(in, E[i], elem, v[i])
    PROVE  Reads(in, <<n>> \o FlattenSeq(E), ElementsReader(in, elem), v)
<1> DEFINE nums == <<n>> \o FlattenSeq(E)
           r == ElementsReader(in, elem)
<1>1. \A i \in 1 .. n : E[i] \in Seq(Nat) /\ Len(E[i]) >= 1
  BY DEF Reads
<1>2. E \in Seq(Seq(Nat)) /\ Len(E) = n
  <2>1. DOMAIN E = 1 .. n /\ E \in [1 .. n -> Seq(Nat)]
    BY <1>1, Zenon
  <2>2. QED
    BY <2>1, ListOf
<1>3. FlattenSeq(E) \in Seq(Nat)
  BY <1>2, FlattenType
<1>4. nums \in Seq(Nat) /\ Len(nums) >= 1
  <2>1. <<n>> \in Seq(Nat) /\ Len(<<n>>) = 1
    OBVIOUS
  <2>2. nums \in Seq(Nat) /\ Len(nums) = 1 + Len(FlattenSeq(E))
    BY <1>3, <2>1, ConcatProperties
  <2>3. PICK m \in Nat : m = Len(FlattenSeq(E))
    BY <1>3, LenProperties
  <2>4. QED
    BY <2>2, <2>3
<1>5. Reader(r) /\ elem[0].at = 0
  BY ElementsReaderType DEF Reader
<1>6. \A p \in Places : Agree(in, p, nums) => Follows(in, p, nums, r[p], v)
  <2> TAKE p \in Places
  <2>1. r[p] = ReadElements(in, p, elem)
    BY DEF ElementsReader, Places
  <2> HIDE DEF r
  <2>2. \A i \in 1 .. n : \A q \in Places :
            Agree(in, q, E[i]) => Follows(in, q, E[i], elem[q], v[i])
    BY DEF Reads
  <2>3. ASSUME Agree(in, p, nums) PROVE Follows(in, p, nums, ReadElements(in, p, elem), v)
    BY <1>1, <1>2, <1>5, <2>2, <2>3, ReadElementsFollows
  <2>4. QED
    BY <2>1, <2>3
<1>7. QED
  BY <1>4, <1>5, <1>6 DEF Reads

\* The bytes of a sequence, each written by itself.
LEMMA FlattenSingles ==
    ASSUME NEW S, NEW x \in Seq(S)
    PROVE  FlattenSeq([i \in 1 .. Len(x) |-> <<x[i]>>]) = x
<1> DEFINE E == [i \in 1 .. Len(x) |-> <<x[i]>>]
           g == [i \in 0 .. Len(x) |-> SubSeq(x, 1, i)]
<1>1. Len(x) \in Nat /\ \A i \in 1 .. Len(x) : x[i] \in S
  OBVIOUS
<1>2. E \in Seq(Seq(S)) /\ Len(E) = Len(x)
  <2>1. E \in [1 .. Len(x) -> Seq(S)]
    BY <1>1
  <2> HIDE DEF E
  <2>2. QED
    BY <1>1, <2>1, ListOf
<1>3. g[0] = <<>> /\ g[Len(x)] = x
  BY <1>1
<1>4. ASSUME NEW i \in 1 .. Len(x) PROVE g[i] = g[i - 1] \o E[i]
  <2>1. g[i] = SubSeq(x, 1, i) /\ g[i - 1] = SubSeq(x, 1, i - 1) /\ E[i] = <<x[i]>>
    BY <1>1
  <2>2. SubSeq(x, 1, i) = SubSeq(x, 1, i - 1) \o <<x[i]>>
    BY <1>1
  <2>3. QED
    BY <2>1, <2>2
<1> HIDE DEF E, g
<1>5. FlattenSeq(E) = g[Len(E)]
  BY <1>2, <1>3, <1>4, FlattenUnique
<1>6. QED
  BY <1>2, <1>3, <1>5 DEF E

\* A byte is below 256.
LEMMA ByteRange == \A b \in Bytes : b \in Nat /\ b < 256
  BY DEF Bytes

BytesReader(in) == [p \in Nat |-> ReadBytes(in, p)]

\* A vector of bytes is read back.
LEMMA BytesReads ==
    ASSUME NEW in \in Seq(Nat)
    PROVE  /\ Reader(BytesReader(in))
           /\ \A x \in Seq(Bytes) : Reads(in, StreamBytes(x), BytesReader(in), x)
<1> DEFINE elem == NumberReader(in, 1)
<1>1. Reader(elem)
  BY NumberReads
<1>2. BytesReader(in) = ElementsReader(in, elem)
  BY DEF BytesReader, ElementsReader, ReadBytes, ReadVector, ReadByte, NumberReader
<1> HIDE DEF elem
<1>3. Reader(BytesReader(in))
  BY <1>1, <1>2, ElementsReaderType
<1>4. ASSUME NEW x \in Seq(Bytes) PROVE Reads(in, StreamBytes(x), BytesReader(in), x)
  <2> DEFINE E == [i \in 1 .. Len(x) |-> <<x[i]>>]
  <2>1. Len(x) \in Nat /\ x = [i \in 1 .. Len(x) |-> x[i]]
    OBVIOUS
  <2>2. ASSUME NEW i \in 1 .. Len(x) PROVE Reads(in, E[i], elem, x[i])
    <3>1. E[i] = <<x[i]>> /\ x[i] \in Bytes
      OBVIOUS
    <3>2. x[i] \in Nat /\ x[i] < 256
      BY <3>1, ByteRange
    <3>3. QED
      BY <3>1, <3>2, NumberReads DEF elem
  <2>3. E = [i \in 1 .. Len(x) |-> E[i]]
    OBVIOUS
  <2>4. FlattenSeq(E) = x
    BY FlattenSingles
  <2> HIDE DEF E
  <2>5. Reads(in, <<Len(x)>> \o FlattenSeq(E), ElementsReader(in, elem), x)
    BY <1>1, <2>1, <2>2, <2>3, ElementsRead
  <2>6. QED
    BY <1>2, <2>4, <2>5 DEF StreamBytes
<1>5. QED
  BY <1>3, <1>4

\* The elements of a vector are read one after the other.
LEMMA VectorReads ==
    ASSUME NEW in \in Seq(Nat), NEW S, NEW v \in Seq(S), NEW E, NEW elem, Reader(elem),
           E = [i \in DOMAIN v |-> E[i]],
           \A i \in DOMAIN v : Reads(in, E[i], elem, v[i])
    PROVE  Reads(in, <<Len(v)>> \o FlattenSeq(E), ElementsReader(in, elem), v)
<1>1. /\ Len(v) \in Nat /\ DOMAIN v = 1 .. Len(v)
      /\ v = [i \in 1 .. Len(v) |-> v[i]]
  OBVIOUS
<1>2. E = [i \in 1 .. Len(v) |-> E[i]] /\ \A i \in 1 .. Len(v) : Reads(in, E[i], elem, v[i])
  BY <1>1
<1>3. QED
  BY <1>1, <1>2, ElementsRead

EndpointReader(in) == [p \in Nat |-> ReadEndpoint(in, p)]

\* An endpoint is read back.
LEMMA EndpointReads ==
    ASSUME NEW in \in Seq(Nat)
    PROVE  /\ Reader(EndpointReader(in))
           /\ \A e \in Endpoints : Reads(in, StreamEndpoint(e), EndpointReader(in), e)
<1> DEFINE r1 == StructReader(in, EndpointFields)
           r2 == BytesReader(in)
           r == Then(r1, r2)
<1>1. /\ Reader(r1) /\ Reader(r2)
      /\ \A s \in Structs(EndpointFields) : Reads(in, StreamStruct(s, EndpointFields), r1, s)
      /\ \A x \in Seq(Bytes) : Reads(in, StreamBytes(x), r2, x)
  <2>1. 8 \in Places
    BY DEF Places
  <2>2. QED
    BY <2>1, FieldLists, StructReads, BytesReads
<1>2. \A p \in Nat :
          /\ EndpointReader(in)[p].at = r[p].at
          /\ EndpointReader(in)[p].val = [header |-> r[p].val[1], extra |-> r[p].val[2]]
  <2> TAKE p \in Nat
  <2>1. r1[p] = ReadStruct(in, p, EndpointFields) /\ r1[p].at \in Nat
    BY <1>1 DEF StructReader, Reader
  <2>2. r2[r1[p].at] = ReadBytes(in, ReadStruct(in, p, EndpointFields).at)
    BY <2>1 DEF BytesReader
  <2> HIDE DEF r1, r2
  <2>3. QED
    BY <2>1, <2>2 DEF EndpointReader, ReadEndpoint, Then
<1> HIDE DEF r1, r2
<1>3. Reader(r)
  BY <1>1, ThenReader
<1> HIDE DEF r
<1>4. Reader(EndpointReader(in))
  BY <1>2, <1>3 DEF Reader
<1>5. ASSUME NEW e \in Endpoints
      PROVE  Reads(in, StreamEndpoint(e), EndpointReader(in), e)
  <2>1. /\ e.header \in Structs(EndpointFields) /\ e.extra \in Seq(Bytes)
        /\ e = [header |-> e.header, extra |-> e.extra]
    BY DEF Endpoints
  <2>2. Reads(in, StreamEndpoint(e), r, <<e.header, e.extra>>)
    BY <1>1, <2>1, ThenReads DEF StreamEndpoint, r
  <2>3. ASSUME NEW p \in Nat, r[p].val = <<e.header, e.extra>>
        PROVE  EndpointReader(in)[p].val = e
    <3>1. r[p].val[1] = e.header /\ r[p].val[2] = e.extra
      BY <2>3
    <3>2. QED
      BY <1>2, <2>1, <3>1
  <2>4. \A p \in Nat :
            /\ EndpointReader(in)[p].at = r[p].at
            /\ r[p].val = <<e.header, e.extra>> => EndpointReader(in)[p].val = e
    BY <1>2, <2>3, Zenon
  <2>5. QED
    BY <2>2, <2>4, ReadsAs
<1>6. QED
  BY <1>4, <1>5

CapReader(in) == [p \in Nat |-> ReadCap(in, p)]

\* A device capability is read back.
LEMMA CapReads ==
    ASSUME NEW in \in Seq(Nat)
    PROVE  /\ Reader(CapReader(in))
           /\ \A c \in Caps : Reads(in, StreamCap(c), CapReader(in), c)
<1> DEFINE r1 == StructReader(in, CapFields)
           r2 == BytesReader(in)
           r == Then(r1, r2)
<1>1. /\ Reader(r1) /\ Reader(r2)
      /\ \A s \in Structs(CapFields) : Reads(in, StreamStruct(s, CapFields), r1, s)
      /\ \A x \in Seq(Bytes) : Reads(in, StreamBytes(x), r2, x)
  <2>1. 3 \in Places
    BY DEF Places
  <2>2. QED
    BY <2>1, FieldLists, StructReads, BytesReads
<1>2. \A p \in Nat :
          /\ CapReader(in)[p].at = r[p].at
          /\ CapReader(in)[p].val = [header |-> r[p].val[1], data |-> r[p].val[2]]
  <2> TAKE p \in Nat
  <2>1. r1[p] = ReadStruct(in, p, CapFields) /\ r1[p].at \in Nat
    BY <1>1 DEF StructReader, Reader
  <2>2. r2[r1[p].at] = ReadBytes(in, ReadStruct(in, p, CapFields).at)
    BY <2>1 DEF BytesReader
  <2> HIDE DEF r1, r2
  <2>3. QED
    BY <2>1, <2>2 DEF CapReader, ReadCap, Then
<1> HIDE DEF r1, r2
<1>3. Reader(r)
  BY <1>1, ThenReader
<1> HIDE DEF r
<1>4. Reader(CapReader(in))
  BY <1>2, <1>3 DEF Reader
<1>5. ASSUME NEW c \in Caps
      PROVE  Reads(in, StreamCap(c), CapReader(in), c)
  <2>1. /\ c.header \in Structs(CapFields) /\ c.data \in Seq(Bytes)
        /\ c = [header |-> c.header, data |-> c.data]
    BY DEF Caps
  <2>2. Reads(in, StreamCap(c), r, <<c.header, c.data>>)
    BY <1>1, <2>1, ThenReads DEF StreamCap, r
  <2>3. ASSUME NEW p \in Nat, r[p].val = <<c.header, c.data>>
        PROVE  CapReader(in)[p].val = c
    <3>1. r[p].val[1] = c.header /\ r[p].val[2] = c.data
      BY <2>3
    <3>2. QED
      BY <1>2, <2>1, <3>1
  <2>4. \A p \in Nat :
            /\ CapReader(in)[p].at = r[p].at
            /\ r[p].val = <<c.header, c.data>> => CapReader(in)[p].val = c
    BY <1>2, <2>3, Zenon
  <2>5. QED
    BY <2>2, <2>4, ReadsAs
<1>6. QED
  BY <1>4, <1>5

BosReader(in) == [p \in Nat |-> ReadBos(in, p)]

\* A BOS descriptor is read back.
LEMMA BosReads ==
    ASSUME NEW in \in Seq(Nat)
    PROVE  /\ Reader(BosReader(in))
           /\ \A b : /\ b \in [header : Structs(BosFields), caps : Seq(Caps)]
                     => Reads(in, StreamBos(b), BosReader(in), b)
<1> DEFINE r1 == StructReader(in, BosFields)
           r2 == ElementsReader(in, CapReader(in))
           r == Then(r1, r2)
<1>1. /\ Reader(r1) /\ Reader(r2)
      /\ \A s \in Structs(BosFields) : Reads(in, StreamStruct(s, BosFields), r1, s)
  <2>1. 4 \in Places
    BY DEF Places
  <2>2. QED
    BY <2>1, FieldLists, StructReads, CapReads, ElementsReaderType
<1>2. \A v \in Seq(Caps) : Reads(in, StreamVector(v, StreamCap), r2, v)
  <2> TAKE v \in Seq(Caps)
  <2> DEFINE E == [i \in DOMAIN v |-> StreamCap(v[i])]
  <2>1. ASSUME NEW i \in DOMAIN v PROVE Reads(in, E[i], CapReader(in), v[i])
    BY CapReads
  <2>2. E = [i \in DOMAIN v |-> E[i]]
    OBVIOUS
  <2>3. StreamVector(v, StreamCap) = <<Len(v)>> \o FlattenSeq(E)
    BY DEF StreamVector, Each
  <2> HIDE DEF E
  <2>4. QED
    BY <2>1, <2>2, <2>3, CapReads, VectorReads
<1>3. \A p \in Nat :
          /\ BosReader(in)[p].at = r[p].at
          /\ BosReader(in)[p].val = [header |-> r[p].val[1], caps |-> r[p].val[2]]
  <2> TAKE p \in Nat
  <2>1. r1[p] = ReadStruct(in, p, BosFields) /\ r1[p].at \in Nat
    BY <1>1 DEF StructReader, Reader
  <2>2. r2[r1[p].at] = ReadVector(in, ReadStruct(in, p, BosFields).at, ReadCap)
    BY <2>1 DEF ElementsReader, ReadVector, CapReader
  <2> HIDE DEF r1, r2
  <2>3. QED
    BY <2>1, <2>2 DEF BosReader, ReadBos, Then
<1> HIDE DEF r1, r2
<1>4. Reader(r)
  BY <1>1, ThenReader
<1> HIDE DEF r
<1>5. Reader(BosReader(in))
  BY <1>3, <1>4 DEF Reader
<1>6. ASSUME NEW b \in [header : Structs(BosFields), caps : Seq(Caps)]
      PROVE  Reads(in, StreamBos(b), BosReader(in), b)
  <2>1. /\ b.header \in Structs(BosFields) /\ b.caps \in Seq(Caps)
        /\ b = [header |-> b.header, caps |-> b.caps]
    OBVIOUS
  <2>2. Reads(in, StreamBos(b), r, <<b.header, b.caps>>)
    BY <1>1, <1>2, <2>1, ThenReads DEF StreamBos, r
  <2>3. ASSUME NEW p \in Nat, r[p].val = <<b.header, b.caps>>
        PROVE  BosReader(in)[p].val = b
    <3>1. r[p].val[1] = b.header /\ r[p].val[2] = b.caps
      BY <2>3
    <3>2. QED
      BY <1>3, <2>1, <3>1
  <2>4. \A p \in Nat :
            /\ BosReader(in)[p].at = r[p].at
            /\ r[p].val = <<b.header, b.caps>> => BosReader(in)[p].val = b
    BY <1>3, <2>3, Zenon
  <2>5. QED
    BY <2>2, <2>4, ReadsAs
<1>7. QED
  BY <1>5, <1>6

InterfaceReader(in) == [p \in Nat |-> ReadInterface(in, p)]

\* An alternate setting is read back.
LEMMA InterfaceReads ==
    ASSUME NEW in \in Seq(Nat)
    PROVE  /\ Reader(InterfaceReader(in))
           /\ \A a \in Alternates : Reads(in, StreamInterface(a), InterfaceReader(in), a)
<1> DEFINE r1 == StructReader(in, InterfaceFields)
           r2 == ElementsReader(in, EndpointReader(in))
           r12 == Then(r1, r2)
           r3 == BytesReader(in)
           r == Then(r12, r3)
<1>1. /\ Reader(r1) /\ Reader(r2) /\ Reader(r3)
      /\ \A s \in Structs(InterfaceFields) : Reads(in, StreamStruct(s, InterfaceFields), r1, s)
      /\ \A y \in Seq(Bytes) : Reads(in, StreamBytes(y), r3, y)
  <2>1. 9 \in Places
    BY DEF Places
  <2>2. QED
    BY <2>1, FieldLists, StructReads, EndpointReads, ElementsReaderType, BytesReads
<1>2. \A v \in Seq(Endpoints) : Reads(in, StreamVector(v, StreamEndpoint), r2, v)
  <2> TAKE v \in Seq(Endpoints)
  <2> DEFINE E == [i \in DOMAIN v |-> StreamEndpoint(v[i])]
  <2>1. ASSUME NEW i \in DOMAIN v PROVE Reads(in, E[i], EndpointReader(in), v[i])
    BY EndpointReads
  <2>2. E = [i \in DOMAIN v |-> E[i]]
    OBVIOUS
  <2>3. StreamVector(v, StreamEndpoint) = <<Len(v)>> \o FlattenSeq(E)
    BY DEF StreamVector, Each
  <2> HIDE DEF E
  <2>4. QED
    BY <2>1, <2>2, <2>3, EndpointReads, VectorReads
<1>3. Reader(r12) /\ Reader(r)
  <2> HIDE DEF r1, r2, r3
  <2>1. Reader(r12)
    BY <1>1, ThenReader
  <2> HIDE DEF r12
  <2>2. QED
    BY <1>1, <2>1, ThenReader
<1>4. \A p \in Nat :
          /\ InterfaceReader(in)[p].at = r[p].at
          /\ InterfaceReader(in)[p].val =
                 [header |-> r[p].val[1][1], extra |-> r[p].val[2], endpoints |-> r[p].val[1][2]]
  <2> TAKE p \in Nat
  <2> DEFINE header == ReadStruct(in, p, InterfaceFields)
             elems == ReadVector(in, header.at, ReadEndpoint)
             extra == ReadBytes(in, elems.at)
  <2>1. r1[p] = header /\ r1[p].at \in Nat
    BY <1>1 DEF StructReader, Reader
  <2>2. r2[r1[p].at] = elems
    BY <2>1 DEF ElementsReader, ReadVector, EndpointReader
  <2>3. InterfaceReader(in)[p] =
            [at |-> extra.at,
             val |-> [header |-> header.val, extra |-> extra.val, endpoints |-> elems.val]]
    BY DEF InterfaceReader, ReadInterface
  <2> HIDE DEF r1, r2, header, elems
  <2>4. r12[p] = [at |-> elems.at, val |-> <<header.val, elems.val>>]
    BY <2>1, <2>2 DEF Then
  <2>5. r12[p].at = elems.at /\ elems.at \in Nat
    BY <1>3, <2>4 DEF Reader
  <2>6. r3[r12[p].at] = extra
    BY <2>5 DEF BytesReader
  <2> HIDE DEF r12, r3, extra
  <2>7. r[p] = [at |-> extra.at, val |-> <<r12[p].val, extra.val>>]
    BY <2>6 DEF Then
  <2> HIDE DEF r
  <2>8. r[p].val[1][1] = header.val /\ r[p].val[1][2] = elems.val /\ r[p].val[2] = extra.val
    BY <2>4, <2>7
  <2>9. QED
    BY <2>3, <2>7, <2>8
<1> HIDE DEF r1, r2, r3
<1>5. Reader(InterfaceReader(in))
  BY <1>3, <1>4 DEF Reader
<1>6. ASSUME NEW a \in Alternates
      PROVE  Reads(in, StreamInterface(a), InterfaceReader(in), a)
  <2> DEFINE v12 == <<a.header, a.endpoints>>
             v == <<v12, a.extra>>
  <2>1. /\ a.header \in Structs(InterfaceFields) /\ a.endpoints \in Seq(Endpoints)
        /\ a.extra \in Seq(Bytes)
        /\ a = [header |-> a.header, extra |-> a.extra, endpoints |-> a.endpoints]
    BY DEF Alternates
  <2>2. Reads(in, StreamStruct(a.header, InterfaceFields)
                      \o StreamVector(a.endpoints, StreamEndpoint), r12, v12)
    BY <1>1, <1>2, <2>1, ThenReads
  <2> HIDE DEF r12, v12
  <2>3. Reads(in, StreamInterface(a), r, v)
    BY <1>1, <2>1, <2>2, ThenReads DEF StreamInterface
  <2>4. ASSUME NEW p \in Nat, r[p].val = v PROVE InterfaceReader(in)[p].val = a
    <3>1. /\ r[p].val[1][1] = a.header /\ r[p].val[2] = a.extra
          /\ r[p].val[1][2] = a.endpoints
      BY <2>4 DEF v12
    <3> HIDE DEF r, v
    <3>2. QED
      BY <1>4, <2>1, <3>1
  <2> HIDE DEF r, v
  <2>5. \A p \in Nat : /\ InterfaceReader(in)[p].at = r[p].at
                       /\ r[p].val = v => InterfaceReader(in)[p].val = a
    BY <1>4, <2>4, Zenon
  <2>6. QED
    BY <2>3, <2>5, ReadsAs
<1>7. QED
  BY <1>5, <1>6

UsbInterfaceReader(in) == [p \in Nat |-> ReadUsbInterface(in, p)]

\* An interface is read back.
LEMMA UsbInterfaceReads ==
    ASSUME NEW in \in Seq(Nat)
    PROVE  /\ Reader(UsbInterfaceReader(in))
           /\ \A v \in Seq(Alternates) :
                  Reads(in, StreamVector(v, StreamInterface), UsbInterfaceReader(in), v)
<1> DEFINE r == ElementsReader(in, InterfaceReader(in))
<1>1. UsbInterfaceReader(in) = r
  BY DEF UsbInterfaceReader, ReadUsbInterface, ElementsReader, ReadVector, InterfaceReader
<1>2. Reader(r)
  BY InterfaceReads, ElementsReaderType
<1>3. ASSUME NEW v \in Seq(Alternates) PROVE Reads(in, StreamVector(v, StreamInterface), r, v)
  <2> DEFINE E == [i \in DOMAIN v |-> StreamInterface(v[i])]
  <2>1. ASSUME NEW i \in DOMAIN v PROVE Reads(in, E[i], InterfaceReader(in), v[i])
    BY InterfaceReads
  <2>2. E = [i \in DOMAIN v |-> E[i]]
    OBVIOUS
  <2>3. StreamVector(v, StreamInterface) = <<Len(v)>> \o FlattenSeq(E)
    BY DEF StreamVector, Each
  <2> HIDE DEF E
  <2>4. QED
    BY <2>1, <2>2, <2>3, InterfaceReads, VectorReads
<1>4. QED
  BY <1>1, <1>2, <1>3

ConfigReader(in) == [p \in Nat |-> ReadConfig(in, p)]

\* A configuration is read back.
LEMMA ConfigReads ==
    ASSUME NEW in \in Seq(Nat)
    PROVE  /\ Reader(ConfigReader(in))
           /\ \A c \in Configs : Reads(in, StreamConfig(c), ConfigReader(in), c)
<1> DEFINE r1 == StructReader(in, ConfigFields)
           r2 == ElementsReader(in, UsbInterfaceReader(in))
           r12 == Then(r1, r2)
           r3 == BytesReader(in)
           r == Then(r12, r3)
<1>1. /\ Reader(r1) /\ Reader(r2) /\ Reader(r3)
      /\ \A s \in Structs(ConfigFields) : Reads(in, StreamStruct(s, ConfigFields), r1, s)
      /\ \A y \in Seq(Bytes) : Reads(in, StreamBytes(y), r3, y)
  <2>1. 8 \in Places
    BY DEF Places
  <2>2. QED
    BY <2>1, FieldLists, StructReads, UsbInterfaceReads, ElementsReaderType, BytesReads
<1>2. \A v \in Seq(Seq(Alternates)) :
          Reads(in, StreamVector(v, LAMBDA iface : StreamVector(iface, StreamInterface)), r2, v)
  <2> TAKE v \in Seq(Seq(Alternates))
  <2> DEFINE E == [i \in DOMAIN v |-> StreamVector(v[i], StreamInterface)]
  <2>1. ASSUME NEW i \in DOMAIN v PROVE Reads(in, E[i], UsbInterfaceReader(in), v[i])
    BY UsbInterfaceReads
  <2>2. E = [i \in DOMAIN v |-> E[i]]
    OBVIOUS
  <2>3. StreamVector(v, LAMBDA iface : StreamVector(iface, StreamInterface)) =
            <<Len(v)>> \o FlattenSeq(E)
    BY DEF StreamVector, Each
  <2> HIDE DEF E
  <2>4. QED
    BY <2>1, <2>2, <2>3, UsbInterfaceReads, VectorReads
<1>3. Reader(r12) /\ Reader(r)
  <2> HIDE DEF r1, r2, r3
  <2>1. Reader(r12)
    BY <1>1, ThenReader
  <2> HIDE DEF r12
  <2>2. QED
    BY <1>1, <2>1, ThenReader
<1>4. \A p \in Nat :
          /\ ConfigReader(in)[p].at = r[p].at
          /\ ConfigReader(in)[p].val =
                 [header |-> r[p].val[1][1], extra |-> r[p].val[2], interfaces |-> r[p].val[1][2]]
  <2> TAKE p \in Nat
  <2> DEFINE header == ReadStruct(in, p, ConfigFields)
             elems == ReadVector(in, header.at, ReadUsbInterface)
             extra == ReadBytes(in, elems.at)
  <2>1. r1[p] = header /\ r1[p].at \in Nat
    BY <1>1 DEF StructReader, Reader
  <2>2. r2[r1[p].at] = elems
    BY <2>1 DEF ElementsReader, ReadVector, UsbInterfaceReader
  <2>3. ConfigReader(in)[p] =
            [at |-> extra.at,
             val |-> [header |-> header.val, extra |-> extra.val, interfaces |-> elems.val]]
    BY DEF ConfigReader, ReadConfig
  <2> HIDE DEF r1, r2, header, elems
  <2>4. r12[p] = [at |-> elems.at, val |-> <<header.val, elems.val>>]
    BY <2>1, <2>2 DEF Then
  <2>5. r12[p].at = elems.at /\ elems.at \in Nat
    BY <1>3, <2>4 DEF Reader
  <2>6. r3[r12[p].at] = extra
    BY <2>5 DEF BytesReader
  <2> HIDE DEF r12, r3, extra
  <2>7. r[p] = [at |-> extra.at, val |-> <<r12[p].val, extra.val>>]
    BY <2>6 DEF Then
  <2> HIDE DEF r
  <2>8. r[p].val[1][1] = header.val /\ r[p].val[1][2] = elems.val /\ r[p].val[2] = extra.val
    BY <2>4, <2>7
  <2>9. QED
    BY <2>3, <2>7, <2>8
<1> HIDE DEF r1, r2, r3
<1>5. Reader(ConfigReader(in))
  BY <1>3, <1>4 DEF Reader
<1>6. ASSUME NEW c \in Configs
      PROVE  Reads(in, StreamConfig(c), ConfigReader(in), c)
  <2> DEFINE v12 == <<c.header, c.interfaces>>
             v == <<v12, c.extra>>
  <2>1. /\ c.header \in Structs(ConfigFields) /\ c.interfaces \in Seq(Seq(Alternates))
        /\ c.extra \in Seq(Bytes)
        /\ c = [header |-> c.header, extra |-> c.extra, interfaces |-> c.interfaces]
    BY DEF Configs
  <2>2. Reads(in, StreamStruct(c.header, ConfigFields)
                      \o StreamVector(c.interfaces,
                                      LAMBDA iface : StreamVector(iface, StreamInterface)),
              r12, v12)
    BY <1>1, <1>2, <2>1, ThenReads
  <2> HIDE DEF r12, v12
  <2>3. Reads(in, StreamConfig(c), r, v)
    BY <1>1, <2>1, <2>2, ThenReads DEF StreamConfig
  <2>4. ASSUME NEW p \in Nat, r[p].val = v PROVE ConfigReader(in)[p].val = c
    <3>1. /\ r[p].val[1][1] = c.header /\ r[p].val[2] = c.extra
          /\ r[p].val[1][2] = c.interfaces
      BY <2>4 DEF v12
    <3> HIDE DEF r, v
    <3>2. QED
      BY <1>4, <2>1, <3>1
  <2> HIDE DEF r, v
  <2>5. \A p \in Nat : /\ ConfigReader(in)[p].at = r[p].at
                       /\ r[p].val = v => ConfigReader(in)[p].val = c
    BY <1>4, <2>4, Zenon
  <2>6. QED
    BY <2>3, <2>5, ReadsAs
<1>7. QED
  BY <1>5, <1>6

-----------------------------------------------------------------------------
(* The keys of a map in ascending order. *)

IsAscending(s, keys) ==
    /\ s \in [1 .. Cardinality(keys) -> keys]
    /\ Range(s) = keys
    /\ \A i, j \in DOMAIN s : i < j => s[i] < s[j]

\* A set of numbers below n can be put in order.
LEMMA AscendingExists ==
    ASSUME NEW n \in Nat
    PROVE  \A K \in SUBSET (0 .. n - 1) :
               Cardinality(K) \in Nat /\ IsFiniteSet(K) /\ \E s : IsAscending(s, K)
<1> DEFINE Ok(K) == Cardinality(K) \in Nat /\ IsFiniteSet(K) /\ \E s : IsAscending(s, K)
           P == {m \in 0 .. n : \A K \in SUBSET (0 .. m - 1) : Ok(K)}
<1>1. 0 \in P
  <2>1. ASSUME NEW K \in SUBSET (0 .. 0 - 1) PROVE Ok(K)
    <3>1. K = {}
      OBVIOUS
    <3>2. Cardinality(K) = 0 /\ IsFiniteSet(K)
      BY <3>1, FS_EmptySet
    <3>3. DOMAIN <<>> = {} /\ <<>> \in [1 .. 0 -> {}]
      OBVIOUS
    <3>4. Range(<<>>) = {}
      BY <3>3 DEF Range
    <3>5. IsAscending(<<>>, K)
      BY <3>1, <3>2, <3>3, <3>4 DEF IsAscending
    <3>6. QED
      BY <3>2, <3>5
  <2> HIDE DEF Ok
  <2>2. QED
    BY <2>1
<1>2. ASSUME NEW m \in 1 .. n, m - 1 \in P PROVE m \in P
  <2>1. \A K \in SUBSET (0 .. (m - 1) - 1) : Ok(K)
    <3> HIDE DEF Ok
    <3>1. QED
      BY <1>2
  <2>2. ASSUME NEW K \in SUBSET (0 .. m - 1) PROVE Ok(K)
    <3> DEFINE k == m - 1
               J == K \ {k}
    <3>1. k \in Nat /\ J \in SUBSET (0 .. (m - 1) - 1) /\ \A x \in J : x \in Nat /\ x < k
      OBVIOUS
    <3>2. Ok(J)
      <4> HIDE DEF Ok, J, k
      <4>1. QED
        BY <2>1, <3>1
    <3>3. CASE k \notin K
      <4>1. J = K
        BY <3>3
      <4> HIDE DEF Ok, J, k
      <4>2. QED
        BY <3>2, <4>1
    <3>4. CASE k \in K
      <4>1. K = J \cup {k} /\ k \notin J
        BY <3>4
      <4> HIDE DEF k, J
      <4>2. PICK r : IsAscending(r, J)
        BY <3>2
      <4> DEFINE c == Cardinality(J)
                 s == [i \in 1 .. c + 1 |-> IF i <= c THEN r[i] ELSE k]
      <4>3. c \in Nat /\ Cardinality(K) = c + 1 /\ IsFiniteSet(K)
        BY <3>2, <4>1, FS_AddElement
      <4>4. r \in [1 .. c -> J] /\ Range(r) = J /\ \A i, j \in 1 .. c : i < j => r[i] < r[j]
        BY <4>2 DEF IsAscending
      <4> HIDE DEF c
      <4>5. \A i \in 1 .. c : s[i] = r[i] /\ s[i] \in J
        BY <4>3, <4>4
      <4>6. s[c + 1] = k /\ DOMAIN s = 1 .. c + 1
        BY <4>3
      <4>7. \A i \in 1 .. c + 1 : i \in 1 .. c \/ i = c + 1
        BY <4>3
      <4>8. s \in [1 .. c + 1 -> K]
        <5>1. \A i \in 1 .. c + 1 : s[i] \in K
          <6> HIDE DEF s
          <6>1. QED
            BY <4>1, <4>5, <4>6, <4>7
        <5>2. QED
          BY <5>1
      <4> HIDE DEF s
      <4>9. Range(s) = K
        <5>1. \A x \in K : \E i \in DOMAIN s : s[i] = x
          <6> TAKE x \in K
          <6>1. CASE x = k
            BY <4>3, <4>6, <6>1
          <6>2. CASE x \in J
            <7>1. PICK i \in 1 .. c : r[i] = x
              BY <4>4, <6>2 DEF Range
            <7>2. i \in DOMAIN s /\ s[i] = x
              BY <4>3, <4>5, <4>6, <7>1
            <7>3. QED
              BY <7>2
          <6>3. QED
            BY <4>1, <6>1, <6>2
        <5>2. QED
          BY <4>8, <5>1 DEF Range
      <4>10. ASSUME NEW i \in DOMAIN s, NEW j \in DOMAIN s, i < j PROVE s[i] < s[j]
        <5>1. i \in 1 .. c
          BY <4>3, <4>6, <4>10
        <5>2. CASE j \in 1 .. c
          BY <4>4, <4>5, <4>10, <5>1, <5>2
        <5>3. CASE j = c + 1
          BY <3>1, <4>5, <4>6, <5>1, <5>3
        <5>4. QED
          BY <4>6, <4>7, <5>2, <5>3
      <4>11. IsAscending(s, K)
        BY <4>3, <4>8, <4>9, <4>10 DEF IsAscending
      <4>12. QED
        BY <4>3, <4>11
    <3>5. QED
      BY <3>3, <3>4
  <2>3. m \in 0 .. n
    OBVIOUS
  <2> HIDE DEF Ok
  <2>4. QED
    BY <2>2, <2>3
<1>3. n \in P
  <2> HIDE DEF P
  <2>1. \A i \in 0 .. n : i \in P
    BY <1>1, <1>2, Induction
  <2>2. QED
    BY <2>1
<1> HIDE DEF Ok
<1>4. \A K \in SUBSET (0 .. n - 1) : Ok(K)
  BY <1>3
<1>5. QED
  BY <1>4 DEF Ok

\* Ascending lists every key, and none of them twice.
LEMMA AscendingKeys ==
    ASSUME NEW n \in Nat, NEW K \in SUBSET (0 .. n - 1)
    PROVE  /\ Ascending(K) \in Seq(K)
           /\ Range(Ascending(K)) = K
           /\ \A i, j \in DOMAIN Ascending(K) :
                  Ascending(K)[i] = Ascending(K)[j] => i = j
<1> DEFINE c == Cardinality(K)
           Good(s) == Range(s) = K /\ \A i, j \in DOMAIN s : i < j => s[i] < s[j]
<1>1. c \in Nat /\ \E s : IsAscending(s, K)
  BY AscendingExists
<1>2. \E s \in [1 .. c -> K] : Good(s)
  BY <1>1 DEF IsAscending
<1>3. Ascending(K) = CHOOSE s \in [1 .. c -> K] : Good(s)
  BY DEF Ascending
<1> DEFINE a == Ascending(K)
<1>4. a \in [1 .. c -> K] /\ Good(a)
  <2> HIDE DEF Good, c
  <2>1. QED
    BY <1>2, <1>3
<1> HIDE DEF a, c
<1>5. a \in Seq(K)
  BY <1>1, <1>4, ListOf
<1>6. ASSUME NEW i \in DOMAIN a, NEW j \in DOMAIN a, a[i] = a[j] PROVE i = j
  <2>1. i \in 1 .. c /\ j \in 1 .. c /\ a[i] \in K /\ a[j] \in K
    BY <1>4
  <2>2. i \in Nat /\ j \in Nat /\ a[i] \in Nat /\ a[j] \in Nat
    <3>1. (\A x \in K : x \in Nat) /\ \A x \in 1 .. c : x \in Nat
      OBVIOUS
    <3>2. QED
      BY <2>1, <3>1, Zenon
  <2>3. ~(i < j) /\ ~(j < i)
    BY <1>4, <1>6, <2>2
  <2>4. QED
    BY <2>2, <2>3
<1>7. QED
  BY <1>4, <1>5, <1>6 DEF a

-----------------------------------------------------------------------------
(* The strings of a tree, and the whole tree. *)

IsStringMap(m) ==
    /\ DOMAIN m \in SUBSET (0 .. WordLimit - 1)
    /\ m = [l \in DOMAIN m |-> m[l]]
    /\ \A l \in DOMAIN m : m[l] \in Seq(Seq(Bytes))

LangReader(in) == [p \in Nat |-> ReadLang(in, p)]

\* A language and its strings are read back.
LEMMA LangReads ==
    ASSUME NEW in \in Seq(Nat)
    PROVE  /\ Reader(LangReader(in))
           /\ \A l \in 0 .. WordLimit - 1 : \A v \in Seq(Seq(Bytes)) :
                  Reads(in, <<l>> \o StreamVector(v, StreamBytes), LangReader(in),
                        [lang |-> l, strings |-> v])
<1> DEFINE r1 == NumberReader(in, 2)
           r2 == ElementsReader(in, BytesReader(in))
           r == Then(r1, r2)
<1>1. /\ Reader(r1) /\ Reader(r2)
      /\ \A l \in 0 .. WordLimit - 1 : Reads(in, <<l>>, r1, l)
  <2>1. \A l \in 0 .. WordLimit - 1 : l \in Nat /\ l < WordLimit
    BY Limit
  <2>2. QED
    BY <2>1, NumberReads, BytesReads, ElementsReaderType
<1>2. \A v \in Seq(Seq(Bytes)) : Reads(in, StreamVector(v, StreamBytes), r2, v)
  <2> TAKE v \in Seq(Seq(Bytes))
  <2> DEFINE E == [i \in DOMAIN v |-> StreamBytes(v[i])]
  <2>1. ASSUME NEW i \in DOMAIN v PROVE Reads(in, E[i], BytesReader(in), v[i])
    <3>1. v[i] \in Seq(Bytes) /\ E[i] = StreamBytes(v[i])
      OBVIOUS
    <3>2. QED
      BY <3>1, BytesReads
  <2>2. E = [i \in DOMAIN v |-> E[i]]
    OBVIOUS
  <2>3. StreamVector(v, StreamBytes) = <<Len(v)>> \o FlattenSeq(E)
    BY DEF StreamVector, Each
  <2> HIDE DEF E
  <2>4. QED
    BY <2>1, <2>2, <2>3, BytesReads, VectorReads
<1>3. \A p \in Nat :
          /\ LangReader(in)[p].at = r[p].at
          /\ LangReader(in)[p].val = [lang |-> r[p].val[1], strings |-> r[p].val[2]]
  <2> TAKE p \in Nat
  <2>1. r1[p] = ReadNumber(in, p, 2) /\ r1[p].at \in Nat
    BY <1>1 DEF NumberReader, Reader
  <2>2. r2[r1[p].at] = ReadVector(in, ReadNumber(in, p, 2).at, ReadBytes)
    BY <2>1 DEF ElementsReader, ReadVector, BytesReader
  <2> HIDE DEF r1, r2
  <2>3. QED
    BY <2>1, <2>2 DEF LangReader, ReadLang, Then
<1> HIDE DEF r1, r2
<1>4. Reader(r)
  BY <1>1, ThenReader
<1>5. ASSUME NEW l \in 0 .. WordLimit - 1, NEW v \in Seq(Seq(Bytes))
      PROVE  Reads(in, <<l>> \o StreamVector(v, StreamBytes), r, <<l, v>>)
  BY <1>1, <1>2, ThenReads
<1> HIDE DEF r
<1>6. Reader(LangReader(in))
  BY <1>3, <1>4 DEF Reader
<1>7. ASSUME NEW l \in 0 .. WordLimit - 1, NEW v \in Seq(Seq(Bytes))
      PROVE  Reads(in, <<l>> \o StreamVector(v, StreamBytes), LangReader(in),
                   [lang |-> l, strings |-> v])
  <2> DEFINE w == [lang |-> l, strings |-> v]
  <2>1. ASSUME NEW p \in Nat, r[p].val = <<l, v>> PROVE LangReader(in)[p].val = w
    <3>1. r[p].val[1] = l /\ r[p].val[2] = v
      BY <2>1
    <3>2. QED
      BY <1>3, <3>1
  <2> HIDE DEF w
  <2>2. \A p \in Nat : /\ LangReader(in)[p].at = r[p].at
                       /\ r[p].val = <<l, v>> => LangReader(in)[p].val = w
    BY <1>3, <2>1, Zenon
  <2>3. Reads(in, <<l>> \o StreamVector(v, StreamBytes), r, <<l, v>>)
    BY <1>5
  <2>4. Reads(in, <<l>> \o StreamVector(v, StreamBytes), LangReader(in), w)
    <3> DEFINE nums == <<l>> \o StreamVector(v, StreamBytes)
               both == <<l, v>>
               s == LangReader(in)
    <3>1. /\ Reads(in, nums, r, both)
          /\ \A p \in Nat : s[p].at = r[p].at /\ (r[p].val = both => s[p].val = w)
      BY <2>2, <2>3
    <3> HIDE DEF nums, both, s
    <3>2. Reads(in, nums, s, w)
      BY <3>1, ReadsAs
    <3>3. QED
      BY <3>2 DEF nums, s
  <2>5. QED
    BY <2>4 DEF w
<1>8. QED
  BY <1>6, <1>7

\* insert finds a language among its entries when each has one entry.
LEMMA FirstOfEntries ==
    ASSUME NEW K, NEW k \in Seq(K), NEW m, NEW v, DOMAIN v = DOMAIN k,
           \A i \in DOMAIN k : v[i].lang = k[i] /\ v[i].strings = m[k[i]],
           \A i, j \in DOMAIN k : k[i] = k[j] => i = j
    PROVE  /\ {e.lang : e \in Range(v)} = Range(k)
           /\ \A l \in Range(k) : v[FirstOf(v, l)].strings = m[l]
<1>1. DOMAIN v = DOMAIN k /\ \A i \in DOMAIN k : v[i].lang = k[i] /\ v[i].strings = m[k[i]]
  OBVIOUS
<1>2. DOMAIN k = 1 .. Len(k) /\ Len(k) \in Nat
  OBVIOUS
<1>3. {e.lang : e \in Range(v)} = Range(k)
  BY <1>1 DEF Range
<1>4. ASSUME NEW l \in Range(k) PROVE v[FirstOf(v, l)].strings = m[l]
  <2> DEFINE Is(i) == v[i].lang = l /\ \A j \in 1 .. i - 1 : v[j].lang # l
  <2>1. PICK i \in DOMAIN k : k[i] = l
    BY DEF Range
  <2>2. \A j \in 1 .. i - 1 : j \in DOMAIN k /\ j # i
    BY <1>2, <2>1
  <2>3. Is(i) /\ i \in DOMAIN v
    BY <1>1, <2>1, <2>2
  <2>4. FirstOf(v, l) = CHOOSE n \in DOMAIN v : Is(n)
    BY DEF FirstOf
  <2> DEFINE f == FirstOf(v, l)
  <2>5. f \in DOMAIN v /\ Is(f)
    <3> HIDE DEF Is
    <3>1. QED
      BY <2>3, <2>4
  <2> HIDE DEF f
  <2>6. v[f].strings = m[l]
    BY <1>1, <2>5
  <2>7. QED
    BY <2>6 DEF f
<1>5. QED
  BY <1>3, <1>4

StringsReader(in) == [p \in Nat |-> ReadStrings(in, p)]

\* The strings of all languages are read back.
LEMMA StringsRead ==
    ASSUME NEW in \in Seq(Nat)
    PROVE  /\ Reader(StringsReader(in))
           /\ \A m : IsStringMap(m) => Reads(in, StreamStrings(m), StringsReader(in), m)
<1> DEFINE r == ElementsReader(in, LangReader(in))
<1>1. \A p \in Nat :
          /\ StringsReader(in)[p].at = r[p].at
          /\ StringsReader(in)[p].val =
                 [l \in {e.lang : e \in Range(r[p].val)} |->
                      r[p].val[FirstOf(r[p].val, l)].strings]
  <2> TAKE p \in Nat
  <2>1. r[p] = ReadVector(in, p, ReadLang)
    BY DEF ElementsReader, ReadVector, LangReader
  <2> HIDE DEF r
  <2>2. QED
    BY <2>1 DEF StringsReader, ReadStrings
<1>2. Reader(r)
  BY LangReads, ElementsReaderType
<1> HIDE DEF r
<1>3. Reader(StringsReader(in))
  BY <1>1, <1>2 DEF Reader
<1>4. ASSUME NEW m, IsStringMap(m) PROVE Reads(in, StreamStrings(m), StringsReader(in), m)
  <2> DEFINE K == DOMAIN m
             k == Ascending(K)
             v == [i \in DOMAIN k |-> [lang |-> k[i], strings |-> m[k[i]]]]
             E == [i \in DOMAIN k |-> <<k[i]>> \o StreamVector(m[k[i]], StreamBytes)]
  <2>1. K \in SUBSET (0 .. WordLimit - 1) /\ \A l \in K : m[l] \in Seq(Seq(Bytes))
    BY <1>4 DEF IsStringMap
  <2>2. k \in Seq(K) /\ Range(k) = K /\ \A i, j \in DOMAIN k : k[i] = k[j] => i = j
    <3> HIDE DEF K
    <3>1. QED
      BY <2>1, Limit, AscendingKeys
  <2>3. StreamStrings(m) = <<Len(k)>> \o FlattenSeq(E)
    BY DEF StreamStrings, StreamVector, Each
  <2> HIDE DEF k, K
  <2>4. v \in Seq(Range(v)) /\ DOMAIN v = DOMAIN k /\ Len(v) = Len(k)
    <3>1. Len(k) \in Nat /\ DOMAIN k = 1 .. Len(k)
      BY <2>2
    <3>2. DOMAIN v = DOMAIN k /\ v \in [1 .. Len(k) -> Range(v)]
      BY <3>1 DEF Range
    <3> HIDE DEF v
    <3>3. QED
      BY <3>1, <3>2, ListOf
  <2>5. ASSUME NEW i \in DOMAIN v PROVE Reads(in, E[i], LangReader(in), v[i])
    <3>1. k[i] \in K /\ i \in DOMAIN k
      BY <2>2, <2>4
    <3>2. k[i] \in 0 .. WordLimit - 1 /\ m[k[i]] \in Seq(Seq(Bytes))
      BY <2>1, <3>1
    <3>3. /\ E[i] = <<k[i]>> \o StreamVector(m[k[i]], StreamBytes)
          /\ v[i] = [lang |-> k[i], strings |-> m[k[i]]]
      BY <3>1
    <3> HIDE DEF E, v
    <3>4. QED
      BY <3>2, <3>3, LangReads
  <2>6. E = [i \in DOMAIN v |-> E[i]]
    BY <2>4
  <2>7. /\ {e.lang : e \in Range(v)} = Range(k)
        /\ \A l \in Range(k) : v[FirstOf(v, l)].strings = m[l]
    <3>1. /\ DOMAIN v = DOMAIN k
          /\ \A i \in DOMAIN k : v[i].lang = k[i] /\ v[i].strings = m[k[i]]
      OBVIOUS
    <3> HIDE DEF v
    <3>2. QED
      BY <2>2, <3>1, FirstOfEntries
  <2> HIDE DEF v, E
  <2>8. Reads(in, <<Len(v)>> \o FlattenSeq(E), r, v)
    BY <2>4, <2>5, <2>6, LangReads, VectorReads DEF r
  <2>9. [l \in {e.lang : e \in Range(v)} |-> v[FirstOf(v, l)].strings] = m
    <3>1. m = [l \in K |-> m[l]]
      BY <1>4 DEF IsStringMap, K
    <3>2. [l \in K |-> v[FirstOf(v, l)].strings] = [l \in K |-> m[l]]
      BY <2>2, <2>7
    <3>3. {e.lang : e \in Range(v)} = K
      BY <2>2, <2>7
    <3>4. QED
      BY <3>1, <3>2, <3>3
  <2>10. \A p \in Nat : /\ StringsReader(in)[p].at = r[p].at
                        /\ r[p].val = v => StringsReader(in)[p].val = m
    BY <1>1, <2>9
  <2>11. Reads(in, <<Len(v)>> \o FlattenSeq(E), StringsReader(in), m)
    BY <2>8, <2>10, ReadsAs
  <2>12. QED
    BY <2>3, <2>4, <2>11
<1>5. QED
  BY <1>3, <1>4

WellFormed(t) ==
    /\ t = [dd |-> t.dd, config |-> t.config, strings |-> t.strings, report |-> t.report,
            bos |-> t.bos]
    /\ t.dd \in Structs(DeviceFields)
    /\ t.config \in Configs
    /\ IsStringMap(t.strings)
    /\ \A l \in DOMAIN t.strings : \A i \in DOMAIN t.strings[l] : Len(t.strings[l][i]) >= 2
    /\ t.report \in Seq(Bytes)
    /\ t.bos \in BosSet

\* The table of languages consists of bytes: 126 languages are not too many.
LEMMA LangTableType ==
    ASSUME NEW langs \in Seq(1 .. WordLimit - 1), Len(langs) \in 0 .. 126
    PROVE  LangTable(langs) \in Seq(Bytes) /\ Len(LangTable(langs)) >= 2
<1> DEFINE E == [i \in DOMAIN langs |-> LittleEndian(langs[i], 2)]
           head == <<2 + 2 * Len(langs), 3>>
<1>1. DOMAIN langs = 1 .. Len(langs) /\ Len(langs) \in Nat
  OBVIOUS
<1>2. ASSUME NEW i \in DOMAIN langs PROVE E[i] \in Seq(Bytes)
  <2>1. langs[i] \in 1 .. WordLimit - 1
    BY <1>1, ElementOfSeq
  <2>2. PICK n \in Nat : n = langs[i]
    BY <2>1
  <2>3. n % 256 \in Bytes /\ (n \div 256) % 256 \in Bytes
    BY DEF Bytes
  <2>4. E[i] = <<n % 256, (n \div 256) % 256>>
    BY <2>2 DEF LittleEndian
  <2> HIDE DEF E
  <2>5. QED
    BY <2>3, <2>4
<1>3. E \in Seq(Seq(Bytes))
  <2>1. E \in [1 .. Len(langs) -> Seq(Bytes)]
    BY <1>1, <1>2
  <2> HIDE DEF E
  <2>2. QED
    BY <1>1, <2>1, ListOf
<1>4. LangTable(langs) = head \o FlattenSeq(E)
  BY DEF LangTable, Each
<1> HIDE DEF E
<1>5. FlattenSeq(E) \in Seq(Bytes)
  BY <1>3, FlattenType
<1>6. head \in Seq(Bytes) /\ Len(head) = 2
  <2>1. PICK n \in 0 .. 126 : n = Len(langs)
    OBVIOUS
  <2>2. 2 + 2 * n \in Bytes /\ 3 \in Bytes
    BY DEF Bytes
  <2>3. head = <<2 + 2 * n, 3>>
    BY <2>1
  <2> HIDE DEF head
  <2>4. QED
    BY <2>2, <2>3
<1> HIDE DEF head
<1>7. LangTable(langs) \in Seq(Bytes) /\ Len(LangTable(langs)) = 2 + Len(FlattenSeq(E))
  <2>1. /\ head \o FlattenSeq(E) \in Seq(Bytes)
        /\ Len(head \o FlattenSeq(E)) = Len(head) + Len(FlattenSeq(E))
    BY <1>5, <1>6, ConcatProperties, Zenon
  <2>2. QED
    BY <1>4, <1>6, <2>1, Zenon
<1>8. PICK n \in Nat : n = Len(FlattenSeq(E))
  BY <1>5, LenProperties
<1>9. QED
  BY <1>7, <1>8

\* The strings of a device are byte sequences under languages of two bytes.
LEMMA StringMapOf ==
    ASSUME NEW d, IsDevice(d)
    PROVE  /\ IsStringMap(StringDescriptors(d))
           /\ \A l \in DOMAIN StringDescriptors(d) :
                  \A i \in DOMAIN StringDescriptors(d)[l] :
                      Len(StringDescriptors(d)[l][i]) >= 2
<1> DEFINE map == StringDescriptors(d)
           Long(ss) == ss \in Seq(Seq(Bytes)) /\ \A i \in DOMAIN ss : Len(ss[i]) >= 2
<1>1. map = [l \in DOMAIN map |-> map[l]]
  <2>1. CASE d.langs = <<>>
    <3>1. map = <<>>
      BY <2>1 DEF StringDescriptors
    <3> HIDE DEF map
    <3>2. QED
      BY <3>1
  <2>2. CASE d.langs # <<>>
    BY <2>2 DEF StringDescriptors
  <2>3. QED
    BY <2>1, <2>2
<1>2. DOMAIN map \in SUBSET (0 .. WordLimit - 1)
  <2>1. \A l \in DOMAIN map : l = 0 \/ l \in 1 .. WordLimit - 1
    BY StringFacts
  <2>2. \A l : l = 0 \/ l \in 1 .. WordLimit - 1 => l \in 0 .. WordLimit - 1
    BY Limit
  <2>3. QED
    BY <2>1, <2>2
<1>3. ASSUME NEW ss \in Seq(Seq(Bytes)) PROVE Long(CollectStrings(ss))
  <2>1. PICK n \in 0 .. Len(ss) : /\ CollectStrings(ss) = SubSeq(ss, 1, n)
                                  /\ \A i \in 1 .. n : IsString(ss[i])
    BY Collected
  <2>2. /\ SubSeq(ss, 1, n) \in Seq(Seq(Bytes)) /\ DOMAIN SubSeq(ss, 1, n) = 1 .. n
        /\ \A i \in 1 .. n : SubSeq(ss, 1, n)[i] = ss[i]
    OBVIOUS
  <2>3. \A i \in 1 .. n : Len(ss[i]) >= 2
    BY <2>1 DEF IsString
  <2>4. QED
    BY <2>1, <2>2, <2>3
<1>4. ASSUME d.langs # <<>> PROVE Long(map[0])
  <2>1. LangTable(d.langs) \in Seq(Bytes) /\ Len(LangTable(d.langs)) >= 2
    BY LangTableType DEF IsDevice
  <2>2. map[0] = <<LangTable(d.langs)>>
    BY <1>4, StringFacts
  <2> HIDE DEF map
  <2>3. QED
    BY <2>1, <2>2
<1>5. ASSUME NEW l \in DOMAIN map PROVE Long(map[l])
  <2>1. CASE l = 0
    <3>1. d.langs # <<>>
      BY StringFacts
    <3> HIDE DEF Long, map
    <3>2. QED
      BY <1>4, <2>1, <3>1
  <2>2. CASE l # 0
    <3>1. l \in Range(d.langs)
      BY <2>2, StringFacts
    <3>2. d.strings[l] \in Seq(Seq(Bytes)) /\ map[l] = CollectStrings(d.strings[l])
      BY <3>1, StringFacts
    <3> HIDE DEF Long, map
    <3>3. QED
      BY <1>3, <3>2
  <2>3. QED
    BY <2>1, <2>2
<1> HIDE DEF map
<1>6. QED
  BY <1>1, <1>2, <1>5 DEF map, IsStringMap

\* The tree of every device can be saved and loaded.
LEMMA BuildWellFormed ==
    ASSUME NEW d, IsDevice(d)
    PROVE  WellFormed(Build(d))
<1>1. /\ Build(d).dd = d.dd /\ Build(d).config = d.config /\ Build(d).report = d.report
      /\ Build(d).strings = StringDescriptors(d) /\ Build(d).bos = BuildBos(d.bos)
      /\ BuildBos(d.bos) \in BosSet
  BY BuildFacts
<1>2. d.dd \in Structs(DeviceFields) /\ d.config \in Configs /\ d.report \in Seq(Bytes)
  BY DEF IsDevice, CountedConfigs
<1>3. Build(d) = [dd |-> Build(d).dd, config |-> Build(d).config,
                  strings |-> Build(d).strings, report |-> Build(d).report,
                  bos |-> Build(d).bos]
  BY DEF Build
<1>4. QED
  BY <1>1, <1>2, <1>3, StringMapOf DEF WellFormed

\* What load makes of a stream that agrees with a saved tree.
LEMMA LoadReads ==
    ASSUME NEW in \in Seq(Nat), NEW t, WellFormed(t), Agree(in, 1, SaveTree(t))
    PROVE  /\ SaveTree(t) \in Seq(Nat)
           /\ Len(SaveTree(t)) <= Len(in) => LoadTree(in) = <<t>>
           /\ ~(Len(SaveTree(t)) <= Len(in)) => LoadTree(in) = <<>>
<1> DEFINE q1 == StructReader(in, DeviceFields)
           q2 == Then(q1, ConfigReader(in))
           q3 == Then(q2, StringsReader(in))
           q4 == Then(q3, BytesReader(in))
           q5 == Then(q4, BosReader(in))
           n1 == StreamStruct(t.dd, DeviceFields)
           n2 == n1 \o StreamConfig(t.config)
           n3 == n2 \o StreamStrings(t.strings)
           n4 == n3 \o StreamBytes(t.report)
           n5 == n4 \o StreamBos(t.bos)
           v2 == <<t.dd, t.config>>
           v3 == <<v2, t.strings>>
           v4 == <<v3, t.report>>
           v5 == <<v4, t.bos>>
<1>1. Reads(in, n1, q1, t.dd)
  <2>1. 14 \in Places
    BY DEF Places
  <2>2. QED
    BY <2>1, FieldLists, StructReads DEF WellFormed
<1>2. /\ Reads(in, StreamConfig(t.config), ConfigReader(in), t.config)
      /\ Reads(in, StreamStrings(t.strings), StringsReader(in), t.strings)
      /\ Reads(in, StreamBytes(t.report), BytesReader(in), t.report)
  BY ConfigReads, StringsRead, BytesReads DEF WellFormed
<1>3. Reads(in, StreamBos(t.bos), BosReader(in), t.bos)
  <2>1. t.bos \in [header : Structs(BosFields), caps : Seq(Caps)]
    BY DEF WellFormed, BosSet
  <2>2. QED
    BY <2>1, BosReads
<1> HIDE DEF q1, n1
<1>4. Reads(in, n2, q2, v2)
  BY <1>1, <1>2, ThenReads
<1> HIDE DEF q2, n2, v2
<1>5. Reads(in, n3, q3, v3)
  BY <1>2, <1>4, ThenReads
<1> HIDE DEF q3, n3, v3
<1>6. Reads(in, n4, q4, v4)
  BY <1>2, <1>5, ThenReads
<1> HIDE DEF q4, n4, v4
<1>7. Reads(in, n5, q5, v5)
  BY <1>3, <1>6, ThenReads
<1> HIDE DEF q5, n5, v5
<1>8. SaveTree(t) = n5
  BY DEF SaveTree, n5, n4, n3, n2, n1
<1>9. n5 \in Seq(Nat) /\ Len(n5) >= 1 /\ Follows(in, 1, n5, q5[1], v5)
  <2>1. 1 \in Places
    BY DEF Places
  <2>2. QED
    BY <1>7, <1>8, <2>1 DEF Reads
<1>10. Fits(in, 1, n5) <=> Len(n5) <= Len(in)
  <2>1. PICK m \in Nat : m = Len(n5)
    BY <1>9, LenProperties
  <2>2. QED
    BY <2>1 DEF Fits
<1> DEFINE dd == ReadStruct(in, 1, DeviceFields)
           config == ReadConfig(in, dd.at)
           strings == ReadStrings(in, config.at)
           report == ReadBytes(in, strings.at)
           bos == ReadBos(in, report.at)
<1>11. q1[1] = dd /\ dd.at \in Nat
  <2>1. q1[1] = dd
    BY DEF q1, StructReader
  <2>2. QED
    BY <1>1, <2>1 DEF Reads, Reader
<1>12. q2[1] = [at |-> config.at, val |-> <<dd.val, config.val>>] /\ config.at \in Nat
  <2>1. ConfigReader(in)[dd.at] = config
    BY <1>11 DEF ConfigReader
  <2> HIDE DEF dd, config
  <2>2. q2[1] = [at |-> config.at, val |-> <<dd.val, config.val>>]
    BY <1>11, <2>1 DEF q2, Then
  <2>3. QED
    BY <1>4, <2>2 DEF Reads, Reader
<1>13. q3[1] = [at |-> strings.at, val |-> <<q2[1].val, strings.val>>] /\ strings.at \in Nat
  <2>1. StringsReader(in)[config.at] = strings
    BY <1>12 DEF StringsReader
  <2>2. q2[1].at = config.at
    BY <1>12
  <2> HIDE DEF config, strings
  <2>3. q3[1] = [at |-> strings.at, val |-> <<q2[1].val, strings.val>>]
    BY <2>1, <2>2 DEF q3, Then
  <2>4. QED
    BY <1>5, <2>3 DEF Reads, Reader
<1>14. q4[1] = [at |-> report.at, val |-> <<q3[1].val, report.val>>] /\ report.at \in Nat
  <2>1. BytesReader(in)[strings.at] = report
    BY <1>13 DEF BytesReader
  <2>2. q3[1].at = strings.at
    BY <1>13
  <2> HIDE DEF strings, report
  <2>3. q4[1] = [at |-> report.at, val |-> <<q3[1].val, report.val>>]
    BY <2>1, <2>2 DEF q4, Then
  <2>4. QED
    BY <1>6, <2>3 DEF Reads, Reader
<1>15. q5[1] = [at |-> bos.at, val |-> <<q4[1].val, bos.val>>]
  <2>1. BosReader(in)[report.at] = bos
    BY <1>14 DEF BosReader
  <2>2. q4[1].at = report.at
    BY <1>14
  <2> HIDE DEF report, bos
  <2>3. QED
    BY <2>1, <2>2 DEF q5, Then
<1>16. LoadTree(in) = IF bos.at = 0 THEN <<>>
                      ELSE <<[dd |-> dd.val, config |-> config.val, strings |-> strings.val,
                              report |-> report.val, bos |-> bos.val]>>
  BY DEF LoadTree
<1> HIDE DEF dd, config, strings, report, bos
<1>17. ASSUME Len(n5) <= Len(in) PROVE LoadTree(in) = <<t>>
  <2>1. q5[1].at = 1 + Len(n5) /\ q5[1].val = v5
    BY <1>9, <1>10, <1>17 DEF Follows
  <2>2. bos.at # 0
    <3>1. PICK m \in Nat : m = Len(n5)
      BY <1>9, LenProperties
    <3>2. bos.at = 1 + m
      BY <1>15, <2>1, <3>1
    <3>3. QED
      BY <3>2
  <2>3. q4[1].val = v4 /\ bos.val = t.bos
    BY <1>15, <2>1 DEF v5
  <2>4. q3[1].val = v3 /\ report.val = t.report
    BY <1>14, <2>3 DEF v4
  <2>5. q2[1].val = v2 /\ strings.val = t.strings
    BY <1>13, <2>4 DEF v3
  <2>6. dd.val = t.dd /\ config.val = t.config
    BY <1>12, <2>5 DEF v2
  <2>7. t = [dd |-> t.dd, config |-> t.config, strings |-> t.strings, report |-> t.report,
             bos |-> t.bos]
    BY DEF WellFormed
  <2>8. QED
    BY <1>16, <2>2, <2>3, <2>4, <2>5, <2>6, <2>7
<1>18. ASSUME ~(Len(n5) <= Len(in)) PROVE LoadTree(in) = <<>>
  <2>1. q5[1].at = 0
    BY <1>9, <1>10, <1>18 DEF Follows
  <2>2. QED
    BY <1>15, <1>16, <2>1
<1>19. QED
  BY <1>8, <1>9, <1>17, <1>18

\* What load makes of the first numbers of a saved tree.
LEMMA SavedPrefix ==
    ASSUME NEW t, WellFormed(t), NEW k \in 0 .. Len(SaveTree(t))
    PROVE  /\ SaveTree(t) \in Seq(Nat)
           /\ LoadTree(SubSeq(SaveTree(t), 1, k)) =
                  IF k = Len(SaveTree(t)) THEN <<t>> ELSE <<>>
<1> DEFINE all == SaveTree(t)
           in == SubSeq(all, 1, k)
<1>1. all \in Seq(Nat)
  <2>1. <<>> \in Seq(Nat) /\ Len(<<>>) = 0
    OBVIOUS
  <2>2. Agree(<<>>, 1, all)
    <3>1. \A i \in 1 .. Len(all) : ~(1 + i - 1 <= Len(<<>>))
      BY <2>1
    <3>2. QED
      BY <3>1 DEF Agree
  <2>3. QED
    BY <2>1, <2>2, LoadReads
<1> HIDE DEF all
<1>2. PICK n \in Nat : n = Len(all)
  BY <1>1, LenProperties
<1>3. k \in 0 .. n /\ k \in Nat
  BY <1>2 DEF all
<1>4. in \in Seq(Nat) /\ Len(in) = k /\ \A i \in 1 .. k : in[i] = all[i]
  BY <1>1, <1>2, <1>3
<1> HIDE DEF in
<1>5. Agree(in, 1, all)
  <2>1. ASSUME NEW i \in 1 .. Len(all), 1 + i - 1 <= Len(in) PROVE in[1 + i - 1] = all[i]
    <3>1. i \in 1 .. n /\ 1 + i - 1 = i
      BY <1>2
    <3>2. i \in 1 .. k
      BY <1>3, <1>4, <2>1, <3>1
    <3>3. QED
      BY <1>4, <3>1, <3>2
  <2>2. QED
    BY <2>1 DEF Agree
<1>6. /\ Len(all) <= Len(in) => LoadTree(in) = <<t>>
      /\ ~(Len(all) <= Len(in)) => LoadTree(in) = <<>>
  BY <1>4, <1>5, LoadReads DEF all
<1>7. Len(all) <= Len(in) <=> k = Len(all)
  BY <1>2, <1>3, <1>4
<1>8. QED
  BY <1>1, <1>6, <1>7 DEF all, in

\* However much of the tree of a device gets into the file: tree::load gives the
\* tree back if it is all that tree::save writes, and throws if it is less.
THEOREM SavedTreeLoads ==
    ASSUME NEW d, IsDevice(d), NEW k \in 0 .. Len(SaveTree(Build(d)))
    PROVE  LoadTree(SubSeq(SaveTree(Build(d)), 1, k)) =
               IF k = Len(SaveTree(Build(d))) THEN <<Build(d)>> ELSE <<>>
<1>1. WellFormed(Build(d))
  BY BuildWellFormed
<1>2. QED
  BY <1>1, SavedPrefix

-----------------------------------------------------------------------------
(* A document makes the numbers that save makes of the tree it shows. *)

\* The parser writes the members in the order of the structs.
LEMMA JsonFields ==
    /\ JsonConfigFields = ConfigFields /\ JsonInterfaceFields = InterfaceFields
    /\ JsonEndpointFields = EndpointFields /\ JsonBosFields = BosFields
    /\ JsonCapFields = CapFields
  BY DEF JsonConfigFields, ConfigFields, JsonInterfaceFields, InterfaceFields,
         JsonEndpointFields, EndpointFields, JsonBosFields, BosFields, JsonCapFields, CapFields

\* read_u32 gives 0 for a key that is left out.
LEMMA ReadWithout ==
    ASSUME NEW obj, NEW kind, NEW o, NEW f \in DOMAIN obj
    PROVE  ReadU32(Without(obj, kind, o), f) = IF <<kind, f>> \in o THEN 0 ELSE obj[f]
  BY DEF ReadU32, Without, Restrict

\* A struct of which keys are left out is the struct with 0 for them.
LEMMA JsonStructShown ==
    ASSUME NEW fields, NEW s \in Structs(fields), NEW kind, NEW o
    PROVE  /\ Shown(s, kind, o) \in Structs(fields)
           /\ JsonStruct(Without(s, kind, o), fields) = StreamStruct(Shown(s, kind, o), fields)
<1> DEFINE z == Shown(s, kind, o)
           w == Without(s, kind, o)
<1>1. /\ s \in [Range(fields) -> Nat]
      /\ \A f \in Range(fields) : s[f] < IF f \in Words THEN WordLimit ELSE 256
  BY DEF Structs
<1>2. z = [f \in Range(fields) |-> IF <<kind, f>> \in o THEN 0 ELSE s[f]]
  BY <1>1 DEF Shown
<1>3. z \in Structs(fields)
  <2> HIDE DEF z
  <2>1. z \in [Range(fields) -> Nat] /\ \A f \in Range(fields) : z[f] = 0 \/ z[f] = s[f]
    BY <1>1, <1>2
  <2>2. QED
    BY <1>1, <2>1, Limit DEF Structs
<1>4. \A i \in DOMAIN fields : fields[i] \in Range(fields) /\ fields[i] \in DOMAIN s
  BY <1>1 DEF Range
<1>5. \A i \in DOMAIN fields : ReadU32(w, fields[i]) = z[fields[i]]
  BY <1>2, <1>4, ReadWithout
<1> HIDE DEF z, w
<1>6. JsonStruct(w, fields) = StreamStruct(z, fields)
  BY <1>5 DEF JsonStruct, StreamStruct
<1>7. QED
  BY <1>3, <1>6 DEF z, w

\* iSerial stands where iSerialNumber stands, and everything else is the same.
LEMMA JsonDevice ==
    ASSUME NEW dd \in Structs(DeviceFields), NEW o
    PROVE  /\ ShownDevice(dd, o) \in Structs(DeviceFields)
           /\ JsonStruct(DocDevice(dd, o), JsonDeviceFields)
                  = StreamStruct(ShownDevice(dd, o), DeviceFields)
<1> DEFINE full == [f \in (DOMAIN dd \ {"iSerialNumber"}) \cup {"iSerial"} |->
                        IF f = "iSerial" THEN dd["iSerialNumber"] ELSE dd[f]]
           doc == DocDevice(dd, o)
           z == ShownDevice(dd, o)
           key(f) == IF f = "iSerialNumber" THEN "iSerial" ELSE f
<1>1. DOMAIN JsonDeviceFields = 1 .. 14 /\ DOMAIN DeviceFields = 1 .. 14
  BY DEF JsonDeviceFields, DeviceFields
<1>2. JsonDeviceFields[13] = "iSerial" /\ DeviceFields[13] = "iSerialNumber"
  BY DEF JsonDeviceFields, DeviceFields
<1>3. ASSUME NEW i \in 1 .. 14, i # 13
      PROVE  /\ JsonDeviceFields[i] = DeviceFields[i]
             /\ DeviceFields[i] # "iSerial" /\ DeviceFields[i] # "iSerialNumber"
  <2>1. i \in {1, 2, 3, 4, 5, 6, 7, 8, 9, 10, 11, 12, 14}
    BY <1>3
  <2>2. QED
    BY <2>1 DEF JsonDeviceFields, DeviceFields
<1>4. /\ dd \in [Range(DeviceFields) -> Nat]
      /\ \A f \in Range(DeviceFields) : dd[f] < IF f \in Words THEN WordLimit ELSE 256
  BY DEF Structs
<1>5. z = [f \in Range(DeviceFields) |->
              IF <<"DeviceDescriptor", key(f)>> \in o THEN 0 ELSE dd[f]]
  BY <1>4 DEF ShownDevice
<1>6. z \in Structs(DeviceFields)
  <2> HIDE DEF key, z
  <2>1. /\ z \in [Range(DeviceFields) -> Nat]
        /\ \A f \in Range(DeviceFields) : z[f] = 0 \/ z[f] = dd[f]
    BY <1>4, <1>5
  <2>2. QED
    BY <1>4, <2>1, Limit DEF Structs
<1>7. doc = Without(full, "DeviceDescriptor", o)
  BY DEF DocDevice
<1>8. ASSUME NEW i \in 1 .. 14 PROVE ReadU32(doc, JsonDeviceFields[i]) = z[DeviceFields[i]]
  <2> DEFINE f == DeviceFields[i]
             g == JsonDeviceFields[i]
  <2>1. f \in Range(DeviceFields) /\ f \in DOMAIN dd
    BY <1>1, <1>4 DEF Range
  <2>2. g = key(f) /\ g \in DOMAIN full /\ full[g] = dd[f]
    <3>1. CASE i = 13
      BY <1>2, <3>1
    <3>2. CASE i # 13
      <4>1. g = f /\ f # "iSerial" /\ f # "iSerialNumber"
        BY <1>3, <3>2
      <4> HIDE DEF f, g
      <4>2. QED
        BY <2>1, <4>1
    <3>3. QED
      BY <3>1, <3>2
  <2> HIDE DEF f, g, full, key, doc, z
  <2>3. ReadU32(doc, g) = IF <<"DeviceDescriptor", g>> \in o THEN 0 ELSE full[g]
    <3>1. ReadU32(Without(full, "DeviceDescriptor", o), g)
              = IF <<"DeviceDescriptor", g>> \in o THEN 0 ELSE full[g]
      <4>1. g \in DOMAIN full
        BY <2>2
      <4>2. QED
        BY <4>1, ReadWithout
    <3>2. QED
      BY <1>7, <3>1, Zenon
  <2>4. z[f] = IF <<"DeviceDescriptor", key(f)>> \in o THEN 0 ELSE dd[f]
    BY <1>5, <2>1
  <2>5. ReadU32(doc, g) = z[f]
    BY <2>2, <2>3, <2>4, Zenon
  <2>6. QED
    BY <2>5 DEF f, g
<1> HIDE DEF doc, z
<1>9. JsonStruct(doc, JsonDeviceFields) = StreamStruct(z, DeviceFields)
  BY <1>1, <1>8 DEF JsonStruct, StreamStruct
<1>10. QED
  BY <1>6, <1>9 DEF doc, z

\* A word is the word of its two bytes.
LEMMA Halves ==
    ASSUME NEW l \in Bytes, NEW h \in Bytes
    PROVE  Word(l, h) \in Nat /\ Low(Word(l, h)) = l /\ High(Word(l, h)) = h /\ Low(l) = l
  BY DEF Bytes, Word, Low, High

\* A number of four bytes, put together and taken apart.
LEMMA Quarters ==
    ASSUME NEW a \in Bytes, NEW b \in Bytes, NEW c \in Bytes, NEW d \in Bytes, NEW v,
           v = Word(Word(a, b), 256 * Word(c, d))
    PROVE  /\ Low(v) = a /\ High(v) = b
           /\ High(v \div 256) = c /\ High(v \div 65536) = d
<1>1. v = a + 256 * b + 65536 * c + 16777216 * d /\ v \in Nat
  BY DEF Word, Bytes
<1>2. v % 256 = a /\ (v \div 256) % 256 = b
  BY <1>1 DEF Bytes
<1>3. v \div 256 = b + 256 * c + 65536 * d
  BY <1>1 DEF Bytes
<1>4. v \div 65536 = c + 256 * d
  BY <1>1 DEF Bytes
<1>5. (v \div 256) \div 256 = c + 256 * d /\ (v \div 65536) \div 256 = d
  BY <1>3, <1>4 DEF Bytes
<1>6. (c + 256 * d) % 256 = c /\ d % 256 = d
  BY DEF Bytes
<1>7. QED
  BY <1>2, <1>5, <1>6 DEF Low, High

\* The bytes of a sequence from the first ones on.
LEMMA HeadTail ==
    ASSUME NEW S, NEW s \in Seq(S), NEW n \in Nat, n <= Len(s)
    PROVE  s = SubSeq(s, 1, n) \o SubSeq(s, n + 1, Len(s))
<1>1. PICK m \in Nat : m = Len(s)
  BY LenProperties
<1>2. 1 \in 1 .. Len(s) + 1 /\ n \in 1 - 1 .. Len(s) /\ Len(s) \in n .. Len(s)
  BY <1>1
<1>3. SubSeq(s, 1, n) \o SubSeq(s, n + 1, Len(s)) = SubSeq(s, 1, Len(s))
  BY <1>2, ConcatAdjacentSubSeq
<1>4. QED
  BY <1>3, SubSeqFull

\* The first two of a sequence.
LEMMA FirstTwo ==
    ASSUME NEW S, NEW s \in Seq(S), 2 <= Len(s)
    PROVE  SubSeq(s, 1, 2) = <<s[1], s[2]>>
<1> DEFINE a == SubSeq(s, 1, 2)
<1>1. PICK m \in Nat : m = Len(s)
  BY LenProperties
<1>2. \A i \in 1 .. 2 : s[i] \in S
  BY <1>1, ElementOfSeq
<1>3. a \in Seq(S) /\ Len(a) = 2 /\ \A i \in 1 .. 2 : a[i] = s[i]
  BY <1>2, SubSeqProperties
<1> HIDE DEF a
<1>4. a[1] = s[1] /\ a[2] = s[2]
  BY <1>3
<1>5. a = <<s[1], s[2]>>
  BY <1>3, <1>4
<1>6. QED
  BY <1>5 DEF a

\* The first six of a sequence.
LEMMA FirstSix ==
    ASSUME NEW S, NEW s \in Seq(S), 6 <= Len(s)
    PROVE  SubSeq(s, 1, 6) = <<s[1], s[2], s[3], s[4], s[5], s[6]>>
<1> DEFINE a == SubSeq(s, 1, 6)
<1>1. PICK m \in Nat : m = Len(s)
  BY LenProperties
<1>2. \A i \in 1 .. 6 : s[i] \in S
  BY <1>1, ElementOfSeq
<1>3. a \in Seq(S) /\ Len(a) = 6 /\ \A i \in 1 .. 6 : a[i] = s[i]
  BY <1>2, SubSeqProperties
<1> HIDE DEF a
<1>4. a[1] = s[1] /\ a[2] = s[2] /\ a[3] = s[3] /\ a[4] = s[4] /\ a[5] = s[5] /\ a[6] = s[6]
  BY <1>3
<1>5. a = <<s[1], s[2], s[3], s[4], s[5], s[6]>>
  BY <1>3, <1>4
<1>6. QED
  BY <1>5 DEF a


\* A record of which keys are left out: what is left of one key.
LEMMA Left ==
    ASSUME NEW obj, NEW kind, NEW o, NEW f
    PROVE  /\ f \in DOMAIN Without(obj, kind, o) <=> f \in DOMAIN obj /\ <<kind, f>> \notin o
           /\ f \in DOMAIN obj /\ <<kind, f>> \notin o => Without(obj, kind, o)[f] = obj[f]
  BY DEF Without, Restrict

\* Extra bytes without a companion are written as they are, if at all.
LEMMA PlainExtra ==
    ASSUME NEW x \in Seq(Bytes), NEW kind, NEW o
    PROVE  /\ ShownExtra(x, kind, o) \in Seq(Bytes)
           /\ BuildExtra(DocExtra(x, kind, o)) = StreamBytes(ShownExtra(x, kind, o))
<1> DEFINE full == [daExtra |-> x]
           doc == DocExtra(x, kind, o)
<1>1. DOMAIN full = {"daExtra"} /\ full["daExtra"] = x
  OBVIOUS
<1>2. doc = Without(full, kind, o)
  BY DEF DocExtra
<1> HIDE DEF full, doc
<1>3. /\ "companion" \notin DOMAIN doc
      /\ "daExtra" \in DOMAIN doc <=> <<kind, "daExtra">> \notin o
      /\ "daExtra" \in DOMAIN doc => doc["daExtra"] = x
  <2>1. "companion" \in DOMAIN doc => "companion" \in DOMAIN full
    BY <1>2, Left, Zenon
  <2>2. "daExtra" \in DOMAIN full
    BY <1>1
  <2>3. /\ "daExtra" \in DOMAIN doc <=> <<kind, "daExtra">> \notin o
        /\ "daExtra" \in DOMAIN doc => doc["daExtra"] = full["daExtra"]
    BY <1>2, <2>2, Left, Zenon
  <2>4. QED
    BY <1>1, <2>1, <2>3
<1>4. BuildExtra(doc) = StreamBytes(IF <<kind, "daExtra">> \in o THEN <<>> ELSE x)
  BY <1>3 DEF BuildExtra
<1>5. QED
  BY <1>4 DEF ShownExtra, doc

\* Zeros are bytes.
LEMMA ShownBytesType ==
    ASSUME NEW bytes \in Seq(Bytes), NEW kind, NEW keys, NEW o
    PROVE  /\ ShownBytes(bytes, kind, keys, o) \in Seq(Bytes)
           /\ Len(ShownBytes(bytes, kind, keys, o)) = Len(bytes)
<1> DEFINE z == ShownBytes(bytes, kind, keys, o)
<1>1. PICK n \in Nat : n = Len(bytes)
  BY LenProperties
<1>2. DOMAIN bytes = 1 .. n /\ \A i \in 1 .. n : bytes[i] \in Bytes
  BY <1>1, ElementOfSeq
<1>3. z = [i \in 1 .. n |-> IF <<kind, keys[i]>> \in o THEN 0 ELSE bytes[i]]
  BY <1>2 DEF ShownBytes
<1>4. z \in [1 .. n -> Bytes]
  BY <1>2, <1>3 DEF Bytes
<1>5. z \in Seq(Bytes) /\ Len(z) = n
  <2> HIDE DEF z
  <2>1. QED
    BY <1>4, ListOf
<1>6. QED
  BY <1>1, <1>5

\* An endpoint companion is written as its bytes, with 0 for what is left out.
LEMMA CompanionShown ==
    ASSUME NEW x \in Seq(Bytes), Len(x) >= 6, NEW o
    PROVE  LET six == ShownBytes(SubSeq(x, 1, 6), "EndpointCompanion", CompanionKeys, o)
           IN  /\ six \in Seq(Bytes) /\ Len(six) = 6
               /\ Companion(Without([bLength |-> x[1], bDescriptorType |-> x[2],
                                     bMaxBurst |-> x[3], bmAttributes |-> x[4],
                                     wBytesPerInterval |-> Word(x[5], x[6])],
                                    "EndpointCompanion", o)) = six
<1> DEFINE head == SubSeq(x, 1, 6)
           six == ShownBytes(head, "EndpointCompanion", CompanionKeys, o)
           full == [bLength |-> x[1], bDescriptorType |-> x[2], bMaxBurst |-> x[3],
                    bmAttributes |-> x[4], wBytesPerInterval |-> Word(x[5], x[6])]
           ec == Without(full, "EndpointCompanion", o)
           Gone(k) == <<"EndpointCompanion", k>> \in o
           bytes == ReadU32(ec, "wBytesPerInterval")
<1>1. PICK n \in Nat : n = Len(x)
  BY LenProperties
<1>2. /\ x[1] \in Bytes /\ x[2] \in Bytes /\ x[3] \in Bytes
      /\ x[4] \in Bytes /\ x[5] \in Bytes /\ x[6] \in Bytes
  BY <1>1, ElementOfSeq
<1>3. head = <<x[1], x[2], x[3], x[4], x[5], x[6]>>
  BY <1>1, FirstSix
<1>4. head \in Seq(Bytes) /\ Len(head) = 6
  BY <1>2, <1>3
<1>5. /\ six \in Seq(Bytes) /\ Len(six) = 6
      /\ \A i \in 1 .. 6 : six[i] = IF <<"EndpointCompanion", CompanionKeys[i]>> \in o THEN 0
                                    ELSE head[i]
  <2> HIDE DEF head
  <2>1. six \in Seq(Bytes) /\ Len(six) = Len(head)
    BY <1>4, ShownBytesType
  <2>2. ASSUME NEW i \in 1 .. 6
        PROVE  six[i] = IF <<"EndpointCompanion", CompanionKeys[i]>> \in o THEN 0 ELSE head[i]
    <3>1. i \in DOMAIN head
      BY <1>4
    <3>2. QED
      BY <3>1 DEF ShownBytes
  <2> HIDE DEF six
  <2>3. QED
    BY <1>4, <2>1, <2>2
<1>6. /\ six[1] = IF Gone("bLength") THEN 0 ELSE x[1]
      /\ six[2] = IF Gone("bDescriptorType") THEN 0 ELSE x[2]
      /\ six[3] = IF Gone("bMaxBurst") THEN 0 ELSE x[3]
      /\ six[4] = IF Gone("bmAttributes") THEN 0 ELSE x[4]
      /\ six[5] = IF Gone("wBytesPerInterval") THEN 0 ELSE x[5]
      /\ six[6] = IF Gone("wBytesPerInterval") THEN 0 ELSE x[6]
  <2> HIDE DEF six, head
  <2>1. /\ CompanionKeys[1] = "bLength" /\ CompanionKeys[2] = "bDescriptorType"
        /\ CompanionKeys[3] = "bMaxBurst" /\ CompanionKeys[4] = "bmAttributes"
        /\ CompanionKeys[5] = "wBytesPerInterval" /\ CompanionKeys[6] = "wBytesPerInterval"
    BY DEF CompanionKeys
  <2>2. /\ head[1] = x[1] /\ head[2] = x[2] /\ head[3] = x[3]
        /\ head[4] = x[4] /\ head[5] = x[5] /\ head[6] = x[6]
    BY <1>3
  <2>3. /\ 1 \in 1 .. 6 /\ 2 \in 1 .. 6 /\ 3 \in 1 .. 6
        /\ 4 \in 1 .. 6 /\ 5 \in 1 .. 6 /\ 6 \in 1 .. 6
    OBVIOUS
  <2>4. QED
    BY <1>5, <2>1, <2>2, <2>3, Zenon
<1>7. /\ ReadU32(ec, "bLength") = IF Gone("bLength") THEN 0 ELSE x[1]
      /\ ReadU32(ec, "bDescriptorType") = IF Gone("bDescriptorType") THEN 0 ELSE x[2]
      /\ ReadU32(ec, "bMaxBurst") = IF Gone("bMaxBurst") THEN 0 ELSE x[3]
      /\ ReadU32(ec, "bmAttributes") = IF Gone("bmAttributes") THEN 0 ELSE x[4]
      /\ bytes = IF Gone("wBytesPerInterval") THEN 0 ELSE Word(x[5], x[6])
  <2>1. /\ "bLength" \in DOMAIN full /\ full["bLength"] = x[1]
        /\ "bDescriptorType" \in DOMAIN full /\ full["bDescriptorType"] = x[2]
        /\ "bMaxBurst" \in DOMAIN full /\ full["bMaxBurst"] = x[3]
        /\ "bmAttributes" \in DOMAIN full /\ full["bmAttributes"] = x[4]
        /\ "wBytesPerInterval" \in DOMAIN full
        /\ full["wBytesPerInterval"] = Word(x[5], x[6])
    OBVIOUS
  <2> HIDE DEF full
  <2>2. QED
    BY <2>1, ReadWithout
<1>8. Low(bytes) = six[5] /\ High(bytes) = six[6]
  <2>1. Low(0) = 0 /\ High(0) = 0
    BY DEF Low, High
  <2>2. Low(Word(x[5], x[6])) = x[5] /\ High(Word(x[5], x[6])) = x[6]
    BY <1>2, Halves
  <2> HIDE DEF six, ec, full, Gone, bytes
  <2>3. QED
    BY <1>6, <1>7, <2>1, <2>2
<1>9. Companion(ec) = <<six[1], six[2], six[3], six[4], six[5], six[6]>>
  <2>1. Companion(ec) = <<ReadU32(ec, "bLength"), ReadU32(ec, "bDescriptorType"),
                          ReadU32(ec, "bMaxBurst"), ReadU32(ec, "bmAttributes"),
                          Low(bytes), High(bytes)>>
    BY DEF Companion
  <2> HIDE DEF six, ec, full, Gone, bytes
  <2>2. QED
    BY <1>6, <1>7, <1>8, <2>1
<1>10. six = <<six[1], six[2], six[3], six[4], six[5], six[6]>>
  <2> HIDE DEF six
  <2>1. QED
    BY <1>5
<1>11. Companion(ec) = six
  <2> HIDE DEF six, ec
  <2>1. QED
    BY <1>9, <1>10
<1>12. QED
  BY <1>5, <1>11

\* Extra bytes of an endpoint are written as they are shown, a companion
\* spelled out or not.
LEMMA JsonExtra ==
    ASSUME NEW x \in Seq(Bytes), NEW o
    PROVE  /\ ShownEndpointExtra(x, o) \in Seq(Bytes)
           /\ BuildExtra(DocEndpointExtra(x, o)) = StreamBytes(ShownEndpointExtra(x, o))
<1>1. PICK n \in Nat : n = Len(x)
  BY LenProperties
<1>2. CASE n < 6
  BY <1>1, <1>2, PlainExtra DEF DocEndpointExtra, ShownEndpointExtra
<1>3. CASE ~(n < 6)
  <2> DEFINE six == ShownBytes(SubSeq(x, 1, 6), "EndpointCompanion", CompanionKeys, o)
             ec == Without([bLength |-> x[1], bDescriptorType |-> x[2], bMaxBurst |-> x[3],
                            bmAttributes |-> x[4], wBytesPerInterval |-> Word(x[5], x[6])],
                           "EndpointCompanion", o)
             tail == SubSeq(x, 7, Len(x))
             full == [companion |-> ec, daExtra |-> tail]
             doc == DocEndpointExtra(x, o)
             rest == ShownExtra(tail, "Endpoint", o)
             extra == IF "daExtra" \in DOMAIN doc THEN doc["daExtra"] ELSE <<>>
  <2>1. six \in Seq(Bytes) /\ Len(six) = 6 /\ Companion(ec) = six
    BY <1>1, <1>3, CompanionShown
  <2>2. tail \in Seq(Bytes)
    BY <1>1, <1>3
  <2> HIDE DEF six, ec, tail
  <2>3. rest \in Seq(Bytes)
    BY <2>2, PlainExtra
  <2>4. /\ DOMAIN full = {"companion", "daExtra"}
        /\ full["companion"] = ec /\ full["daExtra"] = tail
    OBVIOUS
  <2>5. doc = Without(full, "Endpoint", o)
    BY <1>1, <1>3 DEF DocEndpointExtra, ec, tail
  <2>6. ShownEndpointExtra(x, o)
            = (IF <<"Endpoint", "companion">> \in o THEN <<>> ELSE six) \o rest
    BY <1>1, <1>3 DEF ShownEndpointExtra, six, tail
  <2> HIDE DEF full, doc
  <2>7. /\ "companion" \in DOMAIN doc <=> <<"Endpoint", "companion">> \notin o
        /\ "companion" \in DOMAIN doc => doc["companion"] = ec
        /\ "daExtra" \in DOMAIN doc <=> <<"Endpoint", "daExtra">> \notin o
        /\ "daExtra" \in DOMAIN doc => doc["daExtra"] = tail
    BY <2>4, <2>5, Left
  <2>8. extra = rest
    BY <2>7 DEF ShownExtra
  <2>9. BuildExtra(doc) = IF "companion" \in DOMAIN doc
                          THEN <<6 + Len(extra)>> \o (Companion(doc["companion"]) \o extra)
                          ELSE StreamBytes(extra)
    BY DEF BuildExtra
  <2> HIDE DEF rest, extra
  <2>10. CASE <<"Endpoint", "companion">> \in o
    <3>1. ShownEndpointExtra(x, o) = rest
      BY <2>3, <2>6, <2>10, ConcatEmptySeq
    <3>2. BuildExtra(doc) = StreamBytes(rest)
      BY <2>7, <2>8, <2>9, <2>10
    <3>3. QED
      BY <2>3, <3>1, <3>2 DEF doc
  <2>11. CASE <<"Endpoint", "companion">> \notin o
    <3>1. ShownEndpointExtra(x, o) = six \o rest
      BY <2>6, <2>11
    <3>2. six \o rest \in Seq(Bytes) /\ Len(six \o rest) = 6 + Len(rest)
      <4>1. /\ six \o rest \in Seq(Bytes)
            /\ Len(six \o rest) = Len(six) + Len(rest)
        BY <2>1, <2>3, ConcatProperties, Zenon
      <4>2. QED
        BY <2>1, <4>1
    <3>3. BuildExtra(doc) = <<6 + Len(rest)>> \o (six \o rest)
      BY <2>1, <2>7, <2>8, <2>9, <2>11
    <3>4. QED
      BY <3>1, <3>2, <3>3 DEF StreamBytes, doc
  <2>12. QED
    BY <2>10, <2>11
<1>4. QED
  BY <1>1, <1>2, <1>3

\* A text is written as its characters with a zero behind each.
LEMMA Utf16 ==
    ASSUME NEW s \in Seq(Bytes), NEW n \in Nat, Len(s) = 2 * n + 2,
           \A i \in 1 .. n : s[2 * i + 2] = 0
    PROVE  FlattenSeq([i \in 1 .. n |-> <<s[2 * i + 1], 0>>]) = SubSeq(s, 3, Len(s))
<1> DEFINE E == [i \in 1 .. n |-> <<s[2 * i + 1], 0>>]
           g == [i \in 0 .. n |-> SubSeq(s, 3, 2 * i + 2)]
<1>1. \A i \in 1 .. n : s[2 * i + 1] \in Bytes
  <2> TAKE i \in 1 .. n
  <2>1. 2 * i + 1 \in 1 .. 2 * n + 2
    OBVIOUS
  <2>2. QED
    BY <2>1, ElementOfSeq
<1>2. E \in Seq(Seq(Bytes)) /\ Len(E) = n
  <2>1. 0 \in Bytes
    BY DEF Bytes
  <2>2. E \in [1 .. n -> Seq(Bytes)]
    BY <1>1, <2>1
  <2> HIDE DEF E
  <2>3. QED
    BY <2>2, ListOf
<1>3. g[0] = <<>> /\ g[n] = SubSeq(s, 3, Len(s))
  OBVIOUS
<1>4. ASSUME NEW i \in 1 .. n PROVE g[i] = g[i - 1] \o E[i]
  <2>1. /\ g[i] = SubSeq(s, 3, 2 * i + 2) /\ g[i - 1] = SubSeq(s, 3, 2 * i)
        /\ E[i] = <<s[2 * i + 1], s[2 * i + 2]>>
    <3>1. i \in 0 .. n /\ i - 1 \in 0 .. n /\ 2 * (i - 1) + 2 = 2 * i
      OBVIOUS
    <3>2. E[i] = <<s[2 * i + 1], 0>> /\ s[2 * i + 2] = 0
      OBVIOUS
    <3>3. QED
      BY <3>1, <3>2
  <2>2. PICK k \in Nat : k = 2 * i
    OBVIOUS
  <2>3. k >= 2 /\ k + 2 <= Len(s)
    BY <2>2
  <2>4. SubSeq(s, 3, k + 2) = SubSeq(s, 3, k) \o <<s[k + 1], s[k + 2]>>
    BY <2>3
  <2> HIDE DEF g, E
  <2>5. QED
    BY <2>1, <2>2, <2>4
<1> HIDE DEF E, g
<1>5. FlattenSeq(E) = g[Len(E)]
  BY <1>2, <1>3, <1>4, FlattenUnique
<1>6. QED
  BY <1>2, <1>3, <1>5 DEF E

\* Where the first three numbers of a string come from.
LEMMA JoinHead ==
    ASSUME NEW a \in Nat, NEW b \in Nat, NEW rest \in Seq(Nat)
    PROVE  <<a, a, b>> \o rest = <<a>> \o (<<a, b>> \o rest)
  BY SMTT(30)

\* The numbers of a string, as a text or as a list.
LEMMA JsonStringParts ==
    ASSUME NEW s \in Seq(Bytes), Len(s) >= 2, NEW o
    PROVE  LET length == IF <<"StringDescriptor", "bLength">> \in o THEN 0 ELSE s[1]
               type == IF <<"StringDescriptor", "bDescriptorType">> \in o THEN 0 ELSE s[2]
           IN  JsonString(DocString(s, o)) = <<length, length, type>> \o SubSeq(s, 3, Len(s))
<1>1. PICK m \in Nat : m = Len(s)
  BY LenProperties
<1> DEFINE rest == SubSeq(s, 3, Len(s))
           doc == DocString(s, o)
           n == (m - 2) \div 2
           plain == m % 2 = 0 /\ \A i \in 1 .. n : s[2 * i + 2] = 0
           full == [bLength |-> s[1], bDescriptorType |-> s[2]]
           head == Without(full, "StringDescriptor", o)
           length == IF <<"StringDescriptor", "bLength">> \in o THEN 0 ELSE s[1]
           type == IF <<"StringDescriptor", "bDescriptorType">> \in o THEN 0 ELSE s[2]
<1>2. ReadU32(head, "bLength") = length /\ ReadU32(head, "bDescriptorType") = type
  <2>1. /\ "bLength" \in DOMAIN full /\ full["bLength"] = s[1]
        /\ "bDescriptorType" \in DOMAIN full /\ full["bDescriptorType"] = s[2]
    OBVIOUS
  <2> HIDE DEF full
  <2>2. QED
    BY <2>1, ReadWithout
<1>3. CASE plain
  <2> DEFINE text == [i \in 1 .. n |-> s[2 * i + 1]]
  <2>1. doc = [head |-> head, text |-> text]
    BY <1>1, <1>3 DEF DocString
  <2>2. n \in Nat /\ m = 2 * n + 2
    BY <1>1, <1>3
  <2> HIDE DEF n
  <2>3. FlattenSeq([i \in 1 .. n |-> <<s[2 * i + 1], 0>>]) = rest
    BY <1>1, <1>3, <2>2, Utf16
  <2>4. [i \in DOMAIN text |-> <<text[i], 0>>] = [i \in 1 .. n |-> <<s[2 * i + 1], 0>>]
    OBVIOUS
  <2>5. Each(text, LAMBDA c : <<c, 0>>) = rest
    BY <2>3, <2>4 DEF Each
  <2> HIDE DEF text, rest, doc, head, length, type
  <2>6. "text" \in DOMAIN doc /\ doc.head = head /\ doc.text = text
    BY <2>1
  <2>7. JsonString(doc) = <<length, length, type>> \o rest
    BY <1>2, <2>5, <2>6 DEF JsonString
  <2>8. QED
    BY <2>7 DEF doc, length, type, rest
<1>4. CASE ~plain
  <2>1. doc = [head |-> head, array |-> rest]
    BY <1>1, <1>4 DEF DocString
  <2> HIDE DEF rest, doc, head, length, type
  <2>2. ~("text" \in DOMAIN doc) /\ doc.head = head /\ doc.array = rest
    BY <2>1
  <2>3. JsonString(doc) = <<length, length, type>> \o rest
    BY <1>2, <2>2 DEF JsonString
  <2>4. QED
    BY <2>3 DEF doc, length, type, rest
<1>5. QED
  BY <1>3, <1>4

\* The bytes of a string behind its type, and the zero for a type left out.
LEMMA ShownStringFacts ==
    ASSUME NEW s \in Seq(Bytes), Len(s) >= 2, NEW o
    PROVE  LET z == ShownString(s, o)
           IN  /\ z \in Seq(Bytes) /\ Len(z) = Len(s)
               /\ z = <<s[1], IF <<"StringDescriptor", "bDescriptorType">> \in o
                              THEN 0 ELSE s[2]>> \o SubSeq(s, 3, Len(s))
<1>1. PICK m \in Nat : m = Len(s)
  BY LenProperties
<1> DEFINE z == ShownString(s, o)
           rest == SubSeq(s, 3, Len(s))
           gone == <<"StringDescriptor", "bDescriptorType">> \in o
           type == IF gone THEN 0 ELSE s[2]
           head == <<s[1], type>>
<1>2. s[1] \in Bytes /\ s[2] \in Bytes /\ 0 \in Bytes /\ type \in Bytes
  BY <1>1, ElementOfSeq DEF Bytes
<1>3. z \in Seq(Bytes) /\ Len(z) = m /\ \A i \in 1 .. m : z[i] = IF i = 2 THEN type ELSE s[i]
  <2>1. CASE gone
    <3>1. z = [s EXCEPT ![2] = 0]
      BY <2>1 DEF ShownString
    <3> HIDE DEF z
    <3>2. QED
      BY <1>1, <1>2, <2>1, <3>1
  <2>2. CASE ~gone
    <3>1. z = s
      BY <2>2 DEF ShownString
    <3>2. QED
      BY <1>1, <2>2, <3>1
  <2>3. QED
    BY <2>1, <2>2
<1>4. head \in Seq(Bytes) /\ Len(head) = 2 /\ head[1] = s[1] /\ head[2] = type
  <2> HIDE DEF type
  <2>1. QED
    BY <1>2
<1>5. rest \in Seq(Bytes) /\ Len(rest) = m - 2 /\ \A i \in 1 .. m - 2 : rest[i] = s[i + 2]
  BY <1>1
<1> HIDE DEF z, rest, head, type
<1>6. /\ head \o rest \in Seq(Bytes) /\ Len(head \o rest) = m
      /\ \A i \in 1 .. m : (head \o rest)[i] = IF i <= 2 THEN head[i] ELSE rest[i - 2]
  <2>1. /\ head \o rest \in Seq(Bytes) /\ Len(head \o rest) = Len(head) + Len(rest)
        /\ \A i \in 1 .. Len(head) + Len(rest) :
               (head \o rest)[i] = IF i <= Len(head) THEN head[i] ELSE rest[i - Len(head)]
    <3>1. head \in Seq(Bytes) /\ rest \in Seq(Bytes)
      BY <1>4, <1>5
    <3>2. QED
      BY <3>1, ConcatProperties
  <2>2. QED
    BY <1>1, <1>4, <1>5, <2>1
<1>7. \A i \in 1 .. m : (head \o rest)[i] = z[i]
  <2> TAKE i \in 1 .. m
  <2>1. CASE i = 1
    BY <1>3, <1>4, <1>6, <2>1
  <2>2. CASE i = 2
    BY <1>3, <1>4, <1>6, <2>2
  <2>3. CASE i > 2
    <3>1. rest[i - 2] = s[i]
      BY <1>1, <1>5, <2>3
    <3>2. (head \o rest)[i] = rest[i - 2]
      <4>1. ~(i <= 2)
        BY <2>3
      <4>2. QED
        BY <1>6, <4>1
    <3>3. z[i] = s[i]
      <4>1. i # 2
        BY <2>3
      <4>2. QED
        BY <1>3, <4>1
    <3>4. QED
      BY <3>1, <3>2, <3>3
  <2>4. i = 1 \/ i = 2 \/ i > 2
    BY <1>1
  <2>5. QED
    BY <2>1, <2>2, <2>3, <2>4
<1>8. z = head \o rest
  BY <1>3, <1>6, <1>7, SeqEqual
<1>9. QED
  BY <1>1, <1>3, <1>8 DEF z, rest, head, type

\* A string is written as the bytes it shows, if it is as long as it says.
LEMMA JsonStringWhole ==
    ASSUME NEW s \in Seq(Bytes), Len(s) >= 2, s[1] = Len(s), NEW o,
           <<"StringDescriptor", "bLength">> \notin o
    PROVE  JsonString(DocString(s, o)) = StreamBytes(ShownString(s, o))
<1> DEFINE type == IF <<"StringDescriptor", "bDescriptorType">> \in o THEN 0 ELSE s[2]
           rest == SubSeq(s, 3, Len(s))
           z == ShownString(s, o)
<1>1. PICK m \in Nat : m = Len(s)
  BY LenProperties
<1>2. JsonString(DocString(s, o)) = <<s[1], s[1], type>> \o rest
  BY JsonStringParts
<1>3. z \in Seq(Bytes) /\ Len(z) = Len(s) /\ z = <<s[1], type>> \o rest
  BY ShownStringFacts
<1>4. rest \in Seq(Nat) /\ s[1] \in Nat /\ type \in Nat
  <2>1. s \in Seq(Nat)
    BY BytesAreNumbers
  <2>2. s[1] \in Nat /\ s[2] \in Nat
    BY <1>1, <2>1, ElementOfSeq
  <2>3. QED
    BY <1>1, <2>1, <2>2
<1> HIDE DEF type, rest, z
<1>5. <<s[1], s[1], type>> \o rest = <<s[1]>> \o (<<s[1], type>> \o rest)
  BY <1>4, JoinHead
<1>6. StreamBytes(z) = <<s[1]>> \o z
  BY <1>3 DEF StreamBytes
<1>7. QED
  BY <1>2, <1>3, <1>5, <1>6 DEF z

\* The data of a USB 2.0 extension, with its length.
LEMMA FourBytes ==
    ASSUME NEW d \in Seq(Bytes), Len(d) = 4
    PROVE  <<Len(d)>> \o d = <<4, d[1], d[2], d[3], d[4]>>
<1> DEFINE x == <<Len(d)>>
           z == x \o d
<1>1. d \in Seq(Nat)
  BY BytesAreNumbers
<1>2. x \in Seq(Nat) /\ Len(x) = 1 /\ x[1] = 4
  OBVIOUS
<1> HIDE DEF x
<1>3. /\ z \in Seq(Nat) /\ Len(z) = Len(x) + Len(d)
      /\ \A i \in 1 .. Len(x) + Len(d) : z[i] = IF i <= Len(x) THEN x[i] ELSE d[i - Len(x)]
  BY <1>1, <1>2, ConcatProperties
<1> HIDE DEF z
<1>4. /\ z \in Seq(Nat) /\ Len(z) = 5
      /\ \A i \in 1 .. 5 : z[i] = IF i <= 1 THEN x[i] ELSE d[i - 1]
  BY <1>2, <1>3
<1>5. z[1] = 4 /\ z[2] = d[1] /\ z[3] = d[2] /\ z[4] = d[3] /\ z[5] = d[4]
  BY <1>2, <1>4
<1>6. z = <<4, d[1], d[2], d[3], d[4]>>
  BY <1>4, <1>5
<1>7. QED
  BY <1>6 DEF x, z

\* The data of a SuperSpeed capability, with its length.
LEMMA SevenBytes ==
    ASSUME NEW d \in Seq(Bytes), Len(d) = 7
    PROVE  <<Len(d)>> \o d = <<7, d[1], d[2], d[3], d[4], d[5], d[6], d[7]>>
<1> DEFINE x == <<Len(d)>>
           z == x \o d
<1>1. d \in Seq(Nat)
  BY BytesAreNumbers
<1>2. x \in Seq(Nat) /\ Len(x) = 1 /\ x[1] = 7
  OBVIOUS
<1> HIDE DEF x
<1>3. /\ z \in Seq(Nat) /\ Len(z) = Len(x) + Len(d)
      /\ \A i \in 1 .. Len(x) + Len(d) : z[i] = IF i <= Len(x) THEN x[i] ELSE d[i - Len(x)]
  BY <1>1, <1>2, ConcatProperties
<1> HIDE DEF z
<1>4. /\ z \in Seq(Nat) /\ Len(z) = 8
      /\ \A i \in 1 .. 8 : z[i] = IF i <= 1 THEN x[i] ELSE d[i - 1]
  BY <1>2, <1>3
<1>5. /\ z[1] = 7 /\ z[2] = d[1] /\ z[3] = d[2] /\ z[4] = d[3]
      /\ z[5] = d[4] /\ z[6] = d[5] /\ z[7] = d[6] /\ z[8] = d[7]
  BY <1>2, <1>4
<1>6. z = <<7, d[1], d[2], d[3], d[4], d[5], d[6], d[7]>>
  BY <1>4, <1>5
<1>7. QED
  BY <1>6 DEF x, z

\* The bytes of a USB 2.0 extension, with 0 for what is left out.
LEMMA Usb2Shown ==
    ASSUME NEW d \in Seq(Bytes), Len(d) = 4, NEW o
    PROVE  LET z == ShownBytes(d, "usb2", Usb2Keys, o)
               v == ReadU32(Without([bmAttributes |->
                                         Word(Word(d[1], d[2]), 256 * Word(d[3], d[4]))],
                                    "usb2", o), "bmAttributes")
           IN  <<4, Low(v), High(v), High(v \div 256), High(v \div 65536)>> = StreamBytes(z)
<1> DEFINE z == ShownBytes(d, "usb2", Usb2Keys, o)
           w == Word(Word(d[1], d[2]), 256 * Word(d[3], d[4]))
           full == [bmAttributes |-> w]
           v == ReadU32(Without(full, "usb2", o), "bmAttributes")
           gone == <<"usb2", "bmAttributes">> \in o
<1>1. d[1] \in Bytes /\ d[2] \in Bytes /\ d[3] \in Bytes /\ d[4] \in Bytes
  BY ElementOfSeq
<1>2. z \in Seq(Bytes) /\ Len(z) = 4
  BY ShownBytesType
<1>3. \A i \in 1 .. 4 : z[i] = IF <<"usb2", Usb2Keys[i]>> \in o THEN 0 ELSE d[i]
  <2>1. DOMAIN d = 1 .. 4
    BY LenProperties
  <2>2. QED
    BY <2>1 DEF ShownBytes
<1>4. v = IF gone THEN 0 ELSE w
  <2>1. "bmAttributes" \in DOMAIN full /\ full["bmAttributes"] = w
    OBVIOUS
  <2> HIDE DEF full, w
  <2>2. QED
    BY <2>1, ReadWithout
<1>5. /\ z[1] = IF gone THEN 0 ELSE d[1]
      /\ z[2] = IF gone THEN 0 ELSE d[2]
      /\ z[3] = IF gone THEN 0 ELSE d[3]
      /\ z[4] = IF gone THEN 0 ELSE d[4]
  <2> HIDE DEF z
  <2>1. \A i \in 1 .. 4 : Usb2Keys[i] = "bmAttributes"
    BY DEF Usb2Keys
  <2>2. QED
    BY <1>3, <2>1
<1>6. /\ Low(v) = z[1] /\ High(v) = z[2]
      /\ High(v \div 256) = z[3] /\ High(v \div 65536) = z[4]
  <2>1. Low(0) = 0 /\ High(0) = 0 /\ High(0 \div 256) = 0 /\ High(0 \div 65536) = 0
    BY DEF Low, High
  <2>2. /\ Low(w) = d[1] /\ High(w) = d[2]
        /\ High(w \div 256) = d[3] /\ High(w \div 65536) = d[4]
    BY <1>1, Quarters
  <2> HIDE DEF z, w, v, gone
  <2>3. QED
    BY <1>4, <1>5, <2>1, <2>2
<1> HIDE DEF z, v, gone
<1>7. StreamBytes(z) = <<4, z[1], z[2], z[3], z[4]>>
  BY <1>2, FourBytes DEF StreamBytes
<1>8. <<4, Low(v), High(v), High(v \div 256), High(v \div 65536)>> = StreamBytes(z)
  BY <1>6, <1>7
<1>9. QED
  BY <1>8 DEF z, v

\* The same of a SuperSpeed capability.
LEMMA SsShown ==
    ASSUME NEW d \in Seq(Bytes), Len(d) = 7, NEW o
    PROVE  LET z == ShownBytes(d, "ss", SsKeys, o)
               ss(key) == ReadU32(Without([bmAttributes |-> d[1],
                                           wSpeedSupported |-> Word(d[2], d[3]),
                                           bFunctionalitySupport |-> d[4],
                                           bU1DevExitLat |-> d[5],
                                           bU2DevExitLat |-> Word(d[6], d[7])], "ss", o), key)
           IN  <<7, Low(ss("bmAttributes")), Low(ss("wSpeedSupported")),
                 High(ss("wSpeedSupported")), Low(ss("bFunctionalitySupport")),
                 Low(ss("bU1DevExitLat")), Low(ss("bU2DevExitLat")),
                 High(ss("bU2DevExitLat"))>> = StreamBytes(z)
<1> DEFINE z == ShownBytes(d, "ss", SsKeys, o)
           full == [bmAttributes |-> d[1], wSpeedSupported |-> Word(d[2], d[3]),
                    bFunctionalitySupport |-> d[4], bU1DevExitLat |-> d[5],
                    bU2DevExitLat |-> Word(d[6], d[7])]
           ss(key) == ReadU32(Without(full, "ss", o), key)
           Gone(key) == <<"ss", key>> \in o
<1>1. /\ d[1] \in Bytes /\ d[2] \in Bytes /\ d[3] \in Bytes /\ d[4] \in Bytes
      /\ d[5] \in Bytes /\ d[6] \in Bytes /\ d[7] \in Bytes
  <2>1. \A i \in 1 .. 7 : d[i] \in Bytes
    BY ElementOfSeq
  <2>2. QED
    BY <2>1
<1>2. z \in Seq(Bytes) /\ Len(z) = 7
  BY ShownBytesType
<1>3. \A i \in 1 .. 7 : z[i] = IF <<"ss", SsKeys[i]>> \in o THEN 0 ELSE d[i]
  <2>1. DOMAIN d = 1 .. 7
    BY LenProperties
  <2>2. QED
    BY <2>1 DEF ShownBytes
<1>4. /\ ss("bmAttributes") = IF Gone("bmAttributes") THEN 0 ELSE d[1]
      /\ ss("wSpeedSupported") = IF Gone("wSpeedSupported") THEN 0 ELSE Word(d[2], d[3])
      /\ ss("bFunctionalitySupport") = IF Gone("bFunctionalitySupport") THEN 0 ELSE d[4]
      /\ ss("bU1DevExitLat") = IF Gone("bU1DevExitLat") THEN 0 ELSE d[5]
      /\ ss("bU2DevExitLat") = IF Gone("bU2DevExitLat") THEN 0 ELSE Word(d[6], d[7])
  <2>1. /\ "bmAttributes" \in DOMAIN full /\ full["bmAttributes"] = d[1]
        /\ "wSpeedSupported" \in DOMAIN full /\ full["wSpeedSupported"] = Word(d[2], d[3])
        /\ "bFunctionalitySupport" \in DOMAIN full /\ full["bFunctionalitySupport"] = d[4]
        /\ "bU1DevExitLat" \in DOMAIN full /\ full["bU1DevExitLat"] = d[5]
        /\ "bU2DevExitLat" \in DOMAIN full /\ full["bU2DevExitLat"] = Word(d[6], d[7])
    OBVIOUS
  <2> HIDE DEF full
  <2>2. QED
    BY <2>1, ReadWithout
<1>5. /\ z[1] = IF Gone("bmAttributes") THEN 0 ELSE d[1]
      /\ z[2] = IF Gone("wSpeedSupported") THEN 0 ELSE d[2]
      /\ z[3] = IF Gone("wSpeedSupported") THEN 0 ELSE d[3]
      /\ z[4] = IF Gone("bFunctionalitySupport") THEN 0 ELSE d[4]
      /\ z[5] = IF Gone("bU1DevExitLat") THEN 0 ELSE d[5]
      /\ z[6] = IF Gone("bU2DevExitLat") THEN 0 ELSE d[6]
      /\ z[7] = IF Gone("bU2DevExitLat") THEN 0 ELSE d[7]
  <2> HIDE DEF z
  <2>1. /\ SsKeys[1] = "bmAttributes" /\ SsKeys[2] = "wSpeedSupported"
        /\ SsKeys[3] = "wSpeedSupported" /\ SsKeys[4] = "bFunctionalitySupport"
        /\ SsKeys[5] = "bU1DevExitLat" /\ SsKeys[6] = "bU2DevExitLat"
        /\ SsKeys[7] = "bU2DevExitLat"
    BY DEF SsKeys
  <2>2. /\ 1 \in 1 .. 7 /\ 2 \in 1 .. 7 /\ 3 \in 1 .. 7 /\ 4 \in 1 .. 7
        /\ 5 \in 1 .. 7 /\ 6 \in 1 .. 7 /\ 7 \in 1 .. 7
    OBVIOUS
  <2>3. QED
    BY <1>3, <2>1, <2>2, Zenon
<1>6. /\ Low(ss("bmAttributes")) = z[1] /\ Low(ss("wSpeedSupported")) = z[2]
      /\ High(ss("wSpeedSupported")) = z[3] /\ Low(ss("bFunctionalitySupport")) = z[4]
      /\ Low(ss("bU1DevExitLat")) = z[5] /\ Low(ss("bU2DevExitLat")) = z[6]
      /\ High(ss("bU2DevExitLat")) = z[7]
  <2>1. Low(0) = 0 /\ High(0) = 0
    BY DEF Low, High
  <2>2. /\ Low(Word(d[2], d[3])) = d[2] /\ High(Word(d[2], d[3])) = d[3]
        /\ Low(Word(d[6], d[7])) = d[6] /\ High(Word(d[6], d[7])) = d[7]
        /\ Low(d[1]) = d[1] /\ Low(d[4]) = d[4] /\ Low(d[5]) = d[5]
    BY <1>1, Halves
  <2> HIDE DEF z, ss, Gone
  <2>3. QED
    BY <1>4, <1>5, <2>1, <2>2
<1> HIDE DEF z, ss, Gone
<1>7. StreamBytes(z) = <<7, z[1], z[2], z[3], z[4], z[5], z[6], z[7]>>
  BY <1>2, SevenBytes DEF StreamBytes
<1>8. <<7, Low(ss("bmAttributes")), Low(ss("wSpeedSupported")), High(ss("wSpeedSupported")),
        Low(ss("bFunctionalitySupport")), Low(ss("bU1DevExitLat")),
        Low(ss("bU2DevExitLat")), High(ss("bU2DevExitLat"))>> = StreamBytes(z)
  BY <1>6, <1>7
<1>9. QED
  BY <1>8 DEF z, ss

\* What the parser writes behind the members of a capability.
CapTail(type, body) ==
    LET usb2 == ReadU32(body["usb2"], "bmAttributes")
        ss(key) == ReadU32(body["ss"], key)
    IN  IF type = 2 /\ "usb2" \in DOMAIN body
        THEN <<4, Low(usb2), High(usb2), High(usb2 \div 256), High(usb2 \div 65536)>>
        ELSE IF type = 3 /\ "ss" \in DOMAIN body
        THEN <<7, Low(ss("bmAttributes")), Low(ss("wSpeedSupported")),
               High(ss("wSpeedSupported")), Low(ss("bFunctionalitySupport")),
               Low(ss("bU1DevExitLat")), Low(ss("bU2DevExitLat")), High(ss("bU2DevExitLat"))>>
        ELSE IF "daDevCapability" \in DOMAIN body
        THEN StreamBytes(body["daDevCapability"])
        ELSE <<0>>

\* It is the data that the document shows, spelled out or not.
LEMMA CapTailShown ==
    ASSUME NEW c \in Caps, NEW o
    PROVE  LET doc == DocCap(c, o)
           IN  /\ ShownCapData(c, o) \in Seq(Bytes)
               /\ CapTail(ReadU32(doc.header, "bDevCapabilityType"), doc.body)
                      = StreamBytes(ShownCapData(c, o))
<1> DEFINE d == c.data
           form == CapForm(c)
           B == DocCapBody(c, o)
           full == [f \in {form} |-> B]
           body == Without(full, "DeviceCap", o)
           kind == c.header["bDevCapabilityType"]
           gone == <<"DeviceCap", form>> \in o
           typeless == <<"DeviceCap", "bDevCapabilityType">> \in o
           type == ReadU32(Without(c.header, "DeviceCap", o), "bDevCapabilityType")
           z == ShownCapData(c, o)
<1>1. d \in Seq(Bytes) /\ c.header \in Structs(CapFields)
  BY DEF Caps
<1>2. type = IF typeless THEN 0 ELSE kind
  <2>1. "bDevCapabilityType" \in DOMAIN c.header
    BY <1>1 DEF Structs, CapFields, Range
  <2>2. QED
    BY <2>1, ReadWithout
<1>3. DOMAIN full = {form} /\ full[form] = B
  OBVIOUS
<1>4. /\ \A f : f \in DOMAIN body <=> f = form /\ ~gone
      /\ ~gone => body[form] = B
  <2> HIDE DEF full, form, B
  <2>1. QED
    BY <1>3, Left, Zenon
<1>5. /\ form = "usb2" => kind = 2 /\ Len(d) = 4
      /\ form = "ss" => kind = 3 /\ Len(d) = 7
      /\ form \in {"usb2", "ss", "daDevCapability"}
  BY DEF CapForm
<1>6. /\ gone \/ (form # "daDevCapability" /\ typeless) => z = <<>>
      /\ ~gone /\ ~typeless /\ form = "usb2" => z = ShownBytes(d, "usb2", Usb2Keys, o)
      /\ ~gone /\ ~typeless /\ form = "ss" => z = ShownBytes(d, "ss", SsKeys, o)
      /\ ~gone /\ form = "daDevCapability" => z = d
  BY DEF ShownCapData
<1>7. StreamBytes(<<>>) = <<0>>
  BY DEF StreamBytes
<1> HIDE DEF full, body, gone, typeless, type, z, kind
<1>8. CASE gone
  <2>1. z = <<>>
    BY <1>6, <1>8
  <2>2. ~("usb2" \in DOMAIN body) /\ ~("ss" \in DOMAIN body)
        /\ ~("daDevCapability" \in DOMAIN body)
    BY <1>4, <1>8
  <2>3. CapTail(type, body) = <<0>>
    BY <2>2 DEF CapTail
  <2>4. QED
    BY <1>7, <2>1, <2>3 DEF DocCap, z, type, body, full
<1>9. CASE ~gone /\ form # "daDevCapability" /\ typeless
  <2>1. z = <<>> /\ type = 0
    BY <1>2, <1>6, <1>9
  <2>2. ~("daDevCapability" \in DOMAIN body)
    BY <1>4, <1>9
  <2>3. CapTail(type, body) = <<0>>
    BY <2>1, <2>2 DEF CapTail
  <2>4. QED
    BY <1>7, <2>1, <2>3 DEF DocCap, z, type, body, full
<1>10. CASE ~gone /\ form = "daDevCapability"
  <2>1. z = d
    BY <1>6, <1>10
  <2>2. /\ ~("usb2" \in DOMAIN body) /\ ~("ss" \in DOMAIN body)
        /\ "daDevCapability" \in DOMAIN body /\ body["daDevCapability"] = B
    BY <1>4, <1>10
  <2>3. B = d
    BY <1>10 DEF DocCapBody
  <2>4. CapTail(type, body) = StreamBytes(d)
    BY <2>2, <2>3 DEF CapTail
  <2>5. QED
    BY <1>1, <2>1, <2>4 DEF DocCap, z, type, body, full
<1>11. CASE ~gone /\ form = "usb2" /\ ~typeless
  <2> DEFINE w == Without([bmAttributes |-> Word(Word(d[1], d[2]), 256 * Word(d[3], d[4]))],
                          "usb2", o)
             v == ReadU32(w, "bmAttributes")
             y == ShownBytes(d, "usb2", Usb2Keys, o)
  <2>1. z = y /\ type = 2
    BY <1>2, <1>5, <1>6, <1>11
  <2>2. "usb2" \in DOMAIN body /\ body["usb2"] = B
    BY <1>4, <1>11
  <2>3. B = w
    BY <1>11 DEF DocCapBody
  <2>4. /\ y \in Seq(Bytes)
        /\ <<4, Low(v), High(v), High(v \div 256), High(v \div 65536)>> = StreamBytes(y)
    BY <1>1, <1>5, <1>11, Usb2Shown, ShownBytesType
  <2> HIDE DEF w, y
  <2>5. CapTail(type, body) = StreamBytes(y)
    BY <2>1, <2>2, <2>3, <2>4 DEF CapTail
  <2>6. QED
    BY <2>1, <2>4, <2>5 DEF DocCap, z, type, body, full
<1>12. CASE ~gone /\ form = "ss" /\ ~typeless
  <2> DEFINE w == Without([bmAttributes |-> d[1], wSpeedSupported |-> Word(d[2], d[3]),
                           bFunctionalitySupport |-> d[4], bU1DevExitLat |-> d[5],
                           bU2DevExitLat |-> Word(d[6], d[7])], "ss", o)
             ss(key) == ReadU32(w, key)
             y == ShownBytes(d, "ss", SsKeys, o)
             seven == <<7, Low(ss("bmAttributes")), Low(ss("wSpeedSupported")),
                        High(ss("wSpeedSupported")), Low(ss("bFunctionalitySupport")),
                        Low(ss("bU1DevExitLat")), Low(ss("bU2DevExitLat")),
                        High(ss("bU2DevExitLat"))>>
  <2>1. z = y /\ type = 3
    BY <1>2, <1>5, <1>6, <1>12
  <2>2. "ss" \in DOMAIN body /\ body["ss"] = B /\ ~("usb2" \in DOMAIN body)
    BY <1>4, <1>12
  <2>3. B = w
    BY <1>12 DEF DocCapBody
  <2>4. y \in Seq(Bytes) /\ seven = StreamBytes(y)
    BY <1>1, <1>5, <1>12, SsShown, ShownBytesType
  <2> HIDE DEF w, y
  <2>5. CapTail(type, body) = seven
    BY <2>1, <2>2, <2>3 DEF CapTail
  <2>6. QED
    BY <2>1, <2>4, <2>5 DEF DocCap, z, type, body, full
<1>13. QED
  BY <1>5, <1>8, <1>9, <1>10, <1>11, <1>12

\* A capability is the same whether its bytes are spelled out or not.
LEMMA JsonCapWhole ==
    ASSUME NEW c \in Caps, NEW o
    PROVE  ShownCap(c, o) \in Caps /\ JsonCap(DocCap(c, o)) = StreamCap(ShownCap(c, o))
<1> DEFINE doc == DocCap(c, o)
           data == ShownCapData(c, o)
           header == Shown(c.header, "DeviceCap", o)
           type == ReadU32(doc.header, "bDevCapabilityType")
<1>1. c.header \in Structs(CapFields)
  BY DEF Caps
<1>2. doc.header = Without(c.header, "DeviceCap", o)
  BY DEF DocCap
<1>3. header \in Structs(CapFields) /\ JsonStruct(doc.header, CapFields) = StreamStruct(header, CapFields)
  BY <1>1, <1>2, JsonStructShown
<1>4. data \in Seq(Bytes) /\ CapTail(type, doc.body) = StreamBytes(data)
  BY CapTailShown
<1>5. JsonCap(doc) = JsonStruct(doc.header, JsonCapFields) \o CapTail(type, doc.body)
  BY DEF JsonCap, CapTail
<1>6. ShownCap(c, o) = [header |-> header, data |-> data]
  BY DEF ShownCap
<1> HIDE DEF doc, data, header, type
<1>7. ShownCap(c, o) \in Caps
  BY <1>3, <1>4, <1>6 DEF Caps
<1>8. StreamCap(ShownCap(c, o)) = StreamStruct(header, CapFields) \o StreamBytes(data)
  BY <1>6 DEF StreamCap
<1>9. JsonCap(doc) = StreamCap(ShownCap(c, o))
  BY <1>3, <1>4, <1>5, <1>8, JsonFields
<1>10. QED
  BY <1>7, <1>9 DEF doc

\* The parser writes for an endpoint what save writes for the endpoint it shows.
LEMMA JsonEndpointWhole ==
    ASSUME NEW e \in Endpoints, NEW o
    PROVE  /\ ShownEndpoint(e, o) \in Endpoints
           /\ JsonEndpoint(e, o) = StreamEndpoint(ShownEndpoint(e, o))
<1> DEFINE header == Shown(e.header, "EndpointDescriptor", o)
           extra == ShownEndpointExtra(e.extra, o)
           z == ShownEndpoint(e, o)
<1>1. e.header \in Structs(EndpointFields) /\ e.extra \in Seq(Bytes)
  BY DEF Endpoints
<1>2. /\ header \in Structs(EndpointFields)
      /\ JsonStruct(Without(e.header, "EndpointDescriptor", o), EndpointFields)
             = StreamStruct(header, EndpointFields)
  BY <1>1, JsonStructShown
<1>3. extra \in Seq(Bytes) /\ BuildExtra(DocEndpointExtra(e.extra, o)) = StreamBytes(extra)
  BY <1>1, JsonExtra
<1>4. z = [header |-> header, extra |-> extra]
  BY DEF ShownEndpoint
<1> HIDE DEF header, extra, z
<1>5. z \in Endpoints
  BY <1>2, <1>3, <1>4 DEF Endpoints
<1>6. StreamEndpoint(z) = StreamStruct(header, EndpointFields) \o StreamBytes(extra)
  BY <1>4 DEF StreamEndpoint
<1>7. JsonEndpoint(e, o) = StreamEndpoint(z)
  BY <1>2, <1>3, <1>6, JsonFields DEF JsonEndpoint
<1>8. QED
  BY <1>5, <1>7 DEF z

\* A list whose elements are shown one by one.
LEMMA ShownList ==
    ASSUME NEW S, NEW f \in Seq(S), NEW T, NEW z, DOMAIN z = DOMAIN f,
           z = [i \in DOMAIN f |-> z[i]], \A i \in DOMAIN f : z[i] \in T
    PROVE  z \in Seq(T) /\ Len(z) = Len(f)
<1>1. PICK n \in Nat : n = Len(f) /\ DOMAIN f = 1 .. n
  BY LenProperties
<1>2. z \in [1 .. n -> T]
  BY <1>1
<1>3. QED
  BY <1>1, <1>2, ListOf

\* The same of an alternate setting.
LEMMA JsonInterfaceWhole ==
    ASSUME NEW a \in Alternates, NEW o
    PROVE  /\ ShownInterface(a, o) \in Alternates
           /\ JsonInterface(a, o) = StreamInterface(ShownInterface(a, o))
<1> DEFINE f == a.endpoints
           header == Shown(a.header, "InterfaceDescriptor", o)
           extra == ShownExtra(a.extra, "InterfaceDescriptor", o)
           eps == [i \in DOMAIN f |-> ShownEndpoint(f[i], o)]
           z == ShownInterface(a, o)
           doc == Without(a.header, "InterfaceDescriptor", o)
<1>1. a.header \in Structs(InterfaceFields) /\ a.extra \in Seq(Bytes) /\ f \in Seq(Endpoints)
  BY DEF Alternates
<1>2. \A i \in DOMAIN f : f[i] \in Endpoints
  BY <1>1
<1>3. \A i \in DOMAIN f : /\ ShownEndpoint(f[i], o) \in Endpoints
                          /\ JsonEndpoint(f[i], o) = StreamEndpoint(eps[i])
  BY <1>2, JsonEndpointWhole
<1>4. eps \in Seq(Endpoints) /\ Len(eps) = Len(f) /\ DOMAIN eps = DOMAIN f
  <2>1. /\ DOMAIN eps = DOMAIN f /\ eps = [i \in DOMAIN f |-> eps[i]]
        /\ \A i \in DOMAIN f : eps[i] \in Endpoints
    BY <1>3
  <2> HIDE DEF eps, f
  <2>2. QED
    BY <1>1, <2>1, ShownList
<1>5. StreamVector(f, LAMBDA e : JsonEndpoint(e, o)) = StreamVector(eps, StreamEndpoint)
  <2> HIDE DEF eps, f
  <2>1. [i \in DOMAIN f |-> JsonEndpoint(f[i], o)] = [i \in DOMAIN eps |-> StreamEndpoint(eps[i])]
    BY <1>3, <1>4
  <2>2. QED
    BY <1>4, <2>1 DEF StreamVector, Each
<1>6. /\ header \in Structs(InterfaceFields)
      /\ JsonStruct(doc, InterfaceFields) = StreamStruct(header, InterfaceFields)
  BY <1>1, JsonStructShown
<1>7. /\ extra \in Seq(Bytes)
      /\ BuildExtra(DocExtra(a.extra, "InterfaceDescriptor", o)) = StreamBytes(extra)
  BY <1>1, PlainExtra
<1>8. z = [header |-> header, extra |-> extra, endpoints |-> eps]
  BY DEF ShownInterface
<1>9. JsonInterface(a, o) = JsonStruct(doc, JsonInterfaceFields)
          \o StreamVector(f, LAMBDA e : JsonEndpoint(e, o))
          \o BuildExtra(DocExtra(a.extra, "InterfaceDescriptor", o))
  BY DEF JsonInterface
<1>10. JsonInterface(a, o) = StreamStruct(header, InterfaceFields)
           \o StreamVector(eps, StreamEndpoint) \o StreamBytes(extra)
  <2> DEFINE v == StreamVector(f, LAMBDA e : JsonEndpoint(e, o))
  <2>1. JsonInterface(a, o) = JsonStruct(doc, JsonInterfaceFields) \o v
            \o BuildExtra(DocExtra(a.extra, "InterfaceDescriptor", o))
    BY <1>9
  <2>2. v = StreamVector(eps, StreamEndpoint)
    BY <1>5
  <2> HIDE DEF v, header, extra, eps, doc
  <2>3. QED
    BY <1>6, <1>7, <2>1, <2>2, JsonFields
<1> HIDE DEF header, extra, eps, z
<1>11. z \in Alternates
  BY <1>4, <1>6, <1>7, <1>8 DEF Alternates
<1>12. StreamInterface(z) = StreamStruct(header, InterfaceFields)
           \o StreamVector(eps, StreamEndpoint) \o StreamBytes(extra)
  BY <1>8 DEF StreamInterface
<1>13. QED
  BY <1>10, <1>11, <1>12 DEF z

\* The same of all the alternate settings of an interface.
LEMMA JsonUsbInterfaceWhole ==
    ASSUME NEW g \in Seq(Alternates), NEW o
    PROVE  LET z == [a \in DOMAIN g |-> ShownInterface(g[a], o)]
           IN  /\ z \in Seq(Alternates)
               /\ StreamVector(g, LAMBDA alt : JsonInterface(alt, o))
                      = StreamVector(z, StreamInterface)
<1> DEFINE z == [a \in DOMAIN g |-> ShownInterface(g[a], o)]
<1>1. \A i \in DOMAIN g : g[i] \in Alternates
  OBVIOUS
<1>2. \A i \in DOMAIN g : /\ z[i] \in Alternates
                          /\ JsonInterface(g[i], o) = StreamInterface(z[i])
  BY <1>1, JsonInterfaceWhole
<1>3. DOMAIN z = DOMAIN g /\ z = [i \in DOMAIN g |-> z[i]]
  OBVIOUS
<1> HIDE DEF z
<1>4. z \in Seq(Alternates) /\ Len(z) = Len(g)
  BY <1>2, <1>3, ShownList
<1>5. [i \in DOMAIN g |-> JsonInterface(g[i], o)] = [i \in DOMAIN z |-> StreamInterface(z[i])]
  BY <1>2, <1>3
<1>6. StreamVector(g, LAMBDA alt : JsonInterface(alt, o)) = StreamVector(z, StreamInterface)
  BY <1>4, <1>5 DEF StreamVector, Each
<1>7. QED
  BY <1>4, <1>6 DEF z

\* The same of a configuration.
LEMMA JsonConfigWhole ==
    ASSUME NEW c \in Configs, NEW o
    PROVE  /\ ShownConfig(c, o) \in Configs
           /\ JsonConfiguration(c, o) = StreamConfig(ShownConfig(c, o))
<1> DEFINE f == c.interfaces
           header == Shown(c.header, "ConfigurationDescriptor", o)
           extra == ShownExtra(c.extra, "Configuration", o)
           ifs == [i \in DOMAIN f |-> [a \in DOMAIN f[i] |-> ShownInterface(f[i][a], o)]]
           z == ShownConfig(c, o)
           doc == Without(c.header, "ConfigurationDescriptor", o)
           Jsn(g) == StreamVector(g, LAMBDA alt : JsonInterface(alt, o))
           Str(g) == StreamVector(g, StreamInterface)
<1>1. /\ c.header \in Structs(ConfigFields) /\ c.extra \in Seq(Bytes)
      /\ f \in Seq(Seq(Alternates))
  BY DEF Configs
<1>2. \A i \in DOMAIN f : f[i] \in Seq(Alternates)
  BY <1>1
<1>3. \A i \in DOMAIN f : ifs[i] \in Seq(Alternates) /\ Jsn(f[i]) = Str(ifs[i])
  <2> TAKE i \in DOMAIN f
  <2>1. ifs[i] = [a \in DOMAIN f[i] |-> ShownInterface(f[i][a], o)]
    OBVIOUS
  <2>2. QED
    BY <1>2, <2>1, JsonUsbInterfaceWhole
<1>4. DOMAIN ifs = DOMAIN f /\ ifs = [i \in DOMAIN f |-> ifs[i]]
  OBVIOUS
<1>5. /\ header \in Structs(ConfigFields)
      /\ JsonStruct(doc, ConfigFields) = StreamStruct(header, ConfigFields)
  BY <1>1, JsonStructShown
<1>6. /\ extra \in Seq(Bytes)
      /\ BuildExtra(DocExtra(c.extra, "Configuration", o)) = StreamBytes(extra)
  BY <1>1, PlainExtra
<1>7. z = [header |-> header, extra |-> extra, interfaces |-> ifs]
  BY DEF ShownConfig
<1>8. JsonConfiguration(c, o) = JsonStruct(doc, JsonConfigFields)
          \o (<<Len(f)>> \o FlattenSeq([i \in DOMAIN f |-> Jsn(f[i])]))
          \o BuildExtra(DocExtra(c.extra, "Configuration", o))
  BY DEF JsonConfiguration, StreamVector, Each
<1>9. StreamConfig(z) = StreamStruct(z.header, ConfigFields)
          \o (<<Len(z.interfaces)>>
                  \o FlattenSeq([i \in DOMAIN z.interfaces |-> Str(z.interfaces[i])]))
          \o StreamBytes(z.extra)
  BY DEF StreamConfig, StreamVector, Each
<1> HIDE DEF f, header, extra, ifs, z, doc, Jsn, Str
<1>10. ifs \in Seq(Seq(Alternates)) /\ Len(ifs) = Len(f)
  BY <1>1, <1>3, <1>4, ShownList
<1>11. [i \in DOMAIN f |-> Jsn(f[i])] = [i \in DOMAIN ifs |-> Str(ifs[i])]
  BY <1>3, <1>4
<1>12. z \in Configs
  BY <1>5, <1>6, <1>7, <1>10 DEF Configs
<1>13. z.header = header /\ z.interfaces = ifs /\ z.extra = extra
  BY <1>7
<1>14. QED
  BY <1>5, <1>6, <1>8, <1>9, <1>10, <1>11, <1>12, <1>13, JsonFields DEF z

\* The same of a BOS descriptor.
LEMMA JsonBosWhole ==
    ASSUME NEW b \in BosSet, NEW o
    PROVE  ShownBos(b, o) \in BosSet /\ JsonBos(b, o) = StreamBos(ShownBos(b, o))
<1> DEFINE f == b.caps
           header == Shown(b.header, "BOSDescriptor", o)
           caps == [i \in DOMAIN f |-> ShownCap(f[i], o)]
           z == ShownBos(b, o)
           doc == Without(b.header, "BOSDescriptor", o)
<1>1. b.header \in Structs(BosFields) /\ f \in Seq(Caps)
  BY DEF BosSet
<1>2. \A i \in DOMAIN f : f[i] \in Caps
  BY <1>1
<1>3. \A i \in DOMAIN f : caps[i] \in Caps /\ JsonCap(DocCap(f[i], o)) = StreamCap(caps[i])
  BY <1>2, JsonCapWhole
<1>4. DOMAIN caps = DOMAIN f /\ caps = [i \in DOMAIN f |-> caps[i]]
  OBVIOUS
<1>5. /\ header \in Structs(BosFields)
      /\ JsonStruct(doc, BosFields) = StreamStruct(header, BosFields)
  BY <1>1, JsonStructShown
<1>6. z = [header |-> header, caps |-> caps]
  BY DEF ShownBos
<1>7. JsonBos(b, o) = JsonStruct(doc, JsonBosFields)
          \o (<<Len(f)>> \o FlattenSeq([i \in DOMAIN f |-> JsonCap(DocCap(f[i], o))]))
  BY DEF JsonBos, StreamVector, Each
<1>8. StreamBos(z) = StreamStruct(z.header, BosFields)
          \o (<<Len(z.caps)>> \o FlattenSeq([i \in DOMAIN z.caps |-> StreamCap(z.caps[i])]))
  BY DEF StreamBos, StreamVector, Each
<1> HIDE DEF f, header, caps, z, doc
<1>9. caps \in Seq(Caps) /\ Len(caps) = Len(f)
  BY <1>1, <1>3, <1>4, ShownList
<1>10. [i \in DOMAIN f |-> JsonCap(DocCap(f[i], o))] = [i \in DOMAIN caps |-> StreamCap(caps[i])]
  BY <1>3, <1>4
<1>11. z \in BosSet /\ z.header = header /\ z.caps = caps
  BY <1>5, <1>6, <1>9 DEF BosSet
<1>12. QED
  BY <1>5, <1>7, <1>8, <1>9, <1>10, <1>11, JsonFields DEF z

ShownStrings(m, o) ==
    [l \in DOMAIN m |-> [i \in DOMAIN m[l] |-> ShownString(m[l][i], o)]]

Long(m) == \A l \in DOMAIN m : \A i \in DOMAIN m[l] : Len(m[l][i]) >= 2

\* The strings that a document shows are strings.
LEMMA ShownStringsType ==
    ASSUME NEW m, IsStringMap(m), Long(m), NEW o
    PROVE  IsStringMap(ShownStrings(m, o)) /\ Long(ShownStrings(m, o))
<1> DEFINE z == ShownStrings(m, o)
<1>1. z = [l \in DOMAIN m |-> [i \in DOMAIN m[l] |-> ShownString(m[l][i], o)]]
  BY DEF ShownStrings
<1>2. ASSUME NEW l \in DOMAIN m
      PROVE  z[l] \in Seq(Seq(Bytes)) /\ \A i \in DOMAIN z[l] : Len(z[l][i]) >= 2
  <2> DEFINE f == m[l]
             y == [i \in DOMAIN f |-> ShownString(f[i], o)]
  <2>1. f \in Seq(Seq(Bytes)) /\ \A i \in DOMAIN f : f[i] \in Seq(Bytes) /\ Len(f[i]) >= 2
    BY DEF IsStringMap, Long
  <2>2. \A i \in DOMAIN f : y[i] \in Seq(Bytes) /\ Len(y[i]) = Len(f[i])
    <3> HIDE DEF f
    <3>1. QED
      BY <2>1, ShownStringFacts
  <2>3. DOMAIN y = DOMAIN f /\ y = [i \in DOMAIN f |-> y[i]]
    OBVIOUS
  <2> HIDE DEF f, y
  <2>4. y \in Seq(Seq(Bytes))
    BY <2>1, <2>2, <2>3, ShownList
  <2>5. z[l] = y
    BY <1>1 DEF f, y
  <2>6. QED
    BY <2>1, <2>2, <2>3, <2>4, <2>5
<1>3. DOMAIN z = DOMAIN m /\ z = [l \in DOMAIN z |-> z[l]]
  BY <1>1
<1> HIDE DEF z
<1>4. IsStringMap(z)
  BY <1>2, <1>3 DEF IsStringMap
<1>5. Long(z)
  BY <1>2, <1>3 DEF Long
<1>6. QED
  BY <1>4, <1>5 DEF z

\* The parser writes the strings it shows, if each is as long as it says.
LEMMA JsonStringsWhole ==
    ASSUME NEW m, IsStringMap(m), Long(m), NEW o,
           \A l \in DOMAIN m : \A s \in Range(m[l]) :
               s[1] = Len(s) /\ <<"StringDescriptor", "bLength">> \notin o
    PROVE  JsonStrings(m, o) = StreamStrings(ShownStrings(m, o))
<1> DEFINE K == DOMAIN m
           k == Ascending(K)
           z == ShownStrings(m, o)
           Str(l) == <<l>> \o StreamVector(z[l], StreamBytes)
           Jsn(l) == <<l>> \o StreamVector(m[l], LAMBDA s : JsonString(DocString(s, o)))
<1>1. \A l \in K : m[l] \in Seq(Seq(Bytes))
  BY DEF IsStringMap
<1>2. k \in Seq(K)
  BY Limit, AscendingKeys DEF IsStringMap
<1>3. ASSUME NEW l \in K PROVE Jsn(l) = Str(l)
  <2> DEFINE f == m[l]
             y == [i \in DOMAIN f |-> ShownString(f[i], o)]
  <2>1. f \in Seq(Seq(Bytes))
    BY <1>1
  <2>2. ASSUME NEW i \in DOMAIN f PROVE JsonString(DocString(f[i], o)) = StreamBytes(y[i])
    <3>1. f[i] \in Range(f)
      BY DEF Range
    <3>2. f[i] \in Seq(Bytes) /\ y[i] = ShownString(f[i], o)
      BY <2>1
    <3>3. Len(f[i]) >= 2 /\ f[i][1] = Len(f[i]) /\ <<"StringDescriptor", "bLength">> \notin o
      BY <3>1 DEF Long
    <3> HIDE DEF f, y
    <3>4. QED
      BY <3>2, <3>3, JsonStringWhole
  <2>3. z[l] = y
    BY DEF ShownStrings
  <2>4. DOMAIN y = DOMAIN f /\ Len(y) = Len(f)
    <3>1. DOMAIN y = DOMAIN f /\ y = [i \in DOMAIN f |-> y[i]]
      OBVIOUS
    <3>2. \A i \in DOMAIN f : y[i] \in {y[j] : j \in DOMAIN f}
      OBVIOUS
    <3> HIDE DEF f, y
    <3>3. QED
      BY <2>1, <3>1, <3>2, ShownList
  <2> HIDE DEF f, y
  <2>5. [i \in DOMAIN f |-> JsonString(DocString(f[i], o))] = [i \in DOMAIN y |-> StreamBytes(y[i])]
    BY <2>2, <2>4
  <2>6. StreamVector(f, LAMBDA s : JsonString(DocString(s, o))) = StreamVector(y, StreamBytes)
    BY <2>4, <2>5 DEF StreamVector, Each
  <2>7. QED
    BY <2>3, <2>6 DEF f
<1>4. \A i \in DOMAIN k : k[i] \in K
  BY <1>2
<1>5. JsonStrings(m, o) = <<Len(k)>> \o FlattenSeq([i \in DOMAIN k |-> Jsn(k[i])])
  BY DEF JsonStrings, StreamVector, Each
<1>6. StreamStrings(z) = <<Len(k)>> \o FlattenSeq([i \in DOMAIN k |-> Str(k[i])])
  <2>1. DOMAIN z = K
    BY DEF ShownStrings
  <2>2. QED
    BY <2>1 DEF StreamStrings, StreamVector, Each
<1> HIDE DEF k, Jsn, Str, z
<1>7. [i \in DOMAIN k |-> Jsn(k[i])] = [i \in DOMAIN k |-> Str(k[i])]
  BY <1>3, <1>4
<1>8. QED
  BY <1>5, <1>6, <1>7 DEF z

\* The tree that a document shows can be saved and loaded.
LEMMA ShownWellFormed ==
    ASSUME NEW t, WellFormed(t), NEW o
    PROVE  WellFormed(ShownTree(t, o))
<1> DEFINE z == ShownTree(t, o)
<1>1. z = [dd |-> ShownDevice(t.dd, o), config |-> ShownConfig(t.config, o),
           strings |-> ShownStrings(t.strings, o), report |-> t.report,
           bos |-> ShownBos(t.bos, o)]
  BY DEF ShownTree, ShownStrings
<1>2. /\ ShownDevice(t.dd, o) \in Structs(DeviceFields) /\ ShownConfig(t.config, o) \in Configs
      /\ ShownBos(t.bos, o) \in BosSet /\ t.report \in Seq(Bytes)
  BY JsonDevice, JsonConfigWhole, JsonBosWhole DEF WellFormed
<1>3. IsStringMap(ShownStrings(t.strings, o)) /\ Long(ShownStrings(t.strings, o))
  <2>1. IsStringMap(t.strings) /\ Long(t.strings)
    BY DEF WellFormed, Long
  <2>2. QED
    BY <2>1, ShownStringsType
<1> HIDE DEF z
<1>4. /\ z.dd = ShownDevice(t.dd, o) /\ z.config = ShownConfig(t.config, o)
      /\ z.strings = ShownStrings(t.strings, o) /\ z.report = t.report
      /\ z.bos = ShownBos(t.bos, o)
  BY <1>1
<1>5. z = [dd |-> z.dd, config |-> z.config, strings |-> z.strings, report |-> z.report,
           bos |-> z.bos]
  BY <1>1, <1>4
<1>6. WellFormed(z)
  BY <1>2, <1>3, <1>4, <1>5 DEF WellFormed, Long
<1>7. QED
  BY <1>6 DEF z

\* The parser writes for a document what save writes for the tree it shows.
LEMMA JsonIsSave ==
    ASSUME NEW t, WellFormed(t), NEW o, Describable(t, o)
    PROVE  JsonDescriptor(t, o) = SaveTree(ShownTree(t, o))
<1> DEFINE z == ShownTree(t, o)
<1>1. z = [dd |-> ShownDevice(t.dd, o), config |-> ShownConfig(t.config, o),
           strings |-> ShownStrings(t.strings, o), report |-> t.report,
           bos |-> ShownBos(t.bos, o)]
  BY DEF ShownTree, ShownStrings
<1> HIDE DEF z
<1>2. /\ z.dd = ShownDevice(t.dd, o) /\ z.config = ShownConfig(t.config, o)
      /\ z.strings = ShownStrings(t.strings, o) /\ z.report = t.report
      /\ z.bos = ShownBos(t.bos, o)
  BY <1>1
<1>3. JsonStruct(DocDevice(t.dd, o), JsonDeviceFields) = StreamStruct(z.dd, DeviceFields)
  BY <1>2, JsonDevice DEF WellFormed
<1>4. JsonConfiguration(t.config, o) = StreamConfig(z.config)
  BY <1>2, JsonConfigWhole DEF WellFormed
<1>5. JsonStrings(t.strings, o) = StreamStrings(z.strings)
  <2>1. IsStringMap(t.strings) /\ Long(t.strings)
    BY DEF WellFormed, Long
  <2>2. QED
    BY <1>2, <2>1, JsonStringsWhole DEF Describable
<1>6. JsonBos(t.bos, o) = StreamBos(z.bos)
  BY <1>2, JsonBosWhole DEF WellFormed
<1>7. JsonDescriptor(t, o) = SaveTree(z)
  BY <1>2, <1>3, <1>4, <1>5, <1>6 DEF JsonDescriptor, SaveTree
<1>8. QED
  BY <1>7 DEF z

-----------------------------------------------------------------------------
(* A document that leaves out nothing shows the tree itself. *)

\* Nothing is zeroed.
LEMMA AllShown ==
    ASSUME NEW kind
    PROVE  /\ \A s, fields : s \in Structs(fields) => Shown(s, kind, {}) = s
           /\ \A keys : \A s \in Seq(Bytes) : ShownBytes(s, kind, keys, {}) = s
           /\ \A x : ShownExtra(x, kind, {}) = x
<1>1. ASSUME NEW s, NEW fields, s \in Structs(fields) PROVE Shown(s, kind, {}) = s
  <2>1. s \in [Range(fields) -> Nat]
    BY <1>1 DEF Structs
  <2>2. Shown(s, kind, {}) = [f \in DOMAIN s |-> s[f]]
    BY DEF Shown
  <2>3. QED
    BY <2>1, <2>2
<1>2. ASSUME NEW s \in Seq(Bytes), NEW keys PROVE ShownBytes(s, kind, keys, {}) = s
  <2>1. ShownBytes(s, kind, keys, {}) = [i \in DOMAIN s |-> s[i]]
    BY DEF ShownBytes
  <2>2. s = [i \in 1 .. Len(s) |-> s[i]] /\ DOMAIN s = 1 .. Len(s)
    BY Announced, LenProperties
  <2>3. QED
    BY <2>1, <2>2
<1>3. \A x : ShownExtra(x, kind, {}) = x
  BY DEF ShownExtra
<1>4. QED
  BY <1>1, <1>2, <1>3

\* An endpoint, an alternate setting, a configuration and a capability are shown
\* as they are.
LEMMA PartsShown ==
    /\ \A e \in Endpoints : ShownEndpoint(e, {}) = e
    /\ \A a \in Alternates : ShownInterface(a, {}) = a
    /\ \A c \in Configs : ShownConfig(c, {}) = c
    /\ \A c \in Caps : ShownCap(c, {}) = c
    /\ \A b \in BosSet : ShownBos(b, {}) = b
<1>1. ASSUME NEW x \in Seq(Bytes) PROVE ShownEndpointExtra(x, {}) = x
  <2>1. PICK n \in Nat : n = Len(x)
    BY LenProperties
  <2>2. CASE n < 6
    BY <2>1, <2>2, AllShown DEF ShownEndpointExtra
  <2>3. CASE ~(n < 6)
    <3> DEFINE six == SubSeq(x, 1, 6)
               rest == SubSeq(x, 7, Len(x))
    <3>1. six \in Seq(Bytes)
      BY <2>1, <2>3
    <3>2. x = six \o rest
      <4>1. x = SubSeq(x, 1, 6) \o SubSeq(x, 6 + 1, Len(x))
        BY <2>1, <2>3, HeadTail
      <4>2. QED
        BY <4>1
    <3>3. ShownEndpointExtra(x, {}) = ShownBytes(six, "EndpointCompanion", CompanionKeys, {})
                                          \o ShownExtra(rest, "Endpoint", {})
      BY <2>1, <2>3 DEF ShownEndpointExtra
    <3> HIDE DEF six, rest
    <3>4. QED
      BY <3>1, <3>2, <3>3, AllShown
  <2>4. QED
    BY <2>1, <2>2, <2>3
<1>2. ASSUME NEW e \in Endpoints PROVE ShownEndpoint(e, {}) = e
  <2>1. /\ e.header \in Structs(EndpointFields) /\ e.extra \in Seq(Bytes)
        /\ e = [header |-> e.header, extra |-> e.extra]
    BY DEF Endpoints
  <2>2. Shown(e.header, "EndpointDescriptor", {}) = e.header
    BY <2>1, AllShown
  <2>3. QED
    BY <1>1, <2>1, <2>2 DEF ShownEndpoint
<1>3. ASSUME NEW a \in Alternates PROVE ShownInterface(a, {}) = a
  <2>1. /\ a.header \in Structs(InterfaceFields) /\ a.endpoints \in Seq(Endpoints)
        /\ a = [header |-> a.header, extra |-> a.extra, endpoints |-> a.endpoints]
    BY DEF Alternates
  <2>2. /\ Shown(a.header, "InterfaceDescriptor", {}) = a.header
        /\ ShownExtra(a.extra, "InterfaceDescriptor", {}) = a.extra
    BY <2>1, AllShown
  <2>3. [i \in DOMAIN a.endpoints |-> ShownEndpoint(a.endpoints[i], {})] = a.endpoints
    BY <1>2, <2>1
  <2>4. QED
    BY <2>1, <2>2, <2>3 DEF ShownInterface
<1>4. ASSUME NEW c \in Configs PROVE ShownConfig(c, {}) = c
  <2> DEFINE f == c.interfaces
  <2>1. /\ c.header \in Structs(ConfigFields) /\ f \in Seq(Seq(Alternates))
        /\ c = [header |-> c.header, extra |-> c.extra, interfaces |-> f]
    BY DEF Configs
  <2>2. /\ Shown(c.header, "ConfigurationDescriptor", {}) = c.header
        /\ ShownExtra(c.extra, "Configuration", {}) = c.extra
    BY <2>1, AllShown
  <2>3. \A g \in Seq(Alternates) : [a \in DOMAIN g |-> ShownInterface(g[a], {})] = g
    BY <1>3
  <2>4. [i \in DOMAIN f |-> [a \in DOMAIN f[i] |-> ShownInterface(f[i][a], {})]] = f
    <3> HIDE DEF f
    <3>1. \A i \in DOMAIN f : f[i] \in Seq(Alternates)
      BY <2>1
    <3>2. \A i \in DOMAIN f : [a \in DOMAIN f[i] |-> ShownInterface(f[i][a], {})] = f[i]
      BY <2>3, <3>1
    <3>3. f = [i \in DOMAIN f |-> f[i]]
      BY <2>1
    <3>4. QED
      BY <3>2, <3>3
  <2>5. ShownConfig(c, {}) = [header |-> Shown(c.header, "ConfigurationDescriptor", {}),
            extra |-> ShownExtra(c.extra, "Configuration", {}),
            interfaces |-> [i \in DOMAIN f |->
                               [a \in DOMAIN f[i] |-> ShownInterface(f[i][a], {})]]]
    BY DEF ShownConfig
  <2>6. QED
    BY <2>1, <2>2, <2>4, <2>5
<1>5. ASSUME NEW c \in Caps PROVE ShownCap(c, {}) = c
  <2>1. /\ c.header \in Structs(CapFields) /\ c.data \in Seq(Bytes)
        /\ c = [header |-> c.header, data |-> c.data]
    BY DEF Caps
  <2>2. Shown(c.header, "DeviceCap", {}) = c.header
    BY <2>1, AllShown
  <2>3. /\ ShownBytes(c.data, "usb2", Usb2Keys, {}) = c.data
        /\ ShownBytes(c.data, "ss", SsKeys, {}) = c.data
    BY <2>1, AllShown
  <2>4. ShownCapData(c, {}) = c.data
    BY <2>3 DEF ShownCapData, CapForm
  <2>5. QED
    BY <2>1, <2>2, <2>4 DEF ShownCap
<1>6. ASSUME NEW b \in BosSet PROVE ShownBos(b, {}) = b
  <2>1. /\ b.header \in Structs(BosFields) /\ b.caps \in Seq(Caps)
        /\ b = [header |-> b.header, caps |-> b.caps]
    BY DEF BosSet
  <2>2. Shown(b.header, "BOSDescriptor", {}) = b.header
    BY <2>1, AllShown
  <2>3. [i \in DOMAIN b.caps |-> ShownCap(b.caps[i], {})] = b.caps
    BY <1>5, <2>1
  <2>4. QED
    BY <2>1, <2>2, <2>3 DEF ShownBos
<1>7. QED
  BY <1>2, <1>3, <1>4, <1>5, <1>6

\* The same of the whole tree.
LEMMA NothingOmitted ==
    ASSUME NEW t, WellFormed(t)
    PROVE  ShownTree(t, {}) = t
<1>1. /\ t = [dd |-> t.dd, config |-> t.config, strings |-> t.strings, report |-> t.report,
              bos |-> t.bos]
      /\ t.dd \in Structs(DeviceFields) /\ IsStringMap(t.strings)
  BY DEF WellFormed
<1>2. ShownConfig(t.config, {}) = t.config /\ ShownBos(t.bos, {}) = t.bos
  BY PartsShown DEF WellFormed
<1>3. ShownDevice(t.dd, {}) = t.dd
  <2>1. ShownDevice(t.dd, {}) = [f \in DOMAIN t.dd |-> t.dd[f]]
    BY DEF ShownDevice
  <2>2. QED
    BY <1>1, <2>1 DEF Structs
<1>4. ShownStrings(t.strings, {}) = t.strings
  <2> DEFINE m == t.strings
  <2>1. \A l \in DOMAIN m : m[l] \in Seq(Seq(Bytes))
    BY <1>1 DEF IsStringMap
  <2>2. \A l \in DOMAIN m : [i \in DOMAIN m[l] |-> ShownString(m[l][i], {})] = m[l]
    <3> TAKE l \in DOMAIN m
    <3>1. [i \in DOMAIN m[l] |-> ShownString(m[l][i], {})] = [i \in DOMAIN m[l] |-> m[l][i]]
      BY DEF ShownString
    <3>2. QED
      BY <2>1, <3>1
  <2>3. m = [l \in DOMAIN m |-> m[l]]
    BY <1>1 DEF IsStringMap
  <2>4. ShownStrings(m, {})
            = [l \in DOMAIN m |-> [i \in DOMAIN m[l] |-> ShownString(m[l][i], {})]]
    BY DEF ShownStrings
  <2> HIDE DEF m
  <2>5. QED
    BY <2>2, <2>3, <2>4 DEF m
<1>5. ShownTree(t, {}) = [dd |-> ShownDevice(t.dd, {}), config |-> ShownConfig(t.config, {}),
           strings |-> ShownStrings(t.strings, {}), report |-> t.report,
           bos |-> ShownBos(t.bos, {})]
  BY DEF ShownTree, ShownStrings
<1>6. QED
  BY <1>1, <1>2, <1>3, <1>4, <1>5

\* viu::json::parser writes for a document of a device what tree::save writes for
\* the device, with 0 or nothing for what the document leaves out, if the
\* strings are as long as they say.
THEOREM DocumentIsSave ==
    ASSUME NEW d, IsDevice(d), NEW o, Describable(Build(d), o)
    PROVE  /\ JsonDescriptor(Build(d), o) = SaveTree(ShownTree(Build(d), o))
           /\ ShownTree(Build(d), {}) = Build(d)
<1>1. WellFormed(Build(d))
  BY BuildWellFormed
<1>2. QED
  BY <1>1, JsonIsSave, NothingOmitted

-----------------------------------------------------------------------------
(* Whatever its strings say, a document is turned into numbers. *)

\* The numbers of the strings.
LEMMA JsonStringsType ==
    ASSUME NEW m, IsStringMap(m), Long(m), NEW o
    PROVE  JsonStrings(m, o) \in Seq(Nat)
<1> DEFINE K == DOMAIN m
           k == Ascending(K)
           V(l) == StreamVector(m[l], LAMBDA s : JsonString(DocString(s, o)))
           E == [i \in DOMAIN k |-> <<k[i]>> \o V(k[i])]
<1>1. k \in Seq(K) /\ \A l \in K : l \in Nat
  BY Limit, AscendingKeys DEF IsStringMap
<1>2. ASSUME NEW l \in K PROVE V(l) \in Seq(Nat)
  <2> DEFINE f == m[l]
             y == [i \in DOMAIN f |-> JsonString(DocString(f[i], o))]
  <2>1. f \in Seq(Seq(Bytes)) /\ \A i \in DOMAIN f : f[i] \in Seq(Bytes) /\ Len(f[i]) >= 2
    BY DEF IsStringMap, Long
  <2>2. ASSUME NEW s \in Seq(Bytes), Len(s) >= 2 PROVE JsonString(DocString(s, o)) \in Seq(Nat)
    <3> DEFINE length == IF <<"StringDescriptor", "bLength">> \in o THEN 0 ELSE s[1]
               type == IF <<"StringDescriptor", "bDescriptorType">> \in o THEN 0 ELSE s[2]
               rest == SubSeq(s, 3, Len(s))
    <3>1. JsonString(DocString(s, o)) = <<length, length, type>> \o rest
      BY <2>2, JsonStringParts
    <3>2. PICK n \in Nat : n = Len(s)
      BY LenProperties
    <3>3. s \in Seq(Nat)
      BY BytesAreNumbers
    <3>4. length \in Nat /\ type \in Nat
      BY <2>2, <3>2, <3>3, ElementOfSeq
    <3>5. rest \in Seq(Nat)
      BY <2>2, <3>2, <3>3
    <3> HIDE DEF length, type, rest
    <3>6. <<length, length, type>> \in Seq(Nat)
      BY <3>4
    <3>7. QED
      BY <3>1, <3>5, <3>6, ConcatProperties
  <2>3. \A i \in DOMAIN f : y[i] \in Seq(Nat)
    <3> HIDE DEF f
    <3>1. QED
      BY <2>1, <2>2
  <2>4. DOMAIN y = DOMAIN f /\ y = [i \in DOMAIN f |-> y[i]]
    OBVIOUS
  <2>5. V(l) = <<Len(f)>> \o FlattenSeq(y)
    BY DEF StreamVector, Each
  <2> HIDE DEF f, y, V
  <2>6. y \in Seq(Seq(Nat))
    BY <2>1, <2>3, <2>4, ShownList
  <2>7. FlattenSeq(y) \in Seq(Nat)
    BY <2>6, FlattenType
  <2>8. <<Len(f)>> \in Seq(Nat)
    BY <2>1, LenProperties
  <2>9. QED
    BY <2>5, <2>7, <2>8, ConcatProperties
<1>3. JsonStrings(m, o) = <<Len(k)>> \o FlattenSeq(E)
  BY DEF JsonStrings, StreamVector, Each
<1>4. \A i \in DOMAIN k : E[i] \in Seq(Nat)
  <2> TAKE i \in DOMAIN k
  <2> HIDE DEF V, k
  <2>1. k[i] \in K /\ E[i] = <<k[i]>> \o V(k[i])
    BY <1>1
  <2>2. <<k[i]>> \in Seq(Nat) /\ V(k[i]) \in Seq(Nat)
    BY <1>1, <1>2, <2>1
  <2>3. QED
    BY <2>1, <2>2, ConcatProperties
<1>5. DOMAIN E = DOMAIN k /\ E = [i \in DOMAIN k |-> E[i]]
  OBVIOUS
<1> HIDE DEF E, k
<1>6. E \in Seq(Seq(Nat))
  BY <1>1, <1>4, <1>5, ShownList
<1>7. FlattenSeq(E) \in Seq(Nat)
  BY <1>6, FlattenType
<1>8. <<Len(k)>> \in Seq(Nat)
  BY <1>1, LenProperties
<1>9. QED
  BY <1>3, <1>7, <1>8, ConcatProperties

\* All the numbers of a document.
LEMMA DocumentType ==
    ASSUME NEW t, WellFormed(t), NEW o
    PROVE  JsonDescriptor(t, o) \in Seq(Nat)
<1> DEFINE z == ShownTree(t, o)
           in == <<>>
           a == JsonStruct(DocDevice(t.dd, o), JsonDeviceFields)
           b == JsonConfiguration(t.config, o)
           c == JsonStrings(t.strings, o)
           d == StreamBytes(t.report)
           e == JsonBos(t.bos, o)
<1>1. in \in Seq(Nat) /\ 1 \in Places
  BY DEF Places
<1>2. WellFormed(z)
  BY ShownWellFormed
<1>3. /\ z.dd = ShownDevice(t.dd, o) /\ z.config = ShownConfig(t.config, o)
      /\ z.report = t.report /\ z.bos = ShownBos(t.bos, o)
  BY DEF ShownTree
<1> HIDE DEF z, in
<1>4. /\ a = StreamStruct(z.dd, DeviceFields) /\ b = StreamConfig(z.config)
      /\ e = StreamBos(z.bos)
  BY <1>3, JsonDevice, JsonConfigWhole, JsonBosWhole DEF WellFormed
<1>5. a \in Seq(Nat)
  <2>1. 14 \in Places
    BY DEF Places
  <2>2. Reads(in, StreamStruct(z.dd, DeviceFields), StructReader(in, DeviceFields), z.dd)
    BY <1>1, <1>2, <2>1, FieldLists, StructReads DEF WellFormed
  <2>3. QED
    BY <1>4, <2>2 DEF Reads
<1>6. b \in Seq(Nat) /\ d \in Seq(Nat)
  <2>1. /\ Reads(in, StreamConfig(z.config), ConfigReader(in), z.config)
        /\ Reads(in, StreamBytes(z.report), BytesReader(in), z.report)
    BY <1>1, <1>2, ConfigReads, BytesReads DEF WellFormed
  <2>2. QED
    BY <1>3, <1>4, <2>1 DEF Reads
<1>7. e \in Seq(Nat)
  <2>1. z.bos \in [header : Structs(BosFields), caps : Seq(Caps)]
    BY <1>2 DEF WellFormed, BosSet
  <2>2. Reads(in, StreamBos(z.bos), BosReader(in), z.bos)
    BY <1>1, <2>1, BosReads
  <2>3. QED
    BY <1>4, <2>2 DEF Reads
<1>8. c \in Seq(Nat)
  <2>1. IsStringMap(t.strings) /\ Long(t.strings)
    BY DEF WellFormed, Long
  <2>2. QED
    BY <2>1, JsonStringsType
<1>9. JsonDescriptor(t, o) = a \o b \o c \o d \o e
  BY DEF JsonDescriptor
<1> HIDE DEF a, b, c, d, e
<1>10. a \o b \in Seq(Nat)
  BY <1>5, <1>6, ConcatProperties
<1>11. a \o b \o c \in Seq(Nat)
  BY <1>8, <1>10, ConcatProperties
<1>12. a \o b \o c \o d \in Seq(Nat)
  BY <1>6, <1>11, ConcatProperties
<1>13. QED
  BY <1>7, <1>9, <1>12, ConcatProperties

-----------------------------------------------------------------------------
(* The steps. *)

\* What a file holds that was written to its end: o is what a document leaves
\* out, and nothing for a save.
Saved(o) == SaveTree(ShownTree(Build(device), o))

\* The tree and the file hold what they were made from, and the mock holds
\* what load makes of the file.
Kept ==
    /\ device \in Devices
    /\ tree = <<>> \/ tree = <<Build(device)>>
    /\ loaded \in BOOLEAN
    /\ origin \in Origins
    /\ omitted \in Omissions \cup {{}}
    /\ file \in Seq(Nat)
    /\ origin = "none" => ~loaded /\ omitted = {}
    /\ origin = "whole" => file = Saved(omitted)
    /\ origin = "cut" => \E k \in 0 .. Len(Saved(omitted)) :
                             k # Len(Saved(omitted)) /\ file = SubSeq(Saved(omitted), 1, k)
    /\ mock = IF loaded THEN LoadTree(file) ELSE <<>>

\* What load makes of the file of a device, and of the first part of it.
LEMMA SavedFacts ==
    ASSUME device \in Devices, NEW o
    PROVE  /\ WellFormed(Build(device)) /\ WellFormed(ShownTree(Build(device), o))
           /\ Saved(o) \in Seq(Nat) /\ Len(Saved(o)) \in Nat
           /\ \A k \in 0 .. Len(Saved(o)) :
                  /\ SubSeq(Saved(o), 1, k) \in Seq(Nat)
                  /\ LoadTree(SubSeq(Saved(o), 1, k)) =
                         IF k = Len(Saved(o)) THEN <<ShownTree(Build(device), o)>> ELSE <<>>
           /\ SubSeq(Saved(o), 1, Len(Saved(o))) = Saved(o)
           /\ Saved({}) = SaveTree(Build(device))
<1> DEFINE saved == Saved(o)
           t == ShownTree(Build(device), o)
<1>1. WellFormed(Build(device))
  BY DevicesAssumption, BuildWellFormed
<1>2. WellFormed(t)
  BY <1>1, ShownWellFormed
<1>3. \A k \in 0 .. Len(saved) :
          /\ saved \in Seq(Nat)
          /\ LoadTree(SubSeq(saved, 1, k)) = IF k = Len(saved) THEN <<t>> ELSE <<>>
  <2> HIDE DEF t
  <2>1. saved = SaveTree(t)
    BY DEF Saved, t
  <2>2. QED
    BY <1>2, <2>1, SavedPrefix
<1>4. saved \in Seq(Nat)
  <2>1. Agree(<<>>, 1, saved) /\ <<>> \in Seq(Nat)
    <3>1. \A i \in 1 .. Len(saved) : ~(1 + i - 1 <= Len(<<>>))
      OBVIOUS
    <3>2. QED
      BY <3>1 DEF Agree
  <2>2. QED
    BY <1>2, <2>1, LoadReads DEF Saved
<1> HIDE DEF saved
<1>5. Len(saved) \in Nat /\ SubSeq(saved, 1, Len(saved)) = saved
  BY <1>4, LenProperties, SubSeqFull
<1>6. \A k \in 0 .. Len(saved) : SubSeq(saved, 1, k) \in Seq(Nat)
  BY <1>4
<1>7. Saved({}) = SaveTree(Build(device))
  BY <1>1, NothingOmitted DEF Saved
<1>8. QED
  BY <1>1, <1>2, <1>3, <1>4, <1>5, <1>6, <1>7 DEF saved

\* Nothing has been read or written yet.
LEMMA KeptInit == Init => Kept
<1> SUFFICES ASSUME Init PROVE Kept
  OBVIOUS
<1>1. /\ device \in Devices /\ tree = <<>> /\ file = <<>> /\ origin = "none"
      /\ omitted = {} /\ loaded = FALSE /\ mock = <<>>
  BY DEF Init
<1>2. <<>> \in Seq(Nat)
  OBVIOUS
<1>3. QED
  BY <1>1, <1>2 DEF Kept, Origins

\* Every step keeps it: only Load touches the mock, and nothing the file twice.
LEMMA KeptNext == Kept /\ [Next]_vars => Kept'
<1> SUFFICES ASSUME Kept, [Next]_vars PROVE Kept'
  OBVIOUS
<1>1. device \in Devices
  BY DEF Kept
<1>0. Saved({}) = SaveTree(Build(device))
  BY <1>1, SavedFacts
<1>2. device' = device /\ omitted' = omitted => Saved(omitted)' = Saved(omitted)
  BY DEF Saved
<1>3. ASSUME NEW o \in Omissions \cup {{}}, NEW k \in 0 .. Len(Saved(o)), origin = "none",
             omitted' = o, UNCHANGED <<device, tree, loaded, mock>>,
             file' = SubSeq(Saved(o), 1, k),
             origin' = IF k = Len(Saved(o)) THEN "whole" ELSE "cut"
      PROVE  Kept'
  <2>1. Saved(omitted)' = Saved(o)
    BY <1>3 DEF Saved
  <2>2. /\ file' \in Seq(Nat)
        /\ origin' = "whole" => file' = Saved(o)
        /\ origin' = "cut" => k # Len(Saved(o)) /\ file' = SubSeq(Saved(o), 1, k)
        /\ origin' \in {"whole", "cut"}
    BY <1>1, <1>3, SavedFacts
  <2>3. loaded = FALSE /\ loaded' = FALSE /\ mock' = <<>>
    BY <1>3 DEF Kept
  <2>4. QED
    BY <1>1, <1>3, <2>1, <2>2, <2>3 DEF Kept, Origins
<1>4. CASE Open
  BY <1>2, <1>4 DEF Open, Kept
<1>5. CASE Save
  <2>1. SaveTree(tree[1]) = Saved({}) /\ omitted' = {} /\ origin = "none"
    <3>1. tree # <<>> /\ origin = "none" /\ omitted' = omitted
      BY <1>5 DEF Save
    <3>2. tree = <<Build(device)>> /\ omitted = {}
      BY <3>1 DEF Kept
    <3>3. tree[1] = Build(device)
      BY <3>2
    <3>4. QED
      BY <1>0, <3>1, <3>2, <3>3
  <2>2. {} \in Omissions \cup {{}}
    OBVIOUS
  <2>3. \E k \in 0 .. Len(Saved({})) :
            /\ file' = SubSeq(Saved({}), 1, k)
            /\ origin' = IF k = Len(Saved({})) THEN "whole" ELSE "cut"
    BY <1>5, <2>1 DEF Save
  <2>4. UNCHANGED <<device, tree, loaded, mock>>
    BY <1>5 DEF Save
  <2>5. QED
    BY <1>3, <2>1, <2>2, <2>3, <2>4
<1>6. CASE SaveTorn
  <2>1. SaveTree(tree[1]) = Saved({})
    <3>1. tree # <<>>
      BY <1>6 DEF SaveTorn
    <3>2. tree = <<Build(device)>>
      BY <3>1 DEF Kept
    <3>3. tree[1] = Build(device)
      BY <3>2
    <3>4. QED
      BY <1>0, <3>3
  <2> DEFINE all == SaveTree(tree[1])
  <2>2. \E k \in DOMAIN all, power \in {10, 100, 1000} :
            /\ all[k] >= power
            /\ file' = Append(SubSeq(all, 1, k - 1), all[k] \div power)
    BY <1>6 DEF SaveTorn
  <2> HIDE DEF all
  <2>3. file' \in Seq(Nat)
    <3>1. all \in Seq(Nat)
      BY <1>1, <2>1, SavedFacts DEF all
    <3>2. PICK k \in DOMAIN all, power \in {10, 100, 1000} :
              /\ all[k] >= power
              /\ file' = Append(SubSeq(all, 1, k - 1), all[k] \div power)
      BY <2>2, Zenon
    <3>3. k \in 1 .. Len(all) /\ all[k] \in Nat /\ k \in Nat /\ Len(all) \in Nat
      BY <3>1, LenProperties, ElementOfSeq
    <3>4. all[k] \div power \in Nat
      BY <3>3
    <3>5. SubSeq(all, 1, k - 1) \in Seq(Nat)
      BY <3>1, <3>3
    <3>6. QED
      BY <3>2, <3>4, <3>5
  <2>4. /\ loaded = FALSE /\ loaded' = FALSE /\ mock' = <<>> /\ origin' = "torn"
        /\ device' = device /\ tree' = tree /\ omitted' = omitted
    BY <1>6 DEF SaveTorn, Kept
  <2>5. QED
    BY <1>1, <2>3, <2>4 DEF Kept, Origins
<1>7. CASE WriteDocument
  <2> DEFINE t == Build(device)
  <2>1. /\ origin = "none"
        /\ \E o \in Omissions :
               \E k \in 0 .. Len(JsonDescriptor(t, o)) :
                   /\ file' = SubSeq(JsonDescriptor(t, o), 1, k)
                   /\ origin' = IF ~Describable(t, o) THEN "garbled"
                                ELSE IF k = Len(JsonDescriptor(t, o)) THEN "whole" ELSE "cut"
                   /\ omitted' = o
        /\ UNCHANGED <<device, tree, loaded, mock>>
    BY <1>7 DEF WriteDocument
  <2> HIDE DEF t
  <2>2. PICK o \in Omissions :
            \E k \in 0 .. Len(JsonDescriptor(t, o)) :
                   /\ file' = SubSeq(JsonDescriptor(t, o), 1, k)
                   /\ origin' = IF ~Describable(t, o) THEN "garbled"
                                ELSE IF k = Len(JsonDescriptor(t, o)) THEN "whole" ELSE "cut"
                   /\ omitted' = o
    BY <2>1
  <2>3. PICK k \in 0 .. Len(JsonDescriptor(t, o)) :
            /\ file' = SubSeq(JsonDescriptor(t, o), 1, k)
            /\ origin' = IF ~Describable(t, o) THEN "garbled"
                         ELSE IF k = Len(JsonDescriptor(t, o)) THEN "whole" ELSE "cut"
            /\ omitted' = o
    BY <2>2
  <2>4. WellFormed(t)
    BY <1>1, SavedFacts DEF t
  <2>5. CASE Describable(t, o)
    <3>1. JsonDescriptor(t, o) = Saved(o)
      BY <2>4, <2>5, JsonIsSave DEF Saved, t
    <3>2. QED
      BY <1>3, <2>1, <2>3, <2>5, <3>1
  <2>6. CASE ~Describable(t, o)
    <3>1. JsonDescriptor(t, o) \in Seq(Nat)
      BY <2>4, DocumentType
    <3>2. file' \in Seq(Nat)
      BY <2>3, <3>1
    <3>3. /\ loaded = FALSE /\ loaded' = FALSE /\ mock' = <<>> /\ origin' = "garbled"
          /\ device' = device /\ tree' = tree /\ omitted' = o
      BY <2>1, <2>3, <2>6 DEF Kept
    <3>4. QED
      BY <1>1, <3>2, <3>3 DEF Kept, Origins
  <2>7. QED
    BY <2>5, <2>6
<1>8. CASE Load
  BY <1>2, <1>8 DEF Load, Kept
<1>9. CASE UNCHANGED vars
  BY <1>2, <1>9 DEF vars, Kept
<1>10. QED
  BY <1>4, <1>5, <1>6, <1>7, <1>8, <1>9 DEF Next

\* The inductive invariant holds throughout.
LEMMA KeptAlways == Spec => []Kept
  BY KeptInit, KeptNext, PTL DEF Spec

\* What a mock holds after a load of a file whose numbers are where load expects
\* them.
LEMMA MockFacts ==
    ASSUME Kept, loaded, Aligned
    PROVE  mock = IF origin = "whole" THEN <<ShownTree(Build(device), omitted)>> ELSE <<>>
<1> DEFINE saved == Saved(omitted)
<1>1. device \in Devices /\ mock = LoadTree(file) /\ origin \in {"whole", "cut"}
  BY DEF Kept, Origins, Aligned
<1>2. /\ Len(saved) \in Nat /\ SubSeq(saved, 1, Len(saved)) = saved
      /\ \A k \in 0 .. Len(saved) :
             LoadTree(SubSeq(saved, 1, k)) =
                 IF k = Len(saved) THEN <<ShownTree(Build(device), omitted)>> ELSE <<>>
  BY <1>1, SavedFacts
<1>3. CASE origin = "whole"
  <2>1. file = saved
    BY <1>3 DEF Kept
  <2> HIDE DEF saved
  <2>2. Len(saved) \in 0 .. Len(saved)
    <3>1. Len(saved) \in Nat
      BY <1>2
    <3>2. \A n \in Nat : n \in 0 .. n
      OBVIOUS
    <3>3. QED
      BY <3>1, <3>2, Zenon
  <2>3. QED
    BY <1>1, <1>2, <1>3, <2>1, <2>2
<1>4. CASE origin = "cut"
  <2>1. PICK k \in 0 .. Len(saved) : k # Len(saved) /\ file = SubSeq(saved, 1, k)
    BY <1>4 DEF Kept
  <2>2. QED
    BY <1>1, <1>2, <1>4, <2>1
<1>5. QED
  BY <1>1, <1>3, <1>4

\* The trees and the file are well-formed: every member of a tree is as wide as
\* libusb's, and every number of a file is a natural number.
THEOREM TypeCorrect == Spec => []TypeOK
<1>1. ASSUME Kept PROVE TypeOK
  <2>1. /\ device \in Devices /\ WellFormed(Build(device))
        /\ WellFormed(ShownTree(Build(device), omitted))
    BY <1>1, SavedFacts DEF Kept
  <2>2. IsTree(Build(device)) /\ IsTree(ShownTree(Build(device), omitted))
    BY <2>1 DEF WellFormed, IsTree, IsStringMap
  <2>3. tree # <<>> => tree = <<tree[1]>> /\ IsTree(tree[1])
    BY <1>1, <2>2 DEF Kept
  <2>4. mock # <<>> => loaded /\ mock = <<mock[1]>>
    BY <1>1 DEF Kept, LoadTree
  <2>5. mock # <<>> /\ Aligned => IsTree(mock[1])
    BY <1>1, <2>2, <2>4, MockFacts
  <2>6. QED
    BY <1>1, <2>3, <2>4, <2>5 DEF Kept, TypeOK
<1>2. QED
  BY <1>1, KeptAlways, PTL

\* For every device whose descriptors libusb reports, whatever its
\* configurations, strings and capabilities: what proxy::descriptor answers
\* from the tree is what the device would answer.
THEOREM AnswersHold == Spec => []AnswersOfTheDevice
<1>1. ASSUME Kept PROVE AnswersOfTheDevice
  <2>1. CASE tree = <<>>
    BY <2>1 DEF AnswersOfTheDevice
  <2>2. CASE tree = <<Build(device)>>
    BY <1>1, <2>2, Answers DEF Kept
  <2>3. QED
    BY <1>1, <2>1, <2>2 DEF Kept
<1>2. QED
  BY <1>1, KeptAlways, PTL

\* For every device, and whatever keys a document leaves out: a mock that has
\* loaded the file or the document answers as the proxied device does, with 0
\* for the numbers and nothing for the bytes that are left out.
THEOREM MocksHold == Spec => []MockIsDevice
<1>1. ASSUME Kept PROVE MockIsDevice
  <2>1. ASSUME mock # <<>>, Aligned
        PROVE  /\ mock[1] = ShownTree(Build(device), omitted)
               /\ omitted = {} => mock[1] = Build(device)
    <3>1. loaded /\ device \in Devices
      BY <1>1, <2>1 DEF Kept
    <3>2. mock = <<ShownTree(Build(device), omitted)>>
      BY <1>1, <2>1, <3>1, MockFacts
    <3>3. WellFormed(Build(device))
      BY <3>1, SavedFacts
    <3>4. QED
      BY <3>2, <3>3, NothingOmitted
  <2>2. QED
    BY <2>1 DEF MockIsDevice
<1>2. QED
  BY <1>1, KeptAlways, PTL

\* For every device, whatever keys a document leaves out, and wherever a save or
\* the parser breaks off: load throws unless the writer got to the end.
THEOREM LoadsHold == Spec => []WholeOrRefused
<1>1. ASSUME Kept PROVE WholeOrRefused
  <2>1. ASSUME loaded, Aligned PROVE mock # <<>> <=> origin = "whole"
    <3>1. mock = IF origin = "whole" THEN <<ShownTree(Build(device), omitted)>> ELSE <<>>
      BY <1>1, <2>1, MockFacts
    <3>2. QED
      BY <3>1
  <2>2. QED
    BY <2>1 DEF WholeOrRefused
<1>2. QED
  BY <1>1, KeptAlways, PTL
=============================================================================
