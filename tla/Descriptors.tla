----------------------------- MODULE Descriptors -----------------------------
(***************************************************************************)
(* usb::descriptor: the tree of a device's descriptors, built from what    *)
(* libusb reports, packed into the bytes a host reads, saved to a file of  *)
(* decimal numbers and loaded from one.                                    *)
(*                                                                         *)
(* A struct is a function from field names to numbers.  A file is a        *)
(* sequence of numbers without any marks: what a number means depends on   *)
(* all the numbers before it.                                              *)
(***************************************************************************)
EXTENDS Integers, Sequences, SequencesExt

-----------------------------------------------------------------------------
(* The members of libusb's structs, in the order of BOOST_DESCRIBE_STRUCT. *)

DeviceFields == <<"bLength", "bDescriptorType", "bcdUSB", "bDeviceClass",
    "bDeviceSubClass", "bDeviceProtocol", "bMaxPacketSize0", "idVendor", "idProduct",
    "bcdDevice", "iManufacturer", "iProduct", "iSerialNumber", "bNumConfigurations">>
ConfigFields == <<"bLength", "bDescriptorType", "wTotalLength", "bNumInterfaces",
    "bConfigurationValue", "iConfiguration", "bmAttributes", "MaxPower">>
InterfaceFields == <<"bLength", "bDescriptorType", "bInterfaceNumber",
    "bAlternateSetting", "bNumEndpoints", "bInterfaceClass", "bInterfaceSubClass",
    "bInterfaceProtocol", "iInterface">>
EndpointFields == <<"bLength", "bDescriptorType", "bEndpointAddress", "bmAttributes",
    "wMaxPacketSize", "bInterval", "bRefresh", "bSynchAddress">>
BosFields == <<"bLength", "bDescriptorType", "wTotalLength", "bNumDeviceCaps">>
CapFields == <<"bLength", "bDescriptorType", "bDevCapabilityType">>

Words == {"bcdUSB", "idVendor", "idProduct", "bcdDevice", "wTotalLength", "wMaxPacketSize"}
Width(field) == IF field \in Words THEN 2 ELSE 1
WordLimit == 65536

LittleEndian(v, width) ==
    IF width = 1 THEN <<v % 256>> ELSE <<v % 256, (v \div 256) % 256>>

\* The concatenation of F(s[1]), F(s[2]) and so on.
Each(s, F(_)) == FlattenSeq([i \in DOMAIN s |-> F(s[i])])

-----------------------------------------------------------------------------
(* packer, on the structs of libusb: the bytes the device itself sends. *)

PackStruct(s, fields) == Each(fields, LAMBDA f : LittleEndian(s[f], Width(f)))

\* An endpoint of an audio device has two more bytes.
PackEndpoint(header) ==
    PackStruct(header, IF header["bLength"] = 9 THEN EndpointFields
                                                ELSE SubSeq(EndpointFields, 1, 6))

\* viu::format::unsafe::vectorize: an array with its length from elsewhere.
Vectorize(array, n) == SubSeq(array, 1, n)

RawEndpoint(e) == PackEndpoint(e.header) \o e.extra
RawInterface(alt) ==
    PackStruct(alt.header, InterfaceFields) \o alt.extra
        \o Each(Vectorize(alt.endpoints, alt.header["bNumEndpoints"]), RawEndpoint)
RawConfig(c) ==
    PackStruct(c.header, ConfigFields) \o c.extra
        \o Each(Vectorize(c.interfaces, c.header["bNumInterfaces"]),
                LAMBDA iface : Each(iface, RawInterface))
RawCap(c) == PackStruct(c.header, CapFields)
                 \o Vectorize(c.data, c.header["bLength"] - Len(CapFields))
RawBos(b) == PackStruct(b.header, BosFields)
                 \o Each(Vectorize(b.caps, b.header["bNumDeviceCaps"]), RawCap)

-----------------------------------------------------------------------------
(* tree::tree, and the strings that usb::device collects for it. *)

BuildInterface(alt) ==
    [alt EXCEPT !.endpoints = Vectorize(@, alt.header["bNumEndpoints"])]
BuildConfig(c) ==
    [c EXCEPT !.interfaces = [i \in 1 .. c.header["bNumInterfaces"] |->
        [a \in DOMAIN c.interfaces[i] |-> BuildInterface(c.interfaces[i][a])]]]

BuildCap(c) == [c EXCEPT !.data = Vectorize(@, c.header["bLength"] - 3)]

\* A device without a BOS descriptor keeps the members' initial values.
BuildBos(bos) ==
    IF bos = <<>> THEN [header |-> [f \in Range(BosFields) |-> 0], caps |-> <<>>]
    ELSE [bos[1] EXCEPT !.caps = [i \in 1 .. bos[1].header["bNumDeviceCaps"] |->
                                      BuildCap(bos[1].caps[i])]]

LangTable(langs) ==
    <<2 + 2 * Len(langs), 3>> \o Each(langs, LAMBDA l : LittleEndian(l, 2))

\* A string descriptor is more than its length and its type.
IsString(s) == Len(s) >= 2 /\ s[1] # 2

\* Planted bug: strings that are not there are passed over.
CollectStringsWithGaps(strings) == SelectSeq(strings, IsString)

\* The strings of a language from 1 up to the first that is not there.
CollectStrings(strings) ==
    LET there == {n \in 0 .. Len(strings) : \A i \in 1 .. n : IsString(strings[i])}
    IN  SubSeq(strings, 1, CHOOSE n \in there : \A m \in there : m <= n)

\* A map from languages, 0 for the table of languages.
StringDescriptors(d) ==
    IF d.langs = <<>> THEN <<>>
    ELSE LET spoken == {l \in Range(d.langs) : CollectStrings(d.strings[l]) # <<>>}
         IN  [l \in spoken \cup {0} |-> IF l = 0 THEN <<LangTable(d.langs)>>
                                        ELSE CollectStrings(d.strings[l])]

Build(d) ==
    [dd |-> d.dd, config |-> BuildConfig(d.config), strings |-> StringDescriptors(d),
     report |-> d.report, bos |-> BuildBos(d.bos)]

-----------------------------------------------------------------------------
(* tree::save. *)

StreamStruct(s, fields) == [i \in DOMAIN fields |-> s[fields[i]]]
StreamVector(v, Elem(_)) == <<Len(v)>> \o Each(v, Elem)
StreamBytes(bytes) == <<Len(bytes)>> \o bytes

StreamEndpoint(e) == StreamStruct(e.header, EndpointFields) \o StreamBytes(e.extra)
StreamInterface(alt) ==
    StreamStruct(alt.header, InterfaceFields)
        \o StreamVector(alt.endpoints, StreamEndpoint) \o StreamBytes(alt.extra)
StreamConfig(c) ==
    StreamStruct(c.header, ConfigFields)
        \o StreamVector(c.interfaces, LAMBDA iface : StreamVector(iface, StreamInterface))
        \o StreamBytes(c.extra)
\* The keys of a std::map in the order of its iterator.
Ascending(keys) ==
    CHOOSE s \in [1 .. Cardinality(keys) -> keys] :
        Range(s) = keys /\ \A i, j \in DOMAIN s : i < j => s[i] < s[j]

StreamStrings(map) ==
    StreamVector(Ascending(DOMAIN map),
                 LAMBDA l : <<l>> \o StreamVector(map[l], StreamBytes))
StreamCap(c) == StreamStruct(c.header, CapFields) \o StreamBytes(c.data)
StreamBos(b) == StreamStruct(b.header, BosFields) \o StreamVector(b.caps, StreamCap)

SaveTree(t) ==
    StreamStruct(t.dd, DeviceFields) \o StreamConfig(t.config)
        \o StreamStrings(t.strings) \o StreamBytes(t.report) \o StreamBos(t.bos)

-----------------------------------------------------------------------------
(* tree::load.  A reader gives the place of the next number and what it    *)
(* has read; the place is 0 once a number could not be read, when          *)
(* lexical_cast throws.                                                    *)

Unlimited == 0

\* Planted bug: at the end of the stream a number keeps its initial value.
ReadNumberOrZero(in, at, width) ==
    IF at > Len(in) THEN [at |-> at, val |-> 0]
    ELSE [at |-> at + 1, val |-> IF width = 1 THEN in[at] % 256 ELSE in[at]]

\* Bytes are read as integers and cut to their width, words are not.
ReadNumber(in, at, width) ==
    IF at = 0 \/ at > Len(in) THEN [at |-> 0, val |-> 0]
    ELSE IF width = 2 /\ in[at] >= WordLimit THEN [at |-> 0, val |-> 0]
    ELSE [at |-> at + 1, val |-> IF width = 1 THEN in[at] % 256 ELSE in[at]]

ReadByte(in, at) == ReadNumber(in, at, 1)

Failed == [at |-> 0, val |-> <<>>]

ReadStruct(in, at, fields) ==
    LET number == [i \in DOMAIN fields |-> ReadNumber(in, at + i - 1, Width(fields[i]))]
    IN  IF at = 0 \/ \E i \in DOMAIN fields : number[i].at = 0 THEN Failed
        ELSE [at |-> at + Len(fields),
              val |-> [f \in Range(fields) |->
                           number[CHOOSE i \in DOMAIN fields : fields[i] = f].val]]

\* elem[p] is what the reader of an element gives at place p.  Every element
\* takes a number at least: a length past the end must fail.
ReadElements(in, at, elem) ==
    LET n == ReadNumber(in, at, Unlimited)
        read[i \in 0 .. n.val] == IF i = 0 THEN n ELSE elem[read[i - 1].at]
    IN  IF n.at = 0 \/ n.val > Len(in) THEN Failed
        ELSE [at |-> read[n.val].at, val |-> [i \in 1 .. n.val |-> read[i].val]]

ReadVector(in, at, Elem(_, _)) == ReadElements(in, at, [p \in Nat |-> Elem(in, p)])
ReadBytes(in, at) == ReadVector(in, at, ReadByte)

ReadEndpoint(in, at) ==
    LET header == ReadStruct(in, at, EndpointFields)
        extra == ReadBytes(in, header.at)
    IN  [at |-> extra.at, val |-> [header |-> header.val, extra |-> extra.val]]

ReadInterface(in, at) ==
    LET header == ReadStruct(in, at, InterfaceFields)
        eps == ReadVector(in, header.at, ReadEndpoint)
        extra == ReadBytes(in, eps.at)
    IN  [at |-> extra.at,
         val |-> [header |-> header.val, extra |-> extra.val, endpoints |-> eps.val]]

ReadUsbInterface(in, at) == ReadVector(in, at, ReadInterface)

ReadConfig(in, at) ==
    LET header == ReadStruct(in, at, ConfigFields)
        ifaces == ReadVector(in, header.at, ReadUsbInterface)
        extra == ReadBytes(in, ifaces.at)
    IN  [at |-> extra.at,
         val |-> [header |-> header.val, extra |-> extra.val, interfaces |-> ifaces.val]]

ReadLang(in, at) ==
    LET id == ReadNumber(in, at, 2)
        strings == ReadVector(in, id.at, ReadBytes)
    IN  [at |-> strings.at, val |-> [lang |-> id.val, strings |-> strings.val]]

\* insert keeps the first entry of a language.
FirstOf(entries, l) ==
    CHOOSE i \in DOMAIN entries :
        entries[i].lang = l /\ \A j \in 1 .. i - 1 : entries[j].lang # l
ReadStrings(in, at) ==
    LET langs == ReadVector(in, at, ReadLang)
    IN  [at |-> langs.at,
         val |-> [l \in {e.lang : e \in Range(langs.val)} |->
                      langs.val[FirstOf(langs.val, l)].strings]]

ReadCap(in, at) ==
    LET header == ReadStruct(in, at, CapFields)
        data == ReadBytes(in, header.at)
    IN  [at |-> data.at, val |-> [header |-> header.val, data |-> data.val]]

ReadBos(in, at) ==
    LET header == ReadStruct(in, at, BosFields)
        caps == ReadVector(in, header.at, ReadCap)
    IN  [at |-> caps.at, val |-> [header |-> header.val, caps |-> caps.val]]

\* The tree, or nothing when load throws.
LoadTree(in) ==
    LET dd == ReadStruct(in, 1, DeviceFields)
        config == ReadConfig(in, dd.at)
        strings == ReadStrings(in, config.at)
        report == ReadBytes(in, strings.at)
        bos == ReadBos(in, report.at)
    IN  IF bos.at = 0 THEN <<>>
        ELSE <<[dd |-> dd.val, config |-> config.val, strings |-> strings.val,
                report |-> report.val, bos |-> bos.val]>>
=============================================================================
