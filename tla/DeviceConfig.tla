----------------------------- MODULE DeviceConfig -----------------------------
(***************************************************************************)
(* The descriptors of a device on their way to a host: viu saves those of  *)
(* a proxied device to a file, a mock loads them from that file, or from a *)
(* JSON document that viu::json::parser turns into the same numbers, and   *)
(* viu::device::proxy answers GET_DESCRIPTOR from the tree of the device   *)
(* or of the mock.                                                         *)
(*                                                                         *)
(* A save may fail to write everything without anyone noticing: save_config *)
(* does not look at the stream, and the process may die.  A document may   *)
(* leave out keys: a number that is not there is read as 0, extra bytes    *)
(* and the data of a capability as none.  Where the parser needs a list or *)
(* an object that is not there, or meets something that is no number, it   *)
(* throws, which from_json only logs: load goes on with what there is.     *)
(*                                                                         *)
(* A device has one configuration and one HID interface: the code answers  *)
(* every index with the configuration in use, and every interface with the *)
(* report descriptor of interface 0.                                       *)
(***************************************************************************)
EXTENDS Descriptors, FiniteSets

CONSTANTS
    Devices,        \* what libusb reports of a device: see IsDevice
    WLengths,       \* lengths that hosts ask for
    Omissions       \* what documents leave out: sets of <<object, key>>

VARIABLES
    device,         \* the device, of Devices
    tree,           \* <<descriptor_tree_>> of the proxied device, or <<>>
    file,           \* the numbers of the file, or of the stream of a document
    origin,         \* how file came about: see Origins
    omitted,        \* what the document left out, of Omissions; {} of a save
    loaded,         \* a mock was asked to load the file
    mock            \* its tree, or <<>> if load threw

vars == <<device, tree, file, origin, omitted, loaded, mock>>

\* A save or document written to its end, one that ends early, a save that ends
\* inside a number, and a document with strings of another length than they
\* say.
Origins == {"none", "whole", "cut", "torn", "garbled"}

\* Members are as wide as libusb's structs make them.
Bytes == 0 .. 255
Structs(fields) ==
    {s \in [Range(fields) -> Nat] :
        \A f \in Range(fields) : s[f] < IF f \in Words THEN WordLimit ELSE 256}

Endpoints == [header : Structs(EndpointFields), extra : Seq(Bytes)]
Alternates ==
    [header : Structs(InterfaceFields), extra : Seq(Bytes), endpoints : Seq(Endpoints)]
Configs ==
    [header : Structs(ConfigFields), extra : Seq(Bytes), interfaces : Seq(Seq(Alternates))]
Caps == [header : Structs(CapFields), data : Seq(Bytes)]
BosSet == [header : Structs(BosFields), caps : Seq(Caps)]

\* The counts of a device announce what is there: libusb fills the arrays its
\* structs describe.
CountedAlternates == {a \in Alternates : a.header["bNumEndpoints"] = Len(a.endpoints)}
CountedConfigs ==
    {c \in Configs : /\ c.interfaces \in Seq(Seq(CountedAlternates))
                     /\ c.header["bNumInterfaces"] = Len(c.interfaces)}
CountedCaps == {c \in Caps : c.header["bLength"] = Len(CapFields) + Len(c.data)}
CountedBosSet ==
    {b \in BosSet : b.caps \in Seq(CountedCaps) /\ b.header["bNumDeviceCaps"] = Len(b.caps)}

\* The table of languages has a byte for its length.
IsDevice(d) ==
    /\ d.dd \in Structs(DeviceFields)
    /\ d.config \in CountedConfigs
    /\ d.bos \in Seq(CountedBosSet) /\ Len(d.bos) \in 0 .. 1
    /\ d.report \in Seq(Bytes)
    /\ d.langs \in Seq(1 .. WordLimit - 1) /\ Len(d.langs) \in 0 .. 126
    /\ DOMAIN d.strings = Range(d.langs)
    /\ \A l \in Range(d.langs) : d.strings[l] \in Seq(Seq(Bytes))

ASSUME DevicesAssumption == \A d \in Devices : IsDevice(d)
ASSUME WLengthsAssumption == WLengths \subseteq Nat

IsTree(t) ==
    /\ t.dd \in Structs(DeviceFields)
    /\ t.config \in Configs
    /\ t.bos \in BosSet
    /\ t.report \in Seq(Bytes)
    /\ \A l \in DOMAIN t.strings : t.strings[l] \in Seq(Seq(Bytes))

Aligned == origin \notin {"torn", "garbled"}

TypeOK ==
    /\ device \in Devices
    /\ tree # <<>> => tree = <<tree[1]>> /\ IsTree(tree[1])
    /\ file \in Seq(Nat)
    /\ origin \in Origins
    /\ omitted \in Omissions \cup {{}}
    /\ loaded \in BOOLEAN
    /\ mock # <<>> => mock = <<mock[1]>> /\ (Aligned => IsTree(mock[1]))

-----------------------------------------------------------------------------
(* A document that describes the tree t but leaves out the keys o, as far  *)
(* as its form matters: an endpoint companion and two kinds of             *)
(* capabilities are spelled out, and a string is a text or a list of       *)
(* bytes.  A key that is left out of an object is left out of all of its   *)
(* kind.                                                                   *)

Without(obj, kind, o) == Restrict(obj, {f \in DOMAIN obj : <<kind, f>> \notin o})

Word(low, high) == low + 256 * high

DocExtra(x, kind, o) == Without([daExtra |-> x], kind, o)
DocEndpointExtra(x, o) ==
    IF Len(x) < 6 THEN DocExtra(x, "Endpoint", o)
    ELSE Without([companion |->
                      Without([bLength |-> x[1], bDescriptorType |-> x[2], bMaxBurst |-> x[3],
                               bmAttributes |-> x[4], wBytesPerInterval |-> Word(x[5], x[6])],
                              "EndpointCompanion", o),
                  daExtra |-> SubSeq(x, 7, Len(x))],
                 "Endpoint", o)

\* The document says iSerial where the struct says iSerialNumber.
DocDevice(dd, o) ==
    Without([f \in (DOMAIN dd \ {"iSerialNumber"}) \cup {"iSerial"} |->
                 IF f = "iSerial" THEN dd["iSerialNumber"] ELSE dd[f]],
            "DeviceDescriptor", o)

DocString(s, o) ==
    LET n == (Len(s) - 2) \div 2
        head == Without([bLength |-> s[1], bDescriptorType |-> s[2]], "StringDescriptor", o)
    IN  IF Len(s) % 2 = 0 /\ \A i \in 1 .. n : s[2 * i + 2] = 0
        THEN [head |-> head, text |-> [i \in 1 .. n |-> s[2 * i + 1]]]
        ELSE [head |-> head, array |-> SubSeq(s, 3, Len(s))]

CapForm(c) ==
    CASE c.header["bDevCapabilityType"] = 2 /\ Len(c.data) = 4 -> "usb2"
      [] c.header["bDevCapabilityType"] = 3 /\ Len(c.data) = 7 -> "ss"
      [] OTHER -> "daDevCapability"
DocCapBody(c, o) ==
    LET d == c.data
    IN  CASE CapForm(c) = "usb2" ->
               Without([bmAttributes |-> Word(Word(d[1], d[2]), 256 * Word(d[3], d[4]))],
                       "usb2", o)
          [] CapForm(c) = "ss" ->
               Without([bmAttributes |-> d[1], wSpeedSupported |-> Word(d[2], d[3]),
                        bFunctionalitySupport |-> d[4], bU1DevExitLat |-> d[5],
                        bU2DevExitLat |-> Word(d[6], d[7])],
                       "ss", o)
          [] OTHER -> d
DocCap(c, o) ==
    [header |-> Without(c.header, "DeviceCap", o),
     body |-> Without([f \in {CapForm(c)} |-> DocCapBody(c, o)], "DeviceCap", o)]

-----------------------------------------------------------------------------
(* viu::json::parser: the numbers it writes for the parts of a document. *)

JsonDeviceFields == <<"bLength", "bDescriptorType", "bcdUSB", "bDeviceClass",
    "bDeviceSubClass", "bDeviceProtocol", "bMaxPacketSize0", "idVendor", "idProduct",
    "bcdDevice", "iManufacturer", "iProduct", "iSerial", "bNumConfigurations">>
JsonConfigFields == <<"bLength", "bDescriptorType", "wTotalLength", "bNumInterfaces",
    "bConfigurationValue", "iConfiguration", "bmAttributes", "MaxPower">>
JsonInterfaceFields == <<"bLength", "bDescriptorType", "bInterfaceNumber",
    "bAlternateSetting", "bNumEndpoints", "bInterfaceClass", "bInterfaceSubClass",
    "bInterfaceProtocol", "iInterface">>
JsonEndpointFields == <<"bLength", "bDescriptorType", "bEndpointAddress", "bmAttributes",
    "wMaxPacketSize", "bInterval", "bRefresh", "bSynchAddress">>
JsonBosFields == <<"bLength", "bDescriptorType", "wTotalLength", "bNumDeviceCaps">>
JsonCapFields == <<"bLength", "bDescriptorType", "bDevCapabilityType">>

ReadU32(obj, key) == IF key \in DOMAIN obj THEN obj[key] ELSE 0
JsonStruct(obj, fields) == [i \in DOMAIN fields |-> ReadU32(obj, fields[i])]

Low(v) == v % 256
High(v) == (v \div 256) % 256

\* Planted bug: the bytes of a word in the wrong order.
CompanionBigEndian(ec) ==
    LET bytes == ReadU32(ec, "wBytesPerInterval")
    IN  <<ReadU32(ec, "bLength"), ReadU32(ec, "bDescriptorType"), ReadU32(ec, "bMaxBurst"),
          ReadU32(ec, "bmAttributes"), High(bytes), Low(bytes)>>

Companion(ec) ==
    LET bytes == ReadU32(ec, "wBytesPerInterval")
    IN  <<ReadU32(ec, "bLength"), ReadU32(ec, "bDescriptorType"), ReadU32(ec, "bMaxBurst"),
          ReadU32(ec, "bmAttributes"), Low(bytes), High(bytes)>>

\* A companion is counted as six numbers.
BuildExtra(doc) ==
    LET extra == IF "daExtra" \in DOMAIN doc THEN doc["daExtra"] ELSE <<>>
    IN  IF "companion" \in DOMAIN doc
        THEN <<6 + Len(extra)>> \o (Companion(doc["companion"]) \o extra)
        ELSE StreamBytes(extra)

JsonEndpoint(e, o) ==
    JsonStruct(Without(e.header, "EndpointDescriptor", o), JsonEndpointFields)
        \o BuildExtra(DocEndpointExtra(e.extra, o))
JsonInterface(alt, o) ==
    JsonStruct(Without(alt.header, "InterfaceDescriptor", o), JsonInterfaceFields)
        \o StreamVector(alt.endpoints, LAMBDA e : JsonEndpoint(e, o))
        \o BuildExtra(DocExtra(alt.extra, "InterfaceDescriptor", o))
JsonConfiguration(c, o) ==
    JsonStruct(Without(c.header, "ConfigurationDescriptor", o), JsonConfigFields)
        \o StreamVector(c.interfaces,
               LAMBDA iface : StreamVector(iface, LAMBDA alt : JsonInterface(alt, o)))
        \o BuildExtra(DocExtra(c.extra, "Configuration", o))

\* bLength is taken for the number of bytes, and is the first of them.
JsonString(doc) ==
    LET length == ReadU32(doc.head, "bLength")
    IN  <<length, length, ReadU32(doc.head, "bDescriptorType")>>
            \o IF "text" \in DOMAIN doc THEN Each(doc.text, LAMBDA c : <<c, 0>>)
               ELSE doc.array
JsonStrings(map, o) ==
    StreamVector(Ascending(DOMAIN map),
                 LAMBDA l : <<l>> \o StreamVector(map[l], LAMBDA s : JsonString(DocString(s, o))))

\* The data of a capability is spelled out by the object for its type.
JsonCap(doc) ==
    LET type == ReadU32(doc.header, "bDevCapabilityType")
        body == doc.body
        usb2 == ReadU32(body["usb2"], "bmAttributes")
        ss(key) == ReadU32(body["ss"], key)
    IN  JsonStruct(doc.header, JsonCapFields)
        \o (IF type = 2 /\ "usb2" \in DOMAIN body
            THEN <<4, Low(usb2), High(usb2), High(usb2 \div 256), High(usb2 \div 65536)>>
            ELSE IF type = 3 /\ "ss" \in DOMAIN body
            THEN <<7, Low(ss("bmAttributes")), Low(ss("wSpeedSupported")),
                   High(ss("wSpeedSupported")), Low(ss("bFunctionalitySupport")),
                   Low(ss("bU1DevExitLat")), Low(ss("bU2DevExitLat")), High(ss("bU2DevExitLat"))>>
            ELSE IF "daDevCapability" \in DOMAIN body
            THEN StreamBytes(body["daDevCapability"])
            ELSE <<0>>)
JsonBos(b, o) ==
    JsonStruct(Without(b.header, "BOSDescriptor", o), JsonBosFields)
        \o StreamVector(b.caps, LAMBDA c : JsonCap(DocCap(c, o)))

JsonDescriptor(t, o) ==
    JsonStruct(DocDevice(t.dd, o), JsonDeviceFields) \o JsonConfiguration(t.config, o)
        \o JsonStrings(t.strings, o) \o StreamBytes(t.report) \o JsonBos(t.bos, o)

-----------------------------------------------------------------------------
(* basic_descriptor::pack, and what proxy::descriptor answers from a tree. *)

TreeEndpoint(e) == PackEndpoint(e.header) \o e.extra

TreeInterface(alt) ==
    PackStruct(alt.header, InterfaceFields) \o alt.extra \o Each(alt.endpoints, TreeEndpoint)
TreeConfig(c) ==
    PackStruct(c.header, ConfigFields) \o c.extra
        \o Each(c.interfaces, LAMBDA iface : Each(iface, TreeInterface))
TreeBos(b) ==
    PackStruct(b.header, BosFields)
        \o Each(b.caps, LAMBDA c : PackStruct(c.header, CapFields) \o c.data)

PackDevice(t) == PackStruct(t.dd, DeviceFields) \o TreeConfig(t.config)

PackString(t, lang, index) ==
    IF lang \notin DOMAIN t.strings \/ index > Len(t.strings[lang]) THEN <<>>
    ELSE t.strings[lang][IF index = 0 THEN 1 ELSE index]

Truncate(data, n) == SubSeq(data, 1, IF n < Len(data) THEN n ELSE Len(data))

\* The reply to a GET_DESCRIPTOR q; a status other than 0 is a stall.
Descriptor(t, q) ==
    LET data == CASE q.type = "device" -> PackDevice(t)
                  [] q.type = "config" -> TreeConfig(t.config)
                  [] q.type = "string" -> PackString(t, q.lang, q.index)
                  [] q.type = "bos" -> TreeBos(t.bos)
                  [] q.type = "report" -> t.report
    IN  [status |-> IF data = <<>> THEN 1 ELSE 0, data |-> Truncate(data, q.wLength)]

\* What the device itself answers.
DeviceString(lang, index) ==
    IF index = 0 THEN IF device.langs = <<>> THEN <<>> ELSE LangTable(device.langs)
    ELSE IF lang \in Range(device.langs) /\ index <= Len(device.strings[lang])
    THEN device.strings[lang][index] ELSE <<>>

DeviceAnswer(q) ==
    Truncate(CASE q.type = "device" -> PackStruct(device.dd, DeviceFields)
               [] q.type = "config" -> RawConfig(device.config)
               [] q.type = "string" -> DeviceString(q.lang, q.index)
               [] q.type = "bos" -> Each(device.bos, RawBos)
               [] q.type = "report" -> device.report,
             q.wLength)

\* Hosts ask for the table of languages with language 0, and for strings with
\* a language of the table.
Asked == {<<0, 0>>} \cup (Range(device.langs) \X (1 .. 3))
Requests ==
    [type : {"device", "config", "bos", "report"}, lang : {0}, index : {0}, wLength : WLengths]
    \cup {[type |-> "string", lang |-> a[1], index |-> a[2], wLength |-> n] :
             a \in Asked, n \in WLengths}

-----------------------------------------------------------------------------
(* What a document about t stands for that leaves out the keys o: t with 0 *)
(* for every number, and nothing for all the bytes, that it does not give. *)

Shown(s, kind, o) == [f \in DOMAIN s |-> IF <<kind, f>> \in o THEN 0 ELSE s[f]]

\* keys[i] is the key that gives the i-th byte.
ShownBytes(bytes, kind, keys, o) ==
    [i \in DOMAIN bytes |-> IF <<kind, keys[i]>> \in o THEN 0 ELSE bytes[i]]
CompanionKeys == <<"bLength", "bDescriptorType", "bMaxBurst", "bmAttributes",
                   "wBytesPerInterval", "wBytesPerInterval">>
Usb2Keys == <<"bmAttributes", "bmAttributes", "bmAttributes", "bmAttributes">>
SsKeys == <<"bmAttributes", "wSpeedSupported", "wSpeedSupported", "bFunctionalitySupport",
            "bU1DevExitLat", "bU2DevExitLat", "bU2DevExitLat">>

ShownDevice(dd, o) ==
    [f \in DOMAIN dd |->
        IF <<"DeviceDescriptor", IF f = "iSerialNumber" THEN "iSerial" ELSE f>> \in o
        THEN 0 ELSE dd[f]]

ShownExtra(x, kind, o) == IF <<kind, "daExtra">> \in o THEN <<>> ELSE x
ShownEndpointExtra(x, o) ==
    IF Len(x) < 6 THEN ShownExtra(x, "Endpoint", o)
    ELSE (IF <<"Endpoint", "companion">> \in o THEN <<>>
          ELSE ShownBytes(SubSeq(x, 1, 6), "EndpointCompanion", CompanionKeys, o))
         \o ShownExtra(SubSeq(x, 7, Len(x)), "Endpoint", o)
ShownEndpoint(e, o) ==
    [header |-> Shown(e.header, "EndpointDescriptor", o),
     extra |-> ShownEndpointExtra(e.extra, o)]
ShownInterface(alt, o) ==
    [header |-> Shown(alt.header, "InterfaceDescriptor", o),
     extra |-> ShownExtra(alt.extra, "InterfaceDescriptor", o),
     endpoints |-> [i \in DOMAIN alt.endpoints |-> ShownEndpoint(alt.endpoints[i], o)]]
ShownConfig(c, o) ==
    [header |-> Shown(c.header, "ConfigurationDescriptor", o),
     extra |-> ShownExtra(c.extra, "Configuration", o),
     interfaces |-> [i \in DOMAIN c.interfaces |->
         [a \in DOMAIN c.interfaces[i] |-> ShownInterface(c.interfaces[i][a], o)]]]

\* The object for a type is not looked at without the type.
ShownCapData(c, o) ==
    LET form == CapForm(c)
    IN  IF \/ <<"DeviceCap", form>> \in o
           \/ form # "daDevCapability" /\ <<"DeviceCap", "bDevCapabilityType">> \in o
        THEN <<>>
        ELSE CASE form = "usb2" -> ShownBytes(c.data, form, Usb2Keys, o)
               [] form = "ss" -> ShownBytes(c.data, form, SsKeys, o)
               [] OTHER -> c.data
ShownCap(c, o) ==
    [header |-> Shown(c.header, "DeviceCap", o), data |-> ShownCapData(c, o)]
ShownBos(b, o) ==
    [header |-> Shown(b.header, "BOSDescriptor", o),
     caps |-> [i \in DOMAIN b.caps |-> ShownCap(b.caps[i], o)]]

ShownString(s, o) ==
    IF <<"StringDescriptor", "bDescriptorType">> \in o THEN [s EXCEPT ![2] = 0] ELSE s

ShownTree(t, o) ==
    [dd |-> ShownDevice(t.dd, o), config |-> ShownConfig(t.config, o),
     strings |-> [l \in DOMAIN t.strings |->
         [i \in DOMAIN t.strings[l] |-> ShownString(t.strings[l][i], o)]],
     report |-> t.report, bos |-> ShownBos(t.bos, o)]

-----------------------------------------------------------------------------
(* Steps. *)

\* device::device reads the descriptors of the device it has opened.
Open ==
    /\ tree = <<>>
    /\ tree' = <<Build(device)>>
    /\ UNCHANGED <<device, file, origin, omitted, loaded, mock>>

\* Opening the file has emptied it.  All of the numbers get there, or the
\* first k of them.
Save ==
    /\ tree # <<>>
    /\ origin = "none"
    /\ LET all == SaveTree(tree[1])
       IN  \E k \in 0 .. Len(all) :
               /\ file' = SubSeq(all, 1, k)
               /\ origin' = IF k = Len(all) THEN "whole" ELSE "cut"
    /\ UNCHANGED <<device, tree, omitted, loaded, mock>>

\* Of the last number only the first digits get there.
SaveTorn ==
    /\ tree # <<>>
    /\ origin = "none"
    /\ LET all == SaveTree(tree[1])
       IN  \E k \in DOMAIN all, power \in {10, 100, 1000} :
               /\ all[k] >= power
               /\ file' = Append(SubSeq(all, 1, k - 1), all[k] \div power)
    /\ origin' = "torn"
    /\ UNCHANGED <<device, tree, omitted, loaded, mock>>

\* The parser believes the bLength of a string: the numbers are where load
\* expects them if the strings are as long as the document says.
Describable(t, o) ==
    \A l \in DOMAIN t.strings : \A s \in Range(t.strings[l]) :
        s[1] = Len(s) /\ <<"StringDescriptor", "bLength">> \notin o

\* A document about the device without the keys o, with a fault behind its first
\* k numbers or without any.
WriteDocument ==
    /\ origin = "none"
    /\ \E o \in Omissions :
           LET all == JsonDescriptor(Build(device), o)
           IN  \E k \in 0 .. Len(all) :
                   /\ file' = SubSeq(all, 1, k)
                   /\ origin' = IF ~Describable(Build(device), o) THEN "garbled"
                                ELSE IF k = Len(all) THEN "whole" ELSE "cut"
                   /\ omitted' = o
    /\ UNCHANGED <<device, tree, loaded, mock>>

Load ==
    /\ origin # "none"
    /\ ~loaded
    /\ loaded' = TRUE
    /\ mock' = LoadTree(file)
    /\ UNCHANGED <<device, tree, file, origin, omitted>>

Init ==
    /\ device \in Devices
    /\ tree = <<>>
    /\ file = <<>>
    /\ origin = "none"
    /\ omitted = {}
    /\ loaded = FALSE
    /\ mock = <<>>

Next == Open \/ Save \/ SaveTorn \/ WriteDocument \/ Load

Spec == Init /\ [][Next]_vars

-----------------------------------------------------------------------------
(* Properties. *)

\* What viu answers for a proxied device is what the device would answer: the
\* descriptors go through libusb's structs and the tree, and every byte comes
\* out where it was.  A device descriptor is followed by more if the host asks
\* for more.  Strings behind one that is missing or empty are lost, and a
\* request the device stalls may be answered.
AnswersOfTheDevice ==
    tree # <<>> =>
        \A q \in Requests :
            LET own == DeviceAnswer(q)
                reply == Descriptor(tree[1], q)
            IN  CASE q.type = "device" -> Truncate(reply.data, Len(own)) = own
                  [] q.type = "string" /\ q.index > 0 ->
                       \/ reply.data = own
                       \/ /\ reply.data = <<>>
                          /\ \E i \in 1 .. q.index :
                                 ~IsString(DeviceString(q.lang, i))
                  [] OTHER -> own # <<>> => reply.data = own

\* A mock that was given the file of a device, or a document that says all
\* about it, cannot be told from the device behind the proxy.  Given a document
\* that leaves out keys it is the device with 0, or no bytes, for what is left
\* out, and as the device everywhere else.  Exempt are a file that ends inside
\* its last number, whose first digits are taken for the number, and a document
\* whose strings have another length than they say.
MockIsDevice ==
    mock # <<>> /\ Aligned =>
        LET own == Build(device)
            shown == ShownTree(own, omitted)
        IN  \A q \in Requests :
                /\ Descriptor(mock[1], q) = Descriptor(shown, q)
                /\ omitted = {} => Descriptor(mock[1], q) = Descriptor(own, q)

\* load takes a file or the numbers of a document if and only if the writer got
\* to the end; keys that the parser reads as 0 or as no bytes do not count.
\* Nothing but running out of numbers tells load that some are missing, so that
\* every length must be where it expects it.
WholeOrRefused ==
    loaded /\ Aligned => (mock # <<>> <=> origin = "whole")
=============================================================================
