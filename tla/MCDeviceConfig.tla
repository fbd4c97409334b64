---------------------------- MODULE MCDeviceConfig ----------------------------
(* An instance of DeviceConfig for TLC. *)
EXTENDS DeviceConfig

\* Values that tell the fields apart; words need both of their bytes.
Sample(fields, n) ==
    [f \in Range(fields) |->
        LET i == CHOOSE i \in DOMAIN fields : fields[i] = f
        IN  IF Width(f) = 2 THEN 256 * i + n ELSE 12 * i + n]

Endpoint(length, extra) ==
    [header |-> [Sample(EndpointFields, 1) EXCEPT
                    !["bLength"] = length,
                    !["bRefresh"] = IF length = 9 THEN @ ELSE 0,
                    !["bSynchAddress"] = IF length = 9 THEN @ ELSE 0],
     extra |-> extra]

SuperSpeedCompanion == <<6, 48, 2, 0, 16, 4>>
SampleEndpoints == {Endpoint(7, <<>>), Endpoint(7, SuperSpeedCompanion \o <<5>>), Endpoint(9, <<3, 37>>)}

Alt(n, eps, extra) ==
    [header |-> [Sample(InterfaceFields, n) EXCEPT !["bNumEndpoints"] = Len(eps)],
     extra |-> extra, endpoints |-> eps]
Alts == {Alt(1, <<>>, <<>>)}
    \cup {Alt(2, <<e>>, x) : e \in SampleEndpoints, x \in {<<>>, <<9, 33>>}}
    \cup {Alt(3, <<Endpoint(7, <<>>), e>>, <<>>) : e \in SampleEndpoints}

Config(ifaces, extra) ==
    [header |-> [Sample(ConfigFields, 4) EXCEPT !["bNumInterfaces"] = Len(ifaces)],
     extra |-> extra, interfaces |-> ifaces]
SampleConfigs ==
    {Config(<<<<a>>>>, x) : a \in Alts, x \in {<<>>, <<8, 11>>}}
    \cup {Config(<<<<Alt(1, <<>>, <<>>), a>>, <<a>>>>, <<>>) : a \in Alts}

Cap(type, data) ==
    [header |-> [Sample(CapFields, 0) EXCEPT
                    !["bLength"] = 3 + Len(data), !["bDevCapabilityType"] = type],
     data |-> data]
Bos(caps) ==
    <<[header |-> [Sample(BosFields, 2) EXCEPT !["bNumDeviceCaps"] = Len(caps)],
       caps |-> caps]>>
BosChoices == {<<>>, Bos(<<Cap(2, <<14, 1, 0, 2>>), Cap(3, <<1, 15, 2, 1, 10, 244, 1>>)>>),
               Bos(<<Cap(5, <<7, 123>>)>>)}

\* The strings of a language, with all of them, an empty or a missing one.
Text == <<6, 3, 118, 0, 105, 0>>
Umlaut == <<4, 3, 12, 4>>
Empty == <<2, 3>>
StringChoices == {<<>>, <<Text>>, <<Text, Umlaut>>, <<Text, Empty, Umlaut>>, <<<<>>, Text>>}

Languages ==
    {[langs |-> <<>>, strings |-> <<>>]}
    \cup {[langs |-> <<1033>>, strings |-> [l \in {1033} |-> s]] : s \in StringChoices}
    \cup {[langs |-> <<1033, 7>>,
           strings |-> [l \in {7, 1033} |-> IF l = 7 THEN s ELSE <<Umlaut>>]] :
             s \in StringChoices}

DeviceWith(config, bos, l, report) ==
    [dd |-> [Sample(DeviceFields, 5) EXCEPT !["bNumConfigurations"] = 1], config |-> config, bos |-> bos,
     langs |-> l.langs, strings |-> l.strings, report |-> report]

\* Every configuration, and every choice of strings and capabilities.
PlainLanguage == [langs |-> <<1033>>, strings |-> [l \in {1033} |-> <<Text>>]]
PlainConfig == Config(<<<<Alt(1, <<>>, <<>>)>>>>, <<>>)
SampleDevices ==
    {DeviceWith(c, <<>>, PlainLanguage, <<5, 1>>) : c \in SampleConfigs}
    \cup {DeviceWith(PlainConfig, b, l, <<>>) : b \in BosChoices, l \in Languages}

\* A document that says everything; those of the repository, that say nothing of
\* bRefresh and bSynchAddress; and others without the keys of an object, without
\* an object, without the types of the capabilities, and without the lengths or
\* the types of the strings.
SampleOmissions ==
    LET All(kind, fields) == {kind} \X Range(fields)
    IN  {{},
         {"EndpointDescriptor"} \X {"bRefresh", "bSynchAddress"},
         All("DeviceDescriptor", JsonDeviceFields)
             \cup All("ConfigurationDescriptor", JsonConfigFields)
             \cup All("InterfaceDescriptor", JsonInterfaceFields)
             \cup All("EndpointDescriptor", JsonEndpointFields)
             \cup All("BOSDescriptor", JsonBosFields),
         All("EndpointCompanion", CompanionKeys) \cup All("usb2", Usb2Keys)
             \cup All("ss", SsKeys) \cup {<<"StringDescriptor", "bDescriptorType">>},
         {<<"Endpoint", "companion">>, <<"Configuration", "daExtra">>,
          <<"DeviceCap", "bDevCapabilityType">>},
         {<<"Endpoint", "daExtra">>, <<"InterfaceDescriptor", "daExtra">>,
          <<"DeviceCap", "usb2">>, <<"DeviceCap", "daDevCapability">>},
         {<<"StringDescriptor", "bLength">>}}
=============================================================================
