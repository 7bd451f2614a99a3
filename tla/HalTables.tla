----------------------------- MODULE HalTables -----------------------------
(***************************************************************************)
(* The tables of xdsl_hal.c and of the data-model getters.  A reply of the *)
(* driver is a list of parameters with full path names; the client tests   *)
(* each name against a fixed chain of keys with strstr, and the first key  *)
(* that occurs in the name decides where its value is stored.  A getter    *)
(* then hands out the field of the parameter it is asked for.              *)
(*                                                                         *)
(* A name is the path below the object without "Stats.":  <<"LastChange">> *)
(* or <<"CurrentDay", "ErroredSecs">>.  A test inside the branch of a key  *)
(* that it contains ("Discard..." under "PacketsSent") is a key before it. *)
(***************************************************************************)
EXTENDS Integers, Sequences

Each(strings) == [i \in 1..Len(strings) |-> <<strings[i]>>]

\* The counters of an interval.
Under(interval, counters) ==
    [i \in 1..Len(counters) |-> <<interval, counters[i]>>]

SetOf(s) == {s[i] : i \in 1..Len(s)}

----------------------------------------------------------------------------
(* The chains of keys, in the order of the tests.                          *)

LineNumberKeys == Each(<<
    "LinkStatus", "Status", "LastChange", "PowerManagementState",
    "UpstreamMaxBitRate", "DownstreamMaxBitRate", "SuccessFailureCause",
    "RXTHRSHds", "ACTRAMODEds", "ACTRAMODEus", "ACTINPROCds", "ACTINPROCus",
    "SNRMROCds", "SNRMROCus", "LastStateTransmittedDownstream",
    "LastStateTransmittedUpstream", "UPBOKLER", "UPBOKLE", "LIMITMASK",
    "US0MASK", "UpstreamAttenuation", "DownstreamAttenuation",
    "UpstreamNoiseMargin", "DownstreamNoiseMargin", "UpstreamPower",
    "DownstreamPower", "LineEncoding", "TRELLISds", "TRELLISus",
    "ACTSNRMODEds", "ACTSNRMODEus", "ACTUALCE", "LineNumber" >>)

LineOtherKeys == Each(<<
    "INMIATOds", "INMIATSds", "INMCCds", "INMINPEQMODEds", "XTURANSIStd",
    "XTURANSIRev", "XTUCANSIStd", "XTUCANSIRev", "CurrentProfile",
    "AllowedProfiles", "FirmwareVersion", "StandardUsed", "SNRMpbus",
    "SNRMpbds", "XTURVendor", "XTURCountry", "XTUCVendor", "XTUCCountry",
    "UPBOKLEPb", "UPBOKLERPb", "XTSE", "XTSUsed", "MREFPSDds", "MREFPSDus",
    "VirtualNoisePSDds", "VirtualNoisePSDus" >>)

TrafficKeys == Each(<<
    "BytesSent", "BytesReceived", "DiscardPacketsSent", "PacketsSent",
    "DiscardPacketsReceived", "PacketsReceived", "ErrorsSent",
    "ErrorsReceived", "TotalStart", "ShowtimeStart", "LastShowtimeStart",
    "QuarterHourStart", "CurrentDayStart" >>)

Seconds == <<"ErroredSecs", "SeverelyErroredSecs">>

\* The counters of the four sums.
SumKeys(counters) ==
    (Under("Total", counters) \o Under("Showtime", counters))
    \o (Under("LastShowtime", counters) \o Under("CurrentDay", counters))

\* The second test stands for the quarter hour.
RetrainKeys == << <<"CurrentDay", "X_RDK_LinkRetrain">>, <<"X_RDK_LinkRetrain">> >>

LineStatsKeys ==
    (TrafficKeys \o SumKeys(Seconds))
    \o (RetrainKeys
        \o (Under("CurrentDay", <<"X_RDK_InitErrors", "X_RDK_InitTimeouts",
                                  "X_RDK_SuccessfulRetrains">>)
            \o Under("QuarterHour", Seconds)))

ChannelInfoKeys == Each(<<
    "Status", "LastChange", "LPATH", "INTLVDEPTH", "INTLVBLOCK",
    "ActualInterleavingDelay", "ACTINP", "INPREPORT", "NFEC", "RFEC",
    "LSYMB", "UpstreamCurrRate", "DownstreamCurrRate", "ACTNDR",
    "ACTINPREIN", "LinkEncapsulationSupported", "LinkEncapsulationUsed" >>)

Errors == <<"XTURFECErrors", "XTUCFECErrors", "XTURHECErrors",
            "XTUCHECErrors", "XTURCRCErrors", "XTUCCRCErrors">>

ChannelStatsKeys ==
    (TrafficKeys \o SumKeys(Errors))
    \o (RetrainKeys
        \o (Under("CurrentDay", <<"X_RDK_InitErrors", "X_RDK_InitTimeouts",
                                  "X_RDK_SeverelyErroredSecs",
                                  "X_RDK_ErroredSecs">>)
            \o Under("QuarterHour", Errors)))

PtmStatsKeys == Each(<<
    "BytesSent", "BytesReceived", "UnicastPacketsSent",
    "DiscardPacketsSent", "MulticastPacketsSent", "BroadcastPacketsSent",
    "PacketsSent", "UnicastPacketsReceived", "DiscardPacketsReceived",
    "MulticastPacketsReceived", "BroadcastPacketsReceived",
    "UnknownProtoPacketsReceived", "PacketsReceived", "ErrorsSent",
    "ErrorsReceived" >>)

AtmStatsKeys == PtmStatsKeys

Keys(obj, part) ==
    CASE obj = "Line" /\ part = "info" -> LineNumberKeys \o LineOtherKeys
      [] obj = "Line" /\ part = "stats" -> LineStatsKeys
      [] obj = "Channel" /\ part = "info" -> ChannelInfoKeys
      [] obj = "Channel" /\ part = "stats" -> ChannelStatsKeys
      [] obj = "PTM" -> PtmStatsKeys
      [] obj = "ATM" -> AtmStatsKeys

----------------------------------------------------------------------------
(* strstr on these names: the pairs of a key and a longer name that it     *)
(* occurs in.  The keys of the line's intervals begin with "Stats.", so    *)
(* "Showtime" does not occur in "LastShowtime" there; those of the channel *)
(* do not.                                                                 *)

OccursIn ==
    { << <<"Status">>, <<"LinkStatus">> >>,
      << <<"UPBOKLER">>, <<"UPBOKLERPb">> >>,
      << <<"UPBOKLE">>, <<"UPBOKLER">> >>,
      << <<"UPBOKLE">>, <<"UPBOKLEPb">> >>,
      << <<"UPBOKLE">>, <<"UPBOKLERPb">> >>,
      << <<"ACTINP">>, <<"ACTINPREIN">> >>,
      << <<"ShowtimeStart">>, <<"LastShowtimeStart">> >> }
    \union
    { << <<"PacketsSent">>, <<n>> >> : n \in
        {"DiscardPacketsSent", "UnicastPacketsSent", "MulticastPacketsSent",
         "BroadcastPacketsSent"} }
    \union
    { << <<"PacketsReceived">>, <<n>> >> : n \in
        {"DiscardPacketsReceived", "UnicastPacketsReceived",
         "MulticastPacketsReceived", "BroadcastPacketsReceived",
         "UnknownProtoPacketsReceived"} }
    \union
    { << <<"X_RDK_LinkRetrain">>, <<i, "X_RDK_LinkRetrain">> >> : i \in
        {"CurrentDay", "QuarterHour"} }
    \union
    { << <<"Showtime", c>>, <<"LastShowtime", c>> >> : c \in SetOf(Errors) }

Matches(key, name) == key = name \/ <<key, name>> \in OccursIn

\* The parameters that are reported; most of them have a key.
Names(obj, part) ==
    {IF key = <<"X_RDK_LinkRetrain">> THEN <<"QuarterHour", key[1]>> ELSE key :
        key \in SetOf(Keys(obj, part))}
    \union
    CASE part = "info" -> {<<"Name">>}
      [] obj = "ATM" -> {<<"TransmittedBlocks">>, <<"ReceivedBlocks">>,
                          <<"CRCErrors">>, <<"HECErrors">>}
      [] OTHER -> {}

----------------------------------------------------------------------------
(* The getters of the data model: the parameters each one serves.          *)

LineBools == SetOf(Each(<<"Enable", "EnableDataGathering", "Upstream">>))

LineModeTexts == SetOf(Each(<<
    "Alias", "Name", "LowerLayers", "StandardsSupported", "StandardUsed",
    "AllowedProfiles", "CurrentProfile", "SNRMpbus", "SNRMpbds" >>))

LineVendorTexts == SetOf(Each(<<
    "FirmwareVersion", "XTURVendor", "XTUCVendor", "XTURCountry",
    "XTUCCountry", "UPBOKLEPb", "UPBOKLERPb", "XTSE", "XTSUsed",
    "MREFPSDds", "MREFPSDus", "VirtualNoisePSDds", "VirtualNoisePSDus" >>))

LineStateUlongs == SetOf(Each(<<
    "Status", "LastChange", "LinkStatus", "UpstreamMaxBitRate",
    "DownstreamMaxBitRate", "X_RDK_WanStatus", "LineEncoding", "INMIATOds",
    "INMIATSds", "INMCCds", "PowerManagementState", "ACTSNRMODEds",
    "ACTSNRMODEus", "ACTUALCE", "XTURANSIStd", "XTURANSIRev",
    "XTUCANSIStd", "XTUCANSIRev", "SuccessFailureCause" >>))

LineModeUlongs == SetOf(Each(<<
    "UPBOKLE", "UPBOKLER", "ACTRAMODEds", "ACTRAMODEus", "ACTINPROCds",
    "ACTINPROCus", "SNRMROCds", "SNRMROCus",
    "LastStateTransmittedDownstream", "LastStateTransmittedUpstream",
    "LIMITMASK", "US0MASK" >>))

LineInts == SetOf(Each(<<
    "UpstreamAttenuation", "UpstreamNoiseMargin", "UpstreamPower",
    "TRELLISds", "TRELLISus", "LineNumber", "INMINPEQMODEds",
    "DownstreamAttenuation", "DownstreamNoiseMargin", "DownstreamPower",
    "RXTHRSHds" >>))

LineStatsUlongs == SetOf(TrafficKeys)
LineTotal == SetOf(Under("Total", Seconds))
LineShowtime == SetOf(Under("Showtime", Seconds))
LineLastShowtime == SetOf(Under("LastShowtime", Seconds))
LineCurrentDay == SetOf(Under("CurrentDay",
    Seconds \o <<"X_RDK_LinkRetrain", "X_RDK_InitErrors",
                 "X_RDK_InitTimeouts", "X_RDK_SuccessfulRetrains">>))
LineQuarterHour == SetOf(Under("QuarterHour",
    Seconds \o <<"X_RDK_LinkRetrain">>))

ChannelBools == SetOf(Each(<<"Enable", "INPREPORT">>))
ChannelInts == SetOf(Each(<<"INTLVBLOCK", "ACTINP", "NFEC", "RFEC", "LSYMB">>))
ChannelUlongs == SetOf(Each(<<
    "Status", "LastChange", "LPATH", "INTLVDEPTH",
    "ActualInterleavingDelay", "UpstreamCurrRate", "DownstreamCurrRate",
    "ACTNDR", "ACTINPREIN" >>))
ChannelTexts == SetOf(Each(<<
    "Alias", "LowerLayers", "Name", "LinkEncapsulationSupported",
    "LinkEncapsulationUsed" >>))

ChannelStatsUlongs == SetOf(TrafficKeys)
ChannelTotal == SetOf(Under("Total", Errors))
ChannelShowTime == SetOf(Under("Showtime", Errors))
ChannelLastShowTime == SetOf(Under("LastShowtime", Errors))
ChannelCurrentDay == SetOf(Under("CurrentDay",
    Errors \o <<"X_RDK_LinkRetrain", "X_RDK_InitErrors",
                "X_RDK_InitTimeouts", "X_RDK_SeverelyErroredSecs",
                "X_RDK_ErroredSecs">>))
ChannelQuarterHour == SetOf(Under("QuarterHour",
    Errors \o <<"X_RDK_LinkRetrain">>))

PTMLinkStats == SetOf(PtmStatsKeys)
ATMLinkStats ==
    SetOf(AtmStatsKeys \o Each(<<"TransmittedBlocks", "ReceivedBlocks",
                                 "CRCErrors", "HECErrors">>))

Params(obj, part) ==
    CASE obj = "Line" /\ part = "info" ->
            LineBools \union LineModeTexts \union LineVendorTexts
            \union LineStateUlongs \union LineModeUlongs \union LineInts
      [] obj = "Line" /\ part = "stats" ->
            LineStatsUlongs \union LineTotal \union LineShowtime
            \union LineLastShowtime \union LineCurrentDay
            \union LineQuarterHour
      [] obj = "Channel" /\ part = "info" ->
            ChannelBools \union ChannelInts \union ChannelUlongs
            \union ChannelTexts
      [] obj = "Channel" /\ part = "stats" ->
            ChannelStatsUlongs \union ChannelTotal \union ChannelShowTime
            \union ChannelLastShowTime \union ChannelCurrentDay
            \union ChannelQuarterHour
      [] obj = "PTM" -> PTMLinkStats
      [] obj = "ATM" -> ATMLinkStats

\* The field a getter hands out; two of them read the wrong one.
HandedOut(obj, name) ==
    CASE obj = "Line" /\ name = <<"DownstreamAttenuation">> -> <<"TRELLISus">>
      [] obj \in {"Line", "Channel"} /\ name = <<"BytesReceived">> ->
            <<"BytesSent">>
      [] OTHER -> name

----------------------------------------------------------------------------
(* The DSL report: what it takes from the replies about the first line and *)
(* its first channel, and what the avro encoder writes of it.              *)

ReportData(obj, part) ==
    CASE obj = "Line" /\ part = "info" ->
            SetOf(Each(<<"StandardUsed", "DownstreamAttenuation",
                "DownstreamMaxBitRate", "DownstreamNoiseMargin",
                "DownstreamPower", "UpstreamAttenuation",
                "UpstreamMaxBitRate", "UpstreamNoiseMargin", "Upstream",
                "UpstreamPower", "AllowedProfiles", "CurrentProfile">>))
      [] obj = "Line" /\ part = "stats" ->
            SetOf(Each(<<"TotalStart", "QuarterHourStart">>)
                  \o Under("CurrentDay", Seconds))
      [] obj = "Channel" /\ part = "info" ->
            SetOf(Each(<<"DownstreamCurrRate", "UpstreamCurrRate">>))
      [] obj = "Channel" /\ part = "stats" ->
            SetOf(Each(<<"CurrentDayStart">>)
                  \o Under("QuarterHour", <<"XTUCCRCErrors", "XTURCRCErrors">>)
                  \o Under("CurrentDay", Errors))
      [] OTHER -> {}

EncodedFirst ==
    SetOf(Each(<<"XTSUsed", "DownstreamCurrRate", "UpstreamCurrRate",
                 "CurrentDayStart", "StandardUsed", "DownstreamAttenuation",
                 "DownstreamMaxBitRate", "DownstreamNoiseMargin",
                 "DownstreamPower">>)
          \o << <<"QuarterHour", "XTUCCRCErrors">>,
                <<"CurrentDay", "XTURCRCErrors">>,
                <<"QuarterHour", "XTURCRCErrors">> >>)

EncodedCurrentDay ==
    SetOf(Under("CurrentDay",
        Seconds \o <<"XTUCCRCErrors", "XTUCFECErrors", "XTUCHECErrors",
                     "XTURFECErrors", "XTURHECErrors">>))

EncodedLast ==
    SetOf(Each(<<"UpstreamAttenuation", "UpstreamMaxBitRate",
                 "UpstreamNoiseMargin", "UpstreamPower", "Upstream",
                 "TotalStart", "QuarterHourStart", "AllowedProfiles",
                 "CurrentProfile">>))

----------------------------------------------------------------------------
(* XTSE: a standard occupies a run of bits, counted from 1.                *)

StandardsSupported ==
    {"G.992.1_Annex_A", "G.992.1_Annex_B", "G.992.1_Annex_C", "T1.413",
     "G.992.2", "G.992.3_Annex_A", "G.992.3_Annex_B", "G.992.3_Annex_C",
     "G.993.1", "G.993.1_Annex_A", "G.993.2_Annex_B", "G.993.2_Annex_C"}

\* The standards xtse_get_bit_position knows, with the first bit of each.
KnownStandards ==
    {"T1.413", "T1.413i2", "ETSI_101_388", "G.992.1_Annex_A",
     "G.992.1_Annex_B", "G.992.1_Annex_C", "G.992.2", "G.992.3_Annex_A",
     "G.992.3_Annex_B", "G.992.3_Annex_C", "G.992.4", "G.992.3_Annex_I",
     "G.992.3_Annex_J", "G.992.3_Annex_L", "G.992.3_Annex_M",
     "G.992.5_Annex_A", "G.992.5_Annex_B", "G.992.5_Annex_C",
     "G.992.5_Annex_I", "G.992.5_Annex_J", "G.992.5_Annex_M",
     "G.993.2_Annex_A", "G.993.2_Annex_B", "G.993.2_Annex_C"}

FirstBit ==
    [s \in KnownStandards |->
        CASE s \in {"T1.413", "T1.413i2"} -> 1
          [] s = "ETSI_101_388" -> 2     [] s = "G.992.1_Annex_A" -> 3
          [] s = "G.992.1_Annex_B" -> 5  [] s = "G.992.1_Annex_C" -> 7
          [] s = "G.992.2" -> 9          [] s = "G.992.3_Annex_A" -> 19
          [] s = "G.992.3_Annex_B" -> 21 [] s = "G.992.3_Annex_C" -> 23
          [] s = "G.992.4" -> 25         [] s = "G.992.3_Annex_I" -> 29
          [] s = "G.992.3_Annex_J" -> 31 [] s = "G.992.3_Annex_L" -> 35
          [] s = "G.992.3_Annex_M" -> 39 [] s = "G.992.5_Annex_A" -> 41
          [] s = "G.992.5_Annex_B" -> 43 [] s = "G.992.5_Annex_C" -> 45
          [] s = "G.992.5_Annex_I" -> 47 [] s = "G.992.5_Annex_J" -> 49
          [] s = "G.992.5_Annex_M" -> 51 [] s = "G.993.2_Annex_A" -> 57
          [] s = "G.993.2_Annex_B" -> 58 [] s = "G.993.2_Annex_C" -> 59]

BitRange(s) ==
    CASE s \in {"T1.413", "T1.413i2", "ETSI_101_388", "G.993.2_Annex_A",
                "G.993.2_Annex_B", "G.993.2_Annex_C"} -> 1
      [] s \in {"G.992.2", "G.992.3_Annex_L"} -> 4
      [] OTHER -> 2

\* The octet of a bit and its shift in it.
Place(bit) == <<(bit - 1) \div 8, (bit - 1) % 8>>

\* The printed octets, the last one first; each the set of its shifts.
Octets(standards) ==
    LET places == UNION {{Place(FirstBit[s] + i) : i \in 0..(BitRange(s) - 1)} :
                             s \in standards \intersect KnownStandards}
    IN  [k \in 1..8 |-> {p[2] : p \in {q \in places : q[1] = 8 - k}}]

=============================================================================
