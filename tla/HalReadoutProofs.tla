-------------------------- MODULE HalReadoutProofs --------------------------
(***************************************************************************)
(* What the read-out guarantees for every set of objects and standards.    *)
(*                                                                         *)
(* First the tables: a chain of keys stores a parameter in its own field,  *)
(* or where Misplaced says, because a key that occurs in a longer name is  *)
(* tested after one that is right for it (Settled).  Then the octets of    *)
(* XTSE.  Then the state machine: a value in a record is of a name that is *)
(* stored in its field (Records), a read without an error leaves no older  *)
(* value (FreshInv), the octets follow the standards (OctetsInv), and the  *)
(* properties that the runs check follow.                                  *)
(***************************************************************************)
EXTENDS HalReadout, SequenceTheorems, WellFoundedInduction, TLAPS

----------------------------------------------------------------------------
(* Sequences of keys.                                                      *)

\* A sequence, whatever its elements.
IsSeq(s) == s \in Seq(SetOf(s))

\* The chain has the key x, and y only after it, if at all.
Before(keys, x, y) ==
  \E j \in 1..Len(keys) : keys[j] = x /\ \A i \in 1..j : keys[i] # y

\* A function on 1..n is a sequence of its elements.
LEMMA OfLength ==
    ASSUME NEW n \in Nat, NEW S, NEW f \in [1..n -> S]
    PROVE  IsSeq(f)
<1>1. f \in Seq(S) /\ Len(f) = n
  BY SeqDef
<1>2. \A i \in 1..n : f[i] \in SetOf(f)
  BY <1>1 DEF SetOf
<1>3. f \in [1..n -> SetOf(f)]
  BY <1>2
<1> QED
  BY <1>3, SeqDef DEF IsSeq

\* A list of names with one component is a sequence.
LEMMA EachSeq ==
    ASSUME NEW strings, Len(strings) \in Nat
    PROVE  IsSeq(Each(strings))
<1>1. Each(strings) \in [1..Len(strings) -> {<<strings[i]>> : i \in 1..Len(strings)}]
  BY DEF Each
<1> QED
  BY <1>1, OfLength

\* The names of an interval are a sequence, one for each of its counters.
LEMMA UnderSeq ==
    ASSUME NEW interval, NEW counters, IsSeq(counters)
    PROVE  /\ IsSeq(Under(interval, counters))
           /\ SetOf(Under(interval, counters)) = {<<interval, c>> : c \in SetOf(counters)}
<1> DEFINE u == Under(interval, counters)
<1>1. Len(counters) \in Nat
  BY DEF IsSeq
<1>2. /\ Len(u) = Len(counters)
      /\ \A i \in 1..Len(counters) : u[i] = <<interval, counters[i]>>
  BY <1>1 DEF Under
<1>3. u \in [1..Len(counters) -> {<<interval, counters[i]>> : i \in 1..Len(counters)}]
  BY DEF Under
<1>4. IsSeq(u)
  BY <1>1, <1>3, OfLength
<1> HIDE DEF u
<1>5. SetOf(u) = {<<interval, c>> : c \in SetOf(counters)}
  BY <1>2 DEF SetOf
<1> QED
  BY <1>4, <1>5 DEF u

\* Two chains one after the other have the keys of both.
LEMMA ConcatSeq ==
    ASSUME NEW a, NEW b, IsSeq(a), IsSeq(b)
    PROVE  /\ IsSeq(a \o b)
           /\ SetOf(a \o b) = SetOf(a) \union SetOf(b)
<1> DEFINE S == SetOf(a) \union SetOf(b)
<1>0. a \in Seq(S) /\ b \in Seq(S)
  BY SeqMonotonic DEF IsSeq
<1> HIDE DEF S
<1>1. /\ Len(a) \in Nat /\ Len(b) \in Nat
      /\ a \o b \in Seq(S)
      /\ Len(a \o b) = Len(a) + Len(b)
      /\ \A i \in 1..Len(a) : (a \o b)[i] = a[i]
      /\ \A i \in 1..Len(b) : (a \o b)[Len(a) + i] = b[i]
  BY <1>0
<1>2. ASSUME NEW x \in SetOf(a \o b) PROVE x \in SetOf(a) \union SetOf(b)
  <2>1. PICK i \in 1..Len(a \o b) : (a \o b)[i] = x
    BY DEF SetOf
  <2>2. CASE i <= Len(a)
    BY <1>1, <2>1, <2>2 DEF SetOf
  <2>3. CASE i > Len(a)
    <3>1. i - Len(a) \in 1..Len(b) /\ i = Len(a) + (i - Len(a))
      BY <1>1, <2>3
    <3> QED
      BY <1>1, <2>1, <3>1 DEF SetOf
  <2> QED
    BY <1>1, <2>2, <2>3
<1>3. ASSUME NEW x \in SetOf(a) PROVE x \in SetOf(a \o b)
  BY <1>1, <1>3 DEF SetOf
<1>4. ASSUME NEW x \in SetOf(b) PROVE x \in SetOf(a \o b)
  <2>1. PICK i \in 1..Len(b) : b[i] = x
    BY <1>4 DEF SetOf
  <2>2. Len(a) + i \in 1..Len(a \o b)
    BY <1>1
  <2> QED
    BY <1>1, <2>1, <2>2 DEF SetOf
<1>5. SetOf(a \o b) = SetOf(a) \union SetOf(b)
  BY <1>2, <1>3, <1>4
<1>6. IsSeq(a \o b)
  BY <1>1, <1>5 DEF IsSeq, S
<1> QED
  BY <1>5, <1>6

\* In two chains one after the other.
LEMMA BeforeConcat ==
    ASSUME NEW a, NEW b, IsSeq(a), IsSeq(b), NEW x, NEW y,
           Before(a, x, y) \/ (Before(b, x, y) /\ y \notin SetOf(a))
    PROVE  Before(a \o b, x, y)
<1> DEFINE S == SetOf(a) \union SetOf(b)
<1>0. a \in Seq(S) /\ b \in Seq(S)
  BY SeqMonotonic DEF IsSeq
<1> HIDE DEF S
<1>1. CASE Before(a, x, y)
  BY <1>0, <1>1 DEF Before
<1>2. CASE Before(b, x, y) /\ y \notin SetOf(a)
  <2>1. PICK j \in 1..Len(b) : b[j] = x /\ \A i \in 1..j : b[i] # y
    BY <1>2 DEF Before
  <2>2. Len(a) + j \in 1..Len(a \o b) /\ (a \o b)[Len(a) + j] = x
    BY <1>0, <2>1
  <2>3. ASSUME NEW i \in 1..(Len(a) + j) PROVE (a \o b)[i] # y
    <3>1. CASE i <= Len(a)
      BY <1>0, <1>2, <3>1 DEF SetOf
    <3>2. CASE i > Len(a)
      BY <1>0, <2>1, <3>2
    <3> QED
      BY <1>0, <3>1, <3>2
  <2> QED
    BY <2>2, <2>3 DEF Before
<1> QED
  BY <1>1, <1>2

----------------------------------------------------------------------------
(* The chains of the client.                                               *)

\* The sums that every counter is kept for.
Sums == {"Total", "Showtime", "LastShowtime", "CurrentDay"}
Retrain == <<"X_RDK_LinkRetrain">>
DayRetrain == <<"CurrentDay", "X_RDK_LinkRetrain">>
QuarterRetrain == <<"QuarterHour", "X_RDK_LinkRetrain">>

\* The pairs of a key and a longer name where the chains that have both test
\* for more than the key before it.
Shadowing ==
    { << <<"Status">>, <<"LinkStatus">> >>,
      << <<"UPBOKLE">>, <<"UPBOKLER">> >>,
      << <<"UPBOKLE">>, <<"UPBOKLERPb">> >>,
      << Retrain, DayRetrain >> }
    \union
    { << <<"PacketsSent">>, <<n>> >> : n \in
        {"DiscardPacketsSent", "UnicastPacketsSent", "MulticastPacketsSent",
         "BroadcastPacketsSent"} }
    \union
    { << <<"PacketsReceived">>, <<n>> >> : n \in
        {"DiscardPacketsReceived", "UnicastPacketsReceived",
         "MulticastPacketsReceived", "BroadcastPacketsReceived",
         "UnknownProtoPacketsReceived"} }

\* The counters of a line and of a channel.
LEMMA CounterSets ==
    /\ IsSeq(Seconds) /\ IsSeq(Errors)
    /\ SetOf(Seconds) = {"ErroredSecs", "SeverelyErroredSecs"}
    /\ SetOf(Errors) = {"XTURFECErrors", "XTUCFECErrors", "XTURHECErrors",
                        "XTUCHECErrors", "XTURCRCErrors", "XTUCCRCErrors"}
<1>1. /\ Seconds \in [1..2 -> {"ErroredSecs", "SeverelyErroredSecs"}]
      /\ Errors \in [1..6 -> {"XTURFECErrors", "XTUCFECErrors", "XTURHECErrors",
                               "XTUCHECErrors", "XTURCRCErrors", "XTUCCRCErrors"}]
  BY DEF Seconds, Errors
<1>4. IsSeq(Seconds) /\ IsSeq(Errors)
  BY <1>1, OfLength
<1>2. SetOf(Seconds) = {"ErroredSecs", "SeverelyErroredSecs"}
  BY DEF Seconds, SetOf
<1>3. SetOf(Errors) = {"XTURFECErrors", "XTUCFECErrors", "XTURHECErrors",
                       "XTUCHECErrors", "XTURCRCErrors", "XTUCCRCErrors"}
  BY DEF Errors, SetOf
<1> QED
  BY <1>2, <1>3, <1>4

\* The chain of the four sums has every counter under every sum.
LEMMA SumChain ==
    ASSUME NEW counters, IsSeq(counters)
    PROVE  /\ IsSeq(SumKeys(counters))
           /\ SetOf(SumKeys(counters)) = {<<i, c>> : i \in Sums, c \in SetOf(counters)}
<1>1. \A i \in Sums : /\ IsSeq(Under(i, counters))
                      /\ SetOf(Under(i, counters)) = {<<i, c>> : c \in SetOf(counters)}
  BY UnderSeq
<1> DEFINE t == Under("Total", counters)
           s == Under("Showtime", counters)
           l == Under("LastShowtime", counters)
           d == Under("CurrentDay", counters)
<1>2. /\ IsSeq(t) /\ SetOf(t) = {<<"Total", c>> : c \in SetOf(counters)}
      /\ IsSeq(s) /\ SetOf(s) = {<<"Showtime", c>> : c \in SetOf(counters)}
      /\ IsSeq(l) /\ SetOf(l) = {<<"LastShowtime", c>> : c \in SetOf(counters)}
      /\ IsSeq(d) /\ SetOf(d) = {<<"CurrentDay", c>> : c \in SetOf(counters)}
  BY <1>1 DEF Sums
<1>3. SumKeys(counters) = (t \o s) \o (l \o d)
  BY DEF SumKeys
<1> HIDE DEF t, s, l, d
<1>4. /\ IsSeq(t \o s) /\ SetOf(t \o s) = SetOf(t) \union SetOf(s)
      /\ IsSeq(l \o d) /\ SetOf(l \o d) = SetOf(l) \union SetOf(d)
  BY <1>2, ConcatSeq
<1>5. /\ IsSeq((t \o s) \o (l \o d))
      /\ SetOf((t \o s) \o (l \o d)) = SetOf(t \o s) \union SetOf(l \o d)
  BY <1>4, ConcatSeq
<1>6. SetOf(SumKeys(counters)) = {<<i, c>> : i \in Sums, c \in SetOf(counters)}
  <2>1. ASSUME NEW x \in SetOf(SumKeys(counters))
        PROVE  \E i \in Sums, c \in SetOf(counters) : x = <<i, c>>
    BY <1>2, <1>3, <1>4, <1>5, <2>1 DEF Sums
  <2>2. ASSUME NEW i \in Sums, NEW c \in SetOf(counters)
        PROVE  <<i, c>> \in SetOf(SumKeys(counters))
    BY <1>2, <1>3, <1>4, <1>5, <2>2 DEF Sums
  <2> QED
    BY <2>1, <2>2
<1> QED
  BY <1>3, <1>5, <1>6

\* The names of the traffic counters and of the starts of the intervals.
TrafficNames ==
    {<<"BytesSent">>, <<"BytesReceived">>, <<"DiscardPacketsSent">>,
     <<"PacketsSent">>, <<"DiscardPacketsReceived">>, <<"PacketsReceived">>,
     <<"ErrorsSent">>, <<"ErrorsReceived">>, <<"TotalStart">>,
     <<"ShowtimeStart">>, <<"LastShowtimeStart">>, <<"QuarterHourStart">>,
     <<"CurrentDayStart">>}

\* The traffic keys, and the two that are tested before the longer name
\* would be caught by "PacketsSent" or "PacketsReceived".
LEMMA TrafficChain ==
    /\ IsSeq(TrafficKeys)
    /\ SetOf(TrafficKeys) = TrafficNames
    /\ Before(TrafficKeys, <<"DiscardPacketsSent">>, <<"PacketsSent">>)
    /\ Before(TrafficKeys, <<"DiscardPacketsReceived">>, <<"PacketsReceived">>)
<1>1. IsSeq(TrafficKeys)
  BY EachSeq DEF TrafficKeys
<1>2. SetOf(TrafficKeys) = TrafficNames
  BY DEF TrafficKeys, TrafficNames, Each, SetOf
<1>3. /\ Len(TrafficKeys) = 13
      /\ TrafficKeys[3] = <<"DiscardPacketsSent">>
      /\ TrafficKeys[5] = <<"DiscardPacketsReceived">>
      /\ \A i \in 1..3 : TrafficKeys[i] # <<"PacketsSent">>
      /\ \A i \in 1..5 : TrafficKeys[i] # <<"PacketsReceived">>
  BY DEF TrafficKeys, Each
<1>4. /\ Before(TrafficKeys, <<"DiscardPacketsSent">>, <<"PacketsSent">>)
      /\ Before(TrafficKeys, <<"DiscardPacketsReceived">>, <<"PacketsReceived">>)
  <2>1. 3 \in 1..Len(TrafficKeys) /\ 5 \in 1..Len(TrafficKeys)
    BY <1>3
  <2>2. Before(TrafficKeys, <<"DiscardPacketsSent">>, <<"PacketsSent">>)
    BY <1>3, <2>1, Zenon DEF Before
  <2>3. Before(TrafficKeys, <<"DiscardPacketsReceived">>, <<"PacketsReceived">>)
    BY <1>3, <2>1, Zenon DEF Before
  <2> QED
    BY <2>2, <2>3
<1> QED
  BY <1>1, <1>2, <1>4

\* The retrain counter of the day is tested before the bare one.
LEMMA RetrainChain ==
    /\ IsSeq(RetrainKeys)
    /\ SetOf(RetrainKeys) = {DayRetrain, Retrain}
    /\ Before(RetrainKeys, DayRetrain, Retrain)
<1>1. RetrainKeys \in [1..2 -> {DayRetrain, Retrain}]
  BY DEF RetrainKeys, DayRetrain, Retrain
<1>2. SetOf(RetrainKeys) = {DayRetrain, Retrain}
  BY DEF RetrainKeys, DayRetrain, Retrain, SetOf
<1>3. Len(RetrainKeys) = 2 /\ RetrainKeys[1] = DayRetrain /\ DayRetrain # Retrain
  BY DEF RetrainKeys, DayRetrain, Retrain
<1>4. Before(RetrainKeys, DayRetrain, Retrain)
  BY <1>3 DEF Before
<1> QED
  BY <1>1, <1>2, <1>4, OfLength

\* The chain of a statistics object, by its counters and those of its day.
StatsOrder(counters, days) ==
    (TrafficKeys \o SumKeys(counters))
    \o (RetrainKeys \o (Under("CurrentDay", days)
                        \o Under("QuarterHour", counters)))

\* What such a chain guarantees.
StatsShape(keys, counters, days) ==
    /\ IsSeq(keys)
    /\ SetOf(keys) = SetOf(TrafficKeys)
                \union {<<i, c>> : i \in Sums \union {"QuarterHour"},
                                   c \in SetOf(counters)}
                \union {<<"CurrentDay", c>> : c \in SetOf(days)}
                \union {DayRetrain, Retrain}
    /\ Before(keys, <<"DiscardPacketsSent">>, <<"PacketsSent">>)
    /\ Before(keys, <<"DiscardPacketsReceived">>, <<"PacketsReceived">>)
    /\ Before(keys, DayRetrain, Retrain)

\* The keys of a statistics chain, and the order that matters in it.
LEMMA StatsChain ==
    ASSUME NEW counters, IsSeq(counters), NEW days, IsSeq(days)
    PROVE  StatsShape(StatsOrder(counters, days), counters, days)
<1> DEFINE keys == StatsOrder(counters, days)
<1> DEFINE s == SumKeys(counters)
           d == Under("CurrentDay", days)
           q == Under("QuarterHour", counters)
           head == TrafficKeys \o s
           tail == RetrainKeys \o (d \o q)
<1>1. /\ IsSeq(s) /\ SetOf(s) = {<<i, c>> : i \in Sums, c \in SetOf(counters)}
      /\ IsSeq(d) /\ SetOf(d) = {<<"CurrentDay", c>> : c \in SetOf(days)}
      /\ IsSeq(q) /\ SetOf(q) = {<<"QuarterHour", c>> : c \in SetOf(counters)}
  BY SumChain, UnderSeq
<1>2. keys = head \o tail
  BY DEF StatsOrder
<1> HIDE DEF s, d, q, keys
<1>3. /\ IsSeq(head) /\ SetOf(head) = SetOf(TrafficKeys) \union SetOf(s)
      /\ Before(head, <<"DiscardPacketsSent">>, <<"PacketsSent">>)
      /\ Before(head, <<"DiscardPacketsReceived">>, <<"PacketsReceived">>)
  BY <1>1, TrafficChain, ConcatSeq, BeforeConcat
<1>4. IsSeq(d \o q) /\ SetOf(d \o q) = SetOf(d) \union SetOf(q)
  BY <1>1, ConcatSeq
<1>5. /\ IsSeq(tail) /\ SetOf(tail) = SetOf(RetrainKeys) \union SetOf(d \o q)
      /\ Before(tail, DayRetrain, Retrain)
  BY <1>4, RetrainChain, ConcatSeq, BeforeConcat
<1>6. Retrain \notin SetOf(head)
  <2>1. Retrain \notin SetOf(s)
    BY <1>1 DEF Retrain
  <2>2. Retrain \notin SetOf(TrafficKeys)
    BY TrafficChain DEF Retrain, TrafficNames
  <2> QED
    BY <1>3, <2>1, <2>2
<1> HIDE DEF head, tail
<1>7. IsSeq(keys) /\ SetOf(keys) = SetOf(head) \union SetOf(tail)
  BY <1>2, <1>3, <1>5, ConcatSeq
<1>9. /\ Before(keys, <<"DiscardPacketsSent">>, <<"PacketsSent">>)
      /\ Before(keys, <<"DiscardPacketsReceived">>, <<"PacketsReceived">>)
      /\ Before(keys, DayRetrain, Retrain)
  <2>1. \A x, y : Before(head, x, y) => Before(head \o tail, x, y)
    BY <1>3, <1>5, BeforeConcat
  <2>2. Before(head \o tail, DayRetrain, Retrain)
    BY <1>3, <1>5, <1>6, BeforeConcat
  <2> QED
    BY <1>2, <1>3, <2>1, <2>2
<1>8. SetOf(keys) = SetOf(TrafficKeys)
                \union {<<i, c>> : i \in Sums \union {"QuarterHour"},
                                   c \in SetOf(counters)}
                \union {<<"CurrentDay", c>> : c \in SetOf(days)}
                \union {DayRetrain, Retrain}
  <2>1. ASSUME NEW x \in SetOf(keys)
        PROVE  \/ x \in SetOf(TrafficKeys)
               \/ \E i \in Sums \union {"QuarterHour"}, c \in SetOf(counters) :
                     x = <<i, c>>
               \/ \E c \in SetOf(days) : x = <<"CurrentDay", c>>
               \/ x \in {DayRetrain, Retrain}
    BY <1>1, <1>3, <1>4, <1>5, <1>7, <2>1, RetrainChain
  <2>2. ASSUME NEW i \in Sums \union {"QuarterHour"}, NEW c \in SetOf(counters)
        PROVE  <<i, c>> \in SetOf(keys)
    BY <1>1, <1>3, <1>4, <1>5, <1>7, <2>2
  <2>3. ASSUME NEW c \in SetOf(days)
        PROVE  <<"CurrentDay", c>> \in SetOf(keys)
    BY <1>1, <1>4, <1>5, <1>7, <2>3
  <2>4. SetOf(TrafficKeys) \union {DayRetrain, Retrain} \subseteq SetOf(keys)
    BY <1>3, <1>5, <1>7, RetrainChain
  <2>5. SetOf(keys) \subseteq SetOf(TrafficKeys)
                \union {<<i, c>> : i \in Sums \union {"QuarterHour"},
                                   c \in SetOf(counters)}
                \union {<<"CurrentDay", c>> : c \in SetOf(days)}
                \union {DayRetrain, Retrain}
    BY <2>1
  <2>6. SetOf(TrafficKeys)
                \union {<<i, c>> : i \in Sums \union {"QuarterHour"},
                                   c \in SetOf(counters)}
                \union {<<"CurrentDay", c>> : c \in SetOf(days)}
                \union {DayRetrain, Retrain} \subseteq SetOf(keys)
    BY <2>2, <2>3, <2>4
  <2> QED
    BY <2>5, <2>6
<1> QED
  BY <1>7, <1>8, <1>9 DEF StatsShape, keys

\* The counters that only the day has.
LineDays == <<"X_RDK_InitErrors", "X_RDK_InitTimeouts", "X_RDK_SuccessfulRetrains">>
ChannelDays == <<"X_RDK_InitErrors", "X_RDK_InitTimeouts", "X_RDK_SeverelyErroredSecs",
                 "X_RDK_ErroredSecs">>

\* The further counters of the day.
LEMMA DaySets ==
    /\ IsSeq(LineDays) /\ IsSeq(ChannelDays)
    /\ SetOf(LineDays) = {"X_RDK_InitErrors", "X_RDK_InitTimeouts",
                          "X_RDK_SuccessfulRetrains"}
    /\ SetOf(ChannelDays) = {"X_RDK_InitErrors", "X_RDK_InitTimeouts",
                             "X_RDK_SeverelyErroredSecs", "X_RDK_ErroredSecs"}
<1>1. SetOf(LineDays) = {"X_RDK_InitErrors", "X_RDK_InitTimeouts",
                         "X_RDK_SuccessfulRetrains"}
  BY DEF LineDays, SetOf
<1>2. SetOf(ChannelDays) = {"X_RDK_InitErrors", "X_RDK_InitTimeouts",
                            "X_RDK_SeverelyErroredSecs", "X_RDK_ErroredSecs"}
  BY DEF ChannelDays, SetOf
<1>3. /\ LineDays \in [1..3 -> {"X_RDK_InitErrors", "X_RDK_InitTimeouts",
                                "X_RDK_SuccessfulRetrains"}]
      /\ ChannelDays \in [1..4 -> {"X_RDK_InitErrors", "X_RDK_InitTimeouts",
                                   "X_RDK_SeverelyErroredSecs", "X_RDK_ErroredSecs"}]
  BY DEF LineDays, ChannelDays
<1> QED
  BY <1>1, <1>2, <1>3, OfLength

\* The chains of the statistics, by the general form.
LEMMA StatsChains ==
    /\ Keys("Line", "stats") = StatsOrder(Seconds, LineDays)
    /\ Keys("Channel", "stats") = StatsOrder(Errors, ChannelDays)
<1>1. Keys("Line", "stats") = LineStatsKeys
  BY DEF Keys
<1>2. Keys("Channel", "stats") = ChannelStatsKeys
  BY DEF Keys
<1> QED
  BY <1>1, <1>2 DEF LineStatsKeys, ChannelStatsKeys, StatsOrder, LineDays, ChannelDays

\* What is used of the chain of a line.
LineInfoFacts ==
  LET keys == Keys("Line", "info")
  IN  /\ IsSeq(keys)
      /\ Before(keys, <<"LinkStatus">>, <<"Status">>)
      /\ Before(keys, <<"UPBOKLER">>, <<"UPBOKLE">>)
      /\ SetOf(keys) = SetOf(LineNumberKeys) \union SetOf(LineOtherKeys)
      /\ <<"PacketsSent">> \notin SetOf(keys)
      /\ <<"PacketsReceived">> \notin SetOf(keys)
      /\ Retrain \notin SetOf(keys)

\* The chain of a line is of this shape.
LEMMA LineInfoChain == LineInfoFacts
<1> DEFINE keys == Keys("Line", "info")
<1>1. keys = LineNumberKeys \o LineOtherKeys
  BY DEF Keys
<1>2. IsSeq(LineNumberKeys) /\ IsSeq(LineOtherKeys)
  BY EachSeq DEF LineNumberKeys, LineOtherKeys
<1>3. IsSeq(keys) /\ SetOf(keys) = SetOf(LineNumberKeys) \union SetOf(LineOtherKeys)
  BY <1>1, <1>2, ConcatSeq
<1>4. /\ Len(LineNumberKeys) = 33
      /\ LineNumberKeys[1] = <<"LinkStatus">>
      /\ LineNumberKeys[17] = <<"UPBOKLER">>
      /\ \A i \in 1..17 : LineNumberKeys[i] # <<"UPBOKLE">>
  BY DEF LineNumberKeys, Each
<1>5. /\ Before(LineNumberKeys, <<"LinkStatus">>, <<"Status">>)
      /\ Before(LineNumberKeys, <<"UPBOKLER">>, <<"UPBOKLE">>)
  <2>1. \A i \in 1..1 : LineNumberKeys[i] # <<"Status">>
    BY <1>4
  <2>2. 1 \in 1..Len(LineNumberKeys) /\ 17 \in 1..Len(LineNumberKeys)
    BY <1>4
  <2>3. Before(LineNumberKeys, <<"LinkStatus">>, <<"Status">>)
    BY <1>4, <2>1, <2>2, Zenon DEF Before
  <2>4. Before(LineNumberKeys, <<"UPBOKLER">>, <<"UPBOKLE">>)
    BY <1>4, <2>2, Zenon DEF Before
  <2> QED
    BY <2>3, <2>4
<1>6. /\ Before(keys, <<"LinkStatus">>, <<"Status">>)
      /\ Before(keys, <<"UPBOKLER">>, <<"UPBOKLE">>)
  BY <1>1, <1>2, <1>5, BeforeConcat
<1>7. \A key \in SetOf(LineNumberKeys) :
         key \notin {<<"PacketsSent">>, <<"PacketsReceived">>, Retrain}
  BY DEF LineNumberKeys, Each, SetOf, Retrain
<1>8. \A key \in SetOf(LineOtherKeys) :
         key \notin {<<"PacketsSent">>, <<"PacketsReceived">>, Retrain}
  BY DEF LineOtherKeys, Each, SetOf, Retrain
<1> HIDE DEF keys
<1> QED
  BY <1>3, <1>6, <1>7, <1>8 DEF LineInfoFacts, keys

\* What is used of the chain of a channel.
ChannelInfoFacts ==
  LET keys == Keys("Channel", "info")
  IN  /\ IsSeq(keys)
      /\ keys = ChannelInfoKeys
      /\ \A key \in SetOf(keys) :
            key \notin {<<"LinkStatus">>, <<"UPBOKLE">>, <<"PacketsSent">>,
                        <<"PacketsReceived">>, Retrain}

\* The chain of a channel is of this shape.
LEMMA ChannelInfoChain == ChannelInfoFacts
<1>1. Keys("Channel", "info") = ChannelInfoKeys
  BY DEF Keys
<1>2. IsSeq(ChannelInfoKeys)
  BY EachSeq DEF ChannelInfoKeys
<1>3. \A key \in SetOf(ChannelInfoKeys) :
            key \notin {<<"LinkStatus">>, <<"UPBOKLE">>, <<"PacketsSent">>,
                        <<"PacketsReceived">>, Retrain}
  BY DEF ChannelInfoKeys, Each, SetOf, Retrain
<1> QED
  BY <1>1, <1>2, <1>3 DEF ChannelInfoFacts

\* A link's counters: every longer name is tested before "Packets...".
LEMMA LinkChain ==
    /\ IsSeq(PtmStatsKeys)
    /\ \A n \in {"DiscardPacketsSent", "UnicastPacketsSent", "MulticastPacketsSent",
                 "BroadcastPacketsSent"} : Before(PtmStatsKeys, <<n>>, <<"PacketsSent">>)
    /\ \A n \in {"DiscardPacketsReceived", "UnicastPacketsReceived",
                 "MulticastPacketsReceived", "BroadcastPacketsReceived",
                 "UnknownProtoPacketsReceived"} :
          Before(PtmStatsKeys, <<n>>, <<"PacketsReceived">>)
    /\ \A key \in SetOf(PtmStatsKeys) : key \notin {<<"Status">>, <<"UPBOKLE">>, Retrain}
<1>1. IsSeq(PtmStatsKeys)
  BY EachSeq DEF PtmStatsKeys
<1>2. /\ Len(PtmStatsKeys) = 15
      /\ PtmStatsKeys[3] = <<"UnicastPacketsSent">>
      /\ PtmStatsKeys[4] = <<"DiscardPacketsSent">>
      /\ PtmStatsKeys[5] = <<"MulticastPacketsSent">>
      /\ PtmStatsKeys[6] = <<"BroadcastPacketsSent">>
      /\ \A i \in 1..6 : PtmStatsKeys[i] # <<"PacketsSent">>
  BY DEF PtmStatsKeys, Each
<1>3. /\ PtmStatsKeys[8] = <<"UnicastPacketsReceived">>
      /\ PtmStatsKeys[9] = <<"DiscardPacketsReceived">>
      /\ PtmStatsKeys[10] = <<"MulticastPacketsReceived">>
      /\ PtmStatsKeys[11] = <<"BroadcastPacketsReceived">>
      /\ PtmStatsKeys[12] = <<"UnknownProtoPacketsReceived">>
      /\ \A i \in 1..12 : PtmStatsKeys[i] # <<"PacketsReceived">>
  BY DEF PtmStatsKeys, Each
<1>4. ASSUME NEW j \in 3..6 PROVE Before(PtmStatsKeys, PtmStatsKeys[j], <<"PacketsSent">>)
  BY <1>2 DEF Before
<1>5. ASSUME NEW j \in 8..12
      PROVE  Before(PtmStatsKeys, PtmStatsKeys[j], <<"PacketsReceived">>)
  BY <1>2, <1>3 DEF Before
<1>6. \A n \in {"DiscardPacketsSent", "UnicastPacketsSent", "MulticastPacketsSent",
               "BroadcastPacketsSent"} : \E j \in 3..6 : PtmStatsKeys[j] = <<n>>
  BY <1>2
<1>7. \A n \in {"DiscardPacketsReceived", "UnicastPacketsReceived",
               "MulticastPacketsReceived", "BroadcastPacketsReceived",
               "UnknownProtoPacketsReceived"} : \E j \in 8..12 : PtmStatsKeys[j] = <<n>>
  BY <1>3
<1>8. \A key \in SetOf(PtmStatsKeys) : key \notin {<<"Status">>, <<"UPBOKLE">>, Retrain}
  BY DEF PtmStatsKeys, Each, SetOf, Retrain
<1> QED
  BY <1>1, <1>4, <1>5, <1>6, <1>7, <1>8

----------------------------------------------------------------------------
(* Where a value is stored.                                                *)

(* A chain of keys stores a name in one field at most, whatever the keys.  *)
LEMMA OneFieldPerName ==
    ASSUME NEW keys, Len(keys) \in Nat, NEW name,
           NEW f \in Stored(keys, name), NEW g \in Stored(keys, name)
    PROVE  f = g
PROOF
<1>1. \A i, j \in FirstKey(keys, name) : i = j
  <2> SUFFICES ASSUME NEW i \in FirstKey(keys, name),
                      NEW j \in FirstKey(keys, name)
               PROVE  ~(i < j)
    BY DEF FirstKey
  <2> QED
    BY DEF FirstKey
<1> QED
  BY <1>1, Zenon DEF Stored

\* A key that occurs in a longer name misplaces it, or is tested after a
\* key that is right for it, or stands for the quarter hour.
LEMMA OccursSplit ==
    ASSUME NEW key, NEW name, <<key, name>> \in OccursIn
    PROVE  \/ <<name, key>> \in Misplaced
           \/ <<key, name>> \in Shadowing
           \/ key = Retrain /\ name = QuarterRetrain
<1>1. CASE \E c \in SetOf(Errors) :
              <<key, name>> = << <<"Showtime", c>>, <<"LastShowtime", c>> >>
  BY <1>1 DEF Misplaced
<1>2. CASE ~\E c \in SetOf(Errors) :
              <<key, name>> = << <<"Showtime", c>>, <<"LastShowtime", c>> >>
  BY <1>2 DEF OccursIn, Misplaced, Shadowing, Retrain, QuarterRetrain, DayRetrain
<1> QED
  BY <1>1, <1>2

\* A parameter is a key of its chain, with three exceptions.
LEMMA NamesIn ==
    ASSUME NEW k \in Objects, NEW part \in Parts, NEW n \in NamesOf[k][part]
    PROVE  /\ k \in {"PTM", "ATM"} => part = "stats"
           /\ \/ n \in SetOf(Keys(k, part)) \ {Retrain}
              \/ n = QuarterRetrain /\ Retrain \in SetOf(Keys(k, part))
              \/ n = <<"Name">> /\ part = "info"
              \/ /\ k = "ATM"
                 /\ n \in {<<"TransmittedBlocks">>, <<"ReceivedBlocks">>,
                           <<"CRCErrors">>, <<"HECErrors">>}
<1>1. CASE part = "info" /\ k \in {"PTM", "ATM"}
  BY <1>1 DEF NamesOf
<1>2. CASE ~(part = "info" /\ k \in {"PTM", "ATM"})
  <2>1. n \in Names(k, part)
    BY <1>2 DEF NamesOf
  <2>2. \/ n \in {IF key = Retrain THEN QuarterRetrain ELSE key :
                     key \in SetOf(Keys(k, part))}
        \/ n \in CASE part = "info" -> {<<"Name">>}
                   [] k = "ATM" -> {<<"TransmittedBlocks">>, <<"ReceivedBlocks">>,
                                    <<"CRCErrors">>, <<"HECErrors">>}
                   [] OTHER -> {}
    BY <2>1 DEF Names, Retrain, QuarterRetrain
  <2>3. QuarterRetrain # Retrain
    BY DEF QuarterRetrain, Retrain
  <2> QED
    BY <1>2, <2>2, <2>3 DEF Parts, Objects
<1> QED
  BY <1>1, <1>2

\* A key that another matching one precedes is not the first to match.
LEMMA NotFirst ==
    ASSUME NEW keys, Len(keys) \in Nat, NEW x, NEW y, Before(keys, x, y), NEW n, Matches(x, n),
           NEW i \in FirstKey(keys, n)
    PROVE  keys[i] # y
<1>1. PICK j \in 1..Len(keys) : keys[j] = x /\ \A h \in 1..j : keys[h] # y
  BY DEF Before
<1>2. i \in 1..Len(keys) /\ \A h \in 1..(i - 1) : ~Matches(keys[h], n)
  BY DEF FirstKey
<1>3. ~(j < i)
  BY <1>1, <1>2
<1>4. i \in 1..j
  BY <1>1, <1>2, <1>3
<1> QED
  BY <1>1, <1>4

\* The chain tests for a name before it tests for a key that shadows it.
Settled(k, part) ==
  LET keys == Keys(k, part)
  IN  /\ IsSeq(keys)
      /\ \A key, n : /\ <<key, n>> \in Shadowing
                     /\ n \in NamesOf[k][part] /\ key \in SetOf(keys)
                     => \E x : Matches(x, n) /\ Before(keys, x, key)

\* A key occurs in itself.
LEMMA MatchesSelf == \A n : Matches(n, n)
BY DEF Matches

\* The shadowing keys, each with the names it occurs in.
LEMMA SentNames ==
    ASSUME NEW key, NEW n, <<key, n>> \in Shadowing
    PROVE  \/ key = <<"Status">> /\ n = <<"LinkStatus">>
           \/ key = <<"UPBOKLE">> /\ n \in {<<"UPBOKLER">>, <<"UPBOKLERPb">>}
           \/ key = Retrain /\ n = DayRetrain
           \/ /\ key = <<"PacketsSent">>
              /\ \E s \in {"DiscardPacketsSent", "UnicastPacketsSent",
                           "MulticastPacketsSent", "BroadcastPacketsSent"} : n = <<s>>
           \/ /\ key = <<"PacketsReceived">>
              /\ \E s \in {"DiscardPacketsReceived", "UnicastPacketsReceived",
                           "MulticastPacketsReceived", "BroadcastPacketsReceived",
                           "UnknownProtoPacketsReceived"} : n = <<s>>
BY DEF Shadowing

\* No key of a line shadows a name that reaches it.
LEMMA LineInfoSettled == Settled("Line", "info")
<1>1. Matches(<<"UPBOKLER">>, <<"UPBOKLERPb">>)
  BY DEF Matches, OccursIn
<1> DEFINE keys == Keys("Line", "info")
<1>2. /\ IsSeq(keys)
      /\ Before(keys, <<"LinkStatus">>, <<"Status">>)
      /\ Before(keys, <<"UPBOKLER">>, <<"UPBOKLE">>)
      /\ {<<"PacketsSent">>, <<"PacketsReceived">>, Retrain} \intersect SetOf(keys) = {}
  BY LineInfoChain DEF LineInfoFacts
<1> HIDE DEF keys
<1>3. ASSUME NEW key, NEW n, <<key, n>> \in Shadowing, key \in SetOf(keys)
      PROVE  \E x : Matches(x, n) /\ Before(keys, x, key)
  <2>1. \/ key = <<"Status">> /\ n = <<"LinkStatus">>
        \/ key = <<"UPBOKLE">> /\ n \in {<<"UPBOKLER">>, <<"UPBOKLERPb">>}
    BY <1>2, <1>3, SentNames
  <2> QED
    BY <1>1, <1>2, <2>1, MatchesSelf
<1> QED
  BY <1>2, <1>3 DEF Settled, keys

\* The lists that a statistics chain is made of.
CountersOf(k) == IF k = "Line" THEN Seconds ELSE Errors
DaysOf(k) == IF k = "Line" THEN LineDays ELSE ChannelDays

\* The statistics chains of line and channel have the general form.
LEMMA StatsShapes ==
    ASSUME NEW k \in {"Line", "Channel"}
    PROVE  StatsShape(Keys(k, "stats"), CountersOf(k), DaysOf(k))
<1>1. Keys(k, "stats") = StatsOrder(CountersOf(k), DaysOf(k))
  BY StatsChains DEF CountersOf, DaysOf
<1>2. IsSeq(CountersOf(k)) /\ IsSeq(DaysOf(k))
  BY CounterSets, DaySets DEF CountersOf, DaysOf
<1> QED
  BY <1>1, <1>2, StatsChain

\* No key of a statistics chain shadows a name that reaches it.
LEMMA StatsSettled ==
    ASSUME NEW k \in {"Line", "Channel"}
    PROVE  Settled(k, "stats")
<1> DEFINE keys == Keys(k, "stats")
<1>1. StatsShape(keys, CountersOf(k), DaysOf(k))
  BY StatsShapes
<1> HIDE DEF keys
<1>2. \A s : <<s>> \in SetOf(keys) => <<s>> \in SetOf(TrafficKeys) \/ <<s>> = Retrain
  BY <1>1 DEF StatsShape, DayRetrain, Retrain
<1>3. ASSUME NEW key, NEW n, <<key, n>> \in Shadowing, key \in SetOf(keys),
             n \in NamesOf[k]["stats"]
      PROVE  \E x : Matches(x, n) /\ Before(keys, x, key)
  <2>1. n \in SetOf(keys) \/ n = QuarterRetrain
    BY <1>3, NamesIn DEF keys, Objects, Parts
  <2>2. key # <<"Status">> /\ key # <<"UPBOKLE">>
    BY <1>2, <1>3, TrafficChain DEF TrafficNames, Retrain
  <2>3. ASSUME NEW s \in {"UnicastPacketsSent", "MulticastPacketsSent",
                          "BroadcastPacketsSent", "UnicastPacketsReceived",
                          "MulticastPacketsReceived", "BroadcastPacketsReceived",
                          "UnknownProtoPacketsReceived"}
        PROVE  n # <<s>>
    BY <1>2, <2>1, TrafficChain DEF TrafficNames, Retrain, QuarterRetrain
  <2>4. \/ key = Retrain /\ n = DayRetrain
        \/ key = <<"PacketsSent">> /\ n = <<"DiscardPacketsSent">>
        \/ key = <<"PacketsReceived">> /\ n = <<"DiscardPacketsReceived">>
    BY <1>3, <2>2, <2>3, SentNames
  <2> QED
    BY <1>1, <2>4, MatchesSelf DEF StatsShape
<1> QED
  BY <1>1, <1>3 DEF Settled, StatsShape, keys

\* No key of a channel shadows a name that reaches it.
LEMMA ChannelInfoSettled == Settled("Channel", "info")
<1> DEFINE keys == Keys("Channel", "info")
<1>1. IsSeq(keys)
  BY ChannelInfoChain DEF ChannelInfoFacts
<1>2. ASSUME NEW key, NEW n, <<key, n>> \in Shadowing, key \in SetOf(keys),
             n \in NamesOf["Channel"]["info"]
      PROVE  FALSE
  <2>1. key = <<"Status">> /\ n = <<"LinkStatus">>
    BY <1>2, SentNames, ChannelInfoChain DEF ChannelInfoFacts
  <2>2. n \in SetOf(keys) \/ n = QuarterRetrain \/ n = <<"Name">>
    BY <1>2, NamesIn DEF Objects, Parts
  <2> QED
    BY <2>1, <2>2, ChannelInfoChain DEF ChannelInfoFacts, QuarterRetrain
<1> QED
  BY <1>1, <1>2 DEF Settled

\* No key of a link's counters shadows a name that reaches it.
LEMMA LinkSettled ==
    ASSUME NEW k \in {"PTM", "ATM"}
    PROVE  Settled(k, "stats")
<1>1. Keys(k, "stats") = PtmStatsKeys
  BY DEF Keys, AtmStatsKeys
<1>2. ASSUME NEW key, NEW n, <<key, n>> \in Shadowing, key \in SetOf(PtmStatsKeys)
      PROVE  Before(PtmStatsKeys, n, key)
  <2>1. key \notin {<<"Status">>, <<"UPBOKLE">>, Retrain}
    BY <1>2, LinkChain
  <2> QED
    BY <1>2, <2>1, SentNames, LinkChain
<1> QED
  BY <1>1, <1>2, LinkChain, MatchesSelf DEF Settled

\* A name is stored at itself, or where Misplaced says.
THEOREM StoredPlace ==
    ASSUME NEW k \in Objects, NEW part \in Parts, NEW n \in NamesOf[k][part],
           NEW f \in Stored(Keys(k, part), n)
    PROVE  f = n \/ <<n, f>> \in Misplaced
<1> DEFINE keys == Keys(k, part)
<1>1. Settled(k, part)
  BY NamesIn, LineInfoSettled, ChannelInfoSettled, StatsSettled, LinkSettled
     DEF Objects, Parts
<1>2. PICK i \in FirstKey(keys, n) :
         f = IF keys[i] = Retrain THEN QuarterRetrain ELSE keys[i]
  BY DEF Stored, Retrain, QuarterRetrain
<1>3. i \in 1..Len(keys) /\ Matches(keys[i], n)
  BY <1>2 DEF FirstKey
<1>4. n # Retrain
  BY NamesIn DEF Retrain, QuarterRetrain
<1>5. CASE keys[i] = n
  BY <1>2, <1>4, <1>5
<1>6. CASE <<keys[i], n>> \in OccursIn
  <2>1. CASE <<n, keys[i]>> \in Misplaced
    <3>1. keys[i] # Retrain
      BY <2>1 DEF Misplaced, Retrain
    <3> QED
      BY <1>2, <2>1, <3>1
  <2>2. CASE <<keys[i], n>> \in Shadowing
    <3>1. keys[i] \in SetOf(keys)
      BY <1>3 DEF SetOf
    <3>2. PICK x : Matches(x, n) /\ Before(keys, x, keys[i])
      BY <1>1, <2>2, <3>1 DEF Settled
    <3>3. Len(keys) \in Nat
      BY <1>1 DEF Settled, IsSeq
    <3> QED
      BY <1>2, <3>2, <3>3, NotFirst
  <2>3. CASE keys[i] = Retrain /\ n = QuarterRetrain
    BY <1>2, <2>3
  <2> QED
    BY <1>6, <2>1, <2>2, <2>3, OccursSplit
<1> QED
  BY <1>3, <1>5, <1>6 DEF Matches

\* A set of natural numbers that is not empty has a least element.
LEMMA LeastPlace ==
    ASSUME NEW T \in SUBSET Nat, T # {}
    PROVE  \E x \in T : \A y \in T : x <= y
<1>1. PICK x \in T : \A y \in T : ~(<<y, x>> \in OpToRel(<, Nat))
  BY NatLessThanWellFounded, WFMin
<1>2. \A y \in T : ~(y < x)
  BY <1>1 DEF OpToRel
<1> QED
  BY <1>2

\* If some key of a chain matches, one of them is the first.
LEMMA FirstFound ==
    ASSUME NEW keys, Len(keys) \in Nat, NEW n, NEW i \in 1..Len(keys), Matches(keys[i], n)
    PROVE  FirstKey(keys, n) # {}
<1> DEFINE T == {j \in 1..Len(keys) : Matches(keys[j], n)}
<1>1. T \in SUBSET Nat /\ i \in T
  OBVIOUS
<1>2. PICK j \in T : \A h \in T : j <= h
  BY <1>1, LeastPlace
<1>3. \A h \in 1..(j - 1) : ~Matches(keys[h], n)
  BY <1>2
<1> QED
  BY <1>2, <1>3 DEF FirstKey

\* Every parameter of a line or channel that is not listed as lost is stored
\* in a field of its own name, and in no other.
THEOREM StoresItself ==
    ASSUME NEW k \in {"Line", "Channel"}, NEW part \in Parts,
           NEW n \in NamesOf[k][part], n \notin Lost
    PROVE  Stored(Keys(k, part), n) = {n}
<1> DEFINE keys == Keys(k, part)
<1>1. Len(keys) \in Nat
  BY LineInfoSettled, ChannelInfoSettled, StatsSettled DEF Settled, IsSeq, Parts
<1>2. \/ n \in SetOf(keys)
      \/ n = QuarterRetrain /\ Retrain \in SetOf(keys)
  BY NamesIn DEF Lost, Objects
<1>3. Matches(Retrain, QuarterRetrain)
  BY DEF Matches, OccursIn, Retrain, QuarterRetrain
<1>4. PICK i \in 1..Len(keys) : Matches(keys[i], n)
  BY <1>2, <1>3, MatchesSelf DEF SetOf
<1> HIDE DEF keys
<1>5. FirstKey(keys, n) # {}
  BY <1>1, <1>4, FirstFound
<1>6. PICK f : f \in Stored(keys, n)
  BY <1>5 DEF Stored
<1>7. f = n
  <2>1. f = n \/ <<n, f>> \in Misplaced
    BY <1>6, StoredPlace DEF keys, Objects
  <2>2. <<n, f>> \in Misplaced => n \in Lost
    BY DEF Lost
  <2> QED
    BY <2>1, <2>2
<1>8. \A g \in Stored(keys, n) : g = n
  <2>1. f \in Stored(keys, n)
    BY <1>6
  <2> QED
    BY <1>1, <1>7, <2>1, OneFieldPerName
<1> QED
  BY <1>6, <1>7, <1>8 DEF keys

\* The names of the first part that no counter has.
LEMMA PartsApart ==
    ASSUME NEW k \in {"Line", "Channel"}
    PROVE  NamesOf[k]["info"] \intersect NamesOf[k]["stats"] = {}
<1>1. \A key \in SetOf(LineNumberKeys) :
         key \notin SetOf(TrafficKeys) \union {<<"Name">>, Retrain} /\ \E s : key = <<s>>
  <2>1. \A key \in SetOf(LineNumberKeys) : \E s : key = <<s>>
    BY DEF LineNumberKeys, Each, SetOf
  <2>2. \A key \in SetOf(LineNumberKeys) : key \notin TrafficNames \union {<<"Name">>, Retrain}
    BY DEF LineNumberKeys, TrafficNames, Each, SetOf, Retrain
  <2> QED
    BY <2>1, <2>2, TrafficChain
<1>2. \A key \in SetOf(LineOtherKeys) :
         key \notin SetOf(TrafficKeys) \union {<<"Name">>, Retrain} /\ \E s : key = <<s>>
  <2>1. \A key \in SetOf(LineOtherKeys) : \E s : key = <<s>>
    BY DEF LineOtherKeys, Each, SetOf
  <2>2. \A key \in SetOf(LineOtherKeys) : key \notin TrafficNames \union {<<"Name">>, Retrain}
    BY DEF LineOtherKeys, TrafficNames, Each, SetOf, Retrain
  <2> QED
    BY <2>1, <2>2, TrafficChain
<1>3. \A key \in SetOf(ChannelInfoKeys) :
         key \notin SetOf(TrafficKeys) \union {<<"Name">>, Retrain} /\ \E s : key = <<s>>
  <2>1. \A key \in SetOf(ChannelInfoKeys) : \E s : key = <<s>>
    BY DEF ChannelInfoKeys, Each, SetOf
  <2>2. \A key \in SetOf(ChannelInfoKeys) : key \notin TrafficNames \union {<<"Name">>, Retrain}
    BY DEF ChannelInfoKeys, TrafficNames, Each, SetOf, Retrain
  <2> QED
    BY <2>1, <2>2, TrafficChain
<1>4. \A key \in SetOf(Keys(k, "info")) :
         key \notin SetOf(TrafficKeys) \union {<<"Name">>, Retrain} /\ \E s : key = <<s>>
  BY <1>1, <1>2, <1>3, LineInfoChain, ChannelInfoChain DEF LineInfoFacts, ChannelInfoFacts
<1>5. <<"Name">> \notin SetOf(TrafficKeys) /\ <<"Name">> # Retrain
  BY TrafficChain DEF TrafficNames, Retrain
<1>6. StatsShape(Keys(k, "stats"), CountersOf(k), DaysOf(k))
  BY StatsShapes
<1>7. \A s : <<s>> \in SetOf(Keys(k, "stats")) => <<s>> \in SetOf(TrafficKeys) \/ <<s>> = Retrain
  BY <1>6 DEF StatsShape, DayRetrain
<1>8. Retrain \notin SetOf(Keys(k, "info"))
  BY <1>4
<1>9. ASSUME NEW n, n \in NamesOf[k]["info"], n \in NamesOf[k]["stats"]
      PROVE  FALSE
  <2>1. n \in SetOf(Keys(k, "info")) \/ n = <<"Name">>
    BY <1>8, <1>9, NamesIn DEF Objects, Parts
  <2>2. (\E s : n = <<s>>) /\ n \notin SetOf(TrafficKeys) /\ n # Retrain
    BY <1>4, <1>5, <2>1
  <2>3. n \in SetOf(Keys(k, "stats")) \/ n = QuarterRetrain
    BY <1>9, NamesIn DEF Objects, Parts
  <2> QED
    BY <1>7, <2>2, <2>3 DEF QuarterRetrain
<1> QED
  BY <1>9

----------------------------------------------------------------------------
(* What the getters serve, and what a report is made of.                   *)

\* The counters under an interval, of which there are two lists.
LEMMA UnderBoth ==
    ASSUME NEW interval, NEW a, NEW b, IsSeq(a), IsSeq(b)
    PROVE  \A c \in SetOf(a) \union SetOf(b) :
              <<interval, c>> \in SetOf(Under(interval, a \o b))
<1>1. IsSeq(a \o b) /\ SetOf(a \o b) = SetOf(a) \union SetOf(b)
  BY ConcatSeq
<1> QED
  BY <1>1, UnderSeq

\* What the getters list after the counters of a day.
LineDayRest == <<"X_RDK_LinkRetrain", "X_RDK_InitErrors",
                 "X_RDK_InitTimeouts", "X_RDK_SuccessfulRetrains">>
ChannelDayRest == <<"X_RDK_LinkRetrain", "X_RDK_InitErrors",
                "X_RDK_InitTimeouts", "X_RDK_SeverelyErroredSecs",
                "X_RDK_ErroredSecs">>

\* Those lists, as sets.
LEMMA RestSets ==
    /\ IsSeq(LineDayRest) /\ IsSeq(ChannelDayRest) /\ IsSeq(Retrain)
    /\ SetOf(LineDayRest) = SetOf(LineDays) \union {"X_RDK_LinkRetrain"}
    /\ SetOf(ChannelDayRest) = SetOf(ChannelDays) \union {"X_RDK_LinkRetrain"}
    /\ SetOf(Retrain) = {"X_RDK_LinkRetrain"}
<1>1. SetOf(LineDayRest) = {"X_RDK_LinkRetrain", "X_RDK_InitErrors",
                            "X_RDK_InitTimeouts", "X_RDK_SuccessfulRetrains"}
  BY DEF LineDayRest, SetOf
<1>2. SetOf(ChannelDayRest) = {"X_RDK_LinkRetrain", "X_RDK_InitErrors",
                "X_RDK_InitTimeouts", "X_RDK_SeverelyErroredSecs",
                "X_RDK_ErroredSecs"}
  BY DEF ChannelDayRest, SetOf
<1>3. SetOf(Retrain) = {"X_RDK_LinkRetrain"}
  BY DEF Retrain, SetOf
<1>4. /\ LineDayRest \in [1..4 -> {"X_RDK_LinkRetrain", "X_RDK_InitErrors",
                            "X_RDK_InitTimeouts", "X_RDK_SuccessfulRetrains"}]
      /\ ChannelDayRest \in [1..5 -> {"X_RDK_LinkRetrain", "X_RDK_InitErrors",
                "X_RDK_InitTimeouts", "X_RDK_SeverelyErroredSecs",
                "X_RDK_ErroredSecs"}]
      /\ Retrain \in [1..1 -> {"X_RDK_LinkRetrain"}]
  BY DEF LineDayRest, ChannelDayRest, Retrain
<1>5. IsSeq(LineDayRest) /\ IsSeq(ChannelDayRest) /\ IsSeq(Retrain)
  BY <1>4, OfLength
<1> QED
  BY <1>1, <1>2, <1>3, <1>5, DaySets

\* The data model serves every counter that a line reports.
LEMMA LineStatsServed ==
    ASSUME NEW n \in NamesOf["Line"]["stats"]
    PROVE  n \in Params("Line", "stats")
<1> DEFINE served == Params("Line", "stats")
<1>1. served = LineStatsUlongs \union LineTotal \union LineShowtime
            \union LineLastShowtime \union LineCurrentDay
            \union LineQuarterHour
  BY DEF Params
<1>2. /\ LineTotal = {<<"Total", c>> : c \in SetOf(Seconds)}
      /\ LineShowtime = {<<"Showtime", c>> : c \in SetOf(Seconds)}
      /\ LineLastShowtime = {<<"LastShowtime", c>> : c \in SetOf(Seconds)}
  BY UnderSeq, CounterSets DEF LineTotal, LineShowtime, LineLastShowtime
<1>3. LineCurrentDay = SetOf(Under("CurrentDay", Seconds \o LineDayRest))
  BY DEF LineCurrentDay, LineDayRest
<1>4. LineQuarterHour = SetOf(Under("QuarterHour", Seconds \o Retrain))
  BY DEF LineQuarterHour, Retrain
<1>5. /\ \A c \in SetOf(Seconds) : <<"CurrentDay", c>> \in LineCurrentDay
      /\ \A c \in SetOf(LineDays) : <<"CurrentDay", c>> \in LineCurrentDay
      /\ DayRetrain \in LineCurrentDay
  BY <1>3, UnderBoth, CounterSets, RestSets DEF DayRetrain
<1>6. /\ \A c \in SetOf(Seconds) : <<"QuarterHour", c>> \in LineQuarterHour
      /\ QuarterRetrain \in LineQuarterHour
  BY <1>4, UnderBoth, CounterSets, RestSets DEF QuarterRetrain
<1>7. LineStatsUlongs = SetOf(TrafficKeys)
  BY DEF LineStatsUlongs
<1> SUFFICES n \in served
  OBVIOUS
<1> HIDE DEF served
<1>8. StatsShape(Keys("Line", "stats"), Seconds, LineDays)
  BY StatsShapes DEF CountersOf, DaysOf
<1>9. n \in SetOf(Keys("Line", "stats")) \ {Retrain} \/ n = QuarterRetrain
  BY NamesIn DEF Objects, Parts
<1>10. CASE n = QuarterRetrain
  BY <1>1, <1>6, <1>10
<1>11. CASE n \in SetOf(Keys("Line", "stats")) \ {Retrain}
  <2>1. \/ n \in SetOf(TrafficKeys)
        \/ \E i \in Sums \union {"QuarterHour"}, c \in SetOf(Seconds) : n = <<i, c>>
        \/ \E c \in SetOf(LineDays) : n = <<"CurrentDay", c>>
        \/ n = DayRetrain
    BY <1>8, <1>11 DEF StatsShape
  <2>2. ASSUME NEW i \in Sums \union {"QuarterHour"}, NEW c \in SetOf(Seconds)
        PROVE  <<i, c>> \in served
    BY <1>1, <1>2, <1>5, <1>6 DEF Sums
  <2> QED
    BY <1>1, <1>5, <1>7, <2>1, <2>2
<1> QED
  BY <1>9, <1>10, <1>11

\* The data model serves every counter that a channel reports.
LEMMA ChannelStatsServed ==
    ASSUME NEW n \in NamesOf["Channel"]["stats"]
    PROVE  n \in Params("Channel", "stats")
<1> DEFINE served == Params("Channel", "stats")
<1>1. served = ChannelStatsUlongs \union ChannelTotal \union ChannelShowTime
            \union ChannelLastShowTime \union ChannelCurrentDay
            \union ChannelQuarterHour
  BY DEF Params
<1>2. /\ ChannelTotal = {<<"Total", c>> : c \in SetOf(Errors)}
      /\ ChannelShowTime = {<<"Showtime", c>> : c \in SetOf(Errors)}
      /\ ChannelLastShowTime = {<<"LastShowtime", c>> : c \in SetOf(Errors)}
  BY UnderSeq, CounterSets DEF ChannelTotal, ChannelShowTime, ChannelLastShowTime
<1>3. ChannelCurrentDay = SetOf(Under("CurrentDay", Errors \o ChannelDayRest))
  BY DEF ChannelCurrentDay, ChannelDayRest
<1>4. ChannelQuarterHour = SetOf(Under("QuarterHour", Errors \o Retrain))
  BY DEF ChannelQuarterHour, Retrain
<1>5. /\ \A c \in SetOf(Errors) : <<"CurrentDay", c>> \in ChannelCurrentDay
      /\ \A c \in SetOf(ChannelDays) : <<"CurrentDay", c>> \in ChannelCurrentDay
      /\ DayRetrain \in ChannelCurrentDay
  BY <1>3, UnderBoth, CounterSets, RestSets DEF DayRetrain
<1>6. /\ \A c \in SetOf(Errors) : <<"QuarterHour", c>> \in ChannelQuarterHour
      /\ QuarterRetrain \in ChannelQuarterHour
  BY <1>4, UnderBoth, CounterSets, RestSets DEF QuarterRetrain
<1>7. ChannelStatsUlongs = SetOf(TrafficKeys)
  BY DEF ChannelStatsUlongs
<1> SUFFICES n \in served
  OBVIOUS
<1> HIDE DEF served
<1>8. StatsShape(Keys("Channel", "stats"), Errors, ChannelDays)
  BY StatsShapes DEF CountersOf, DaysOf
<1>9. n \in SetOf(Keys("Channel", "stats")) \ {Retrain} \/ n = QuarterRetrain
  BY NamesIn DEF Objects, Parts
<1>10. CASE n = QuarterRetrain
  BY <1>1, <1>6, <1>10
<1>11. CASE n \in SetOf(Keys("Channel", "stats")) \ {Retrain}
  <2>1. \/ n \in SetOf(TrafficKeys)
        \/ \E i \in Sums \union {"QuarterHour"}, c \in SetOf(Errors) : n = <<i, c>>
        \/ \E c \in SetOf(ChannelDays) : n = <<"CurrentDay", c>>
        \/ n = DayRetrain
    BY <1>8, <1>11 DEF StatsShape
  <2>2. ASSUME NEW i \in Sums \union {"QuarterHour"}, NEW c \in SetOf(Errors)
        PROVE  <<i, c>> \in served
    BY <1>1, <1>2, <1>5, <1>6 DEF Sums
  <2> QED
    BY <1>1, <1>5, <1>7, <2>1, <2>2
<1> QED
  BY <1>9, <1>10, <1>11

\* What the driver reports and the client stores, the getters serve.
LEMMA EveryNameServed ==
    ASSUME NEW k \in {"Line", "Channel"}, NEW part \in Parts,
           NEW n \in NamesOf[k][part], n \notin Lost
    PROVE  n \in Params(k, part)
<1>1. \/ n \in SetOf(Keys(k, part)) \ {Retrain}
      \/ n = QuarterRetrain /\ Retrain \in SetOf(Keys(k, part))
  BY NamesIn DEF Lost, Objects
<1>2. CASE k = "Line" /\ part = "info"
  <2>1. SetOf(LineNumberKeys) \subseteq
            LineStateUlongs \union LineModeUlongs \union LineInts
    BY DEF LineNumberKeys, LineStateUlongs, LineModeUlongs, LineInts, Each, SetOf
  <2>2. SetOf(LineOtherKeys) \subseteq
            LineModeTexts \union LineVendorTexts \union LineStateUlongs \union LineInts
    BY DEF LineOtherKeys, LineModeTexts, LineVendorTexts, LineStateUlongs, LineInts,
           Each, SetOf
  <2>3. n \in SetOf(LineNumberKeys) \union SetOf(LineOtherKeys)
    BY <1>1, <1>2, LineInfoChain DEF LineInfoFacts
  <2> QED
    BY <1>2, <2>1, <2>2, <2>3 DEF Params
<1>3. CASE k = "Channel" /\ part = "info"
  <2>1. SetOf(ChannelInfoKeys) \subseteq
            ChannelBools \union ChannelInts \union ChannelUlongs \union ChannelTexts
    BY DEF ChannelInfoKeys, ChannelBools, ChannelInts, ChannelUlongs, ChannelTexts,
           Each, SetOf
  <2>2. n \in SetOf(ChannelInfoKeys)
    BY <1>1, <1>3, ChannelInfoChain DEF ChannelInfoFacts
  <2> QED
    BY <1>3, <2>1, <2>2 DEF Params
<1>4. CASE part = "stats"
  BY <1>4, LineStatsServed, ChannelStatsServed
<1> QED
  BY <1>2, <1>3, <1>4 DEF Parts

\* All that the encoder writes.
Encodings == EncodedFirst \union EncodedCurrentDay \union EncodedLast

\* The names with one component that reports are made of.
ReportSingles ==
    {<<"StandardUsed">>, <<"DownstreamAttenuation">>, <<"DownstreamMaxBitRate">>,
     <<"DownstreamNoiseMargin">>, <<"DownstreamPower">>, <<"UpstreamAttenuation">>,
     <<"UpstreamMaxBitRate">>, <<"UpstreamNoiseMargin">>, <<"Upstream">>,
     <<"UpstreamPower">>, <<"AllowedProfiles">>, <<"CurrentProfile">>,
     <<"TotalStart">>, <<"QuarterHourStart">>, <<"DownstreamCurrRate">>,
     <<"UpstreamCurrRate">>, <<"CurrentDayStart">>}

\* What reports are made of: none is misplaced, and the encoder writes it.
LEMMA ReportNames ==
    ASSUME NEW k \in Objects, NEW part \in Parts, NEW n \in ReportData(k, part)
    PROVE  \/ n \in ReportSingles
           \/ n \in {<<"QuarterHour", "XTUCCRCErrors">>, <<"QuarterHour", "XTURCRCErrors">>}
           \/ \E c \in SetOf(Seconds) \union SetOf(Errors) : n = <<"CurrentDay", c>>
<1> DEFINE PairCRC == <<"XTUCCRCErrors", "XTURCRCErrors">>
<1>1. IsSeq(PairCRC) /\ SetOf(PairCRC) = {"XTUCCRCErrors", "XTURCRCErrors"}
  <2>1. PairCRC \in [1..2 -> {"XTUCCRCErrors", "XTURCRCErrors"}]
    OBVIOUS
  <2>2. SetOf(PairCRC) = {"XTUCCRCErrors", "XTURCRCErrors"}
    BY DEF SetOf
  <2> QED
    BY <2>1, <2>2, OfLength
<1>2. CASE k = "Line" /\ part = "info"
  BY <1>2 DEF ReportData, ReportSingles, Each, SetOf
<1>3. CASE k = "Line" /\ part = "stats"
  <2> DEFINE a == Each(<<"TotalStart", "QuarterHourStart">>)
             b == Under("CurrentDay", Seconds)
  <2>1. IsSeq(a) /\ IsSeq(b) /\ SetOf(b) = {<<"CurrentDay", c>> : c \in SetOf(Seconds)}
    BY EachSeq, UnderSeq, CounterSets
  <2>2. n \in SetOf(a \o b)
    BY <1>3 DEF ReportData
  <2>3. SetOf(a) = {<<"TotalStart">>, <<"QuarterHourStart">>}
    BY DEF Each, SetOf
  <2> HIDE DEF a, b
  <2>4. n \in SetOf(a) \/ n \in SetOf(b)
    BY <2>1, <2>2, ConcatSeq
  <2>5. CASE n \in SetOf(a)
    BY <2>3, <2>5 DEF ReportSingles
  <2>6. CASE n \in SetOf(b)
    BY <2>1, <2>6
  <2> QED
    BY <2>4, <2>5, <2>6
<1>4. CASE k = "Channel" /\ part = "info"
  BY <1>4 DEF ReportData, ReportSingles, Each, SetOf
<1>5. CASE k = "Channel" /\ part = "stats"
  <2> DEFINE a == Each(<<"CurrentDayStart">>)
             q == Under("QuarterHour", PairCRC)
             d == Under("CurrentDay", Errors)
  <2>1. /\ IsSeq(a)
        /\ IsSeq(q) /\ SetOf(q) = {<<"QuarterHour", c>> : c \in SetOf(PairCRC)}
        /\ IsSeq(d) /\ SetOf(d) = {<<"CurrentDay", c>> : c \in SetOf(Errors)}
    BY <1>1, EachSeq, UnderSeq, CounterSets
  <2>2. n \in SetOf(a \o q \o d)
    BY <1>5 DEF ReportData
  <2>3. SetOf(a) = {<<"CurrentDayStart">>}
    BY DEF Each, SetOf
  <2> HIDE DEF a, q, d, PairCRC
  <2>4. n \in SetOf(a) \/ n \in SetOf(q) \/ n \in SetOf(d)
    <3>1. IsSeq(a \o q) /\ SetOf(a \o q) = SetOf(a) \union SetOf(q)
      BY <2>1, ConcatSeq
    <3> QED
      BY <2>1, <2>2, <3>1, ConcatSeq
  <2>5. CASE n \in SetOf(a)
    BY <2>3, <2>5 DEF ReportSingles
  <2>6. CASE n \in SetOf(q) \/ n \in SetOf(d)
    BY <1>1, <2>1, <2>6
  <2> QED
    BY <2>4, <2>5, <2>6
<1>6. CASE k \in {"PTM", "ATM"}
  BY <1>6 DEF ReportData
<1> QED
  BY <1>2, <1>3, <1>4, <1>5, <1>6 DEF Objects, Parts

\* The encoder writes all that a report is made of.
LEMMA ReportEncoded ==
    ASSUME NEW k \in Objects, NEW part \in Parts, NEW n \in ReportData(k, part)
    PROVE  n \in Encodings
<1> DEFINE first == <<"XTSUsed", "DownstreamCurrRate", "UpstreamCurrRate",
                 "CurrentDayStart", "StandardUsed", "DownstreamAttenuation",
                 "DownstreamMaxBitRate", "DownstreamNoiseMargin",
                 "DownstreamPower">>
           crc == << <<"QuarterHour", "XTUCCRCErrors">>,
                <<"CurrentDay", "XTURCRCErrors">>,
                <<"QuarterHour", "XTURCRCErrors">> >>
           rest == <<"XTUCCRCErrors", "XTUCFECErrors", "XTUCHECErrors",
                     "XTURFECErrors", "XTURHECErrors">>
<1>1. EncodedFirst = SetOf(Each(first) \o crc)
  BY DEF EncodedFirst
<1>2. EncodedCurrentDay = SetOf(Under("CurrentDay", Seconds \o rest))
  BY DEF EncodedCurrentDay
<1>3. SetOf(Each(first)) = {<<"XTSUsed">>, <<"DownstreamCurrRate">>, <<"UpstreamCurrRate">>,
                 <<"CurrentDayStart">>, <<"StandardUsed">>, <<"DownstreamAttenuation">>,
                 <<"DownstreamMaxBitRate">>, <<"DownstreamNoiseMargin">>,
                 <<"DownstreamPower">>}
  BY DEF Each, SetOf
<1>4. SetOf(crc) = {<<"QuarterHour", "XTUCCRCErrors">>, <<"CurrentDay", "XTURCRCErrors">>,
                    <<"QuarterHour", "XTURCRCErrors">>}
  BY DEF SetOf
<1>5. SetOf(rest) = {"XTUCCRCErrors", "XTUCFECErrors", "XTUCHECErrors",
                     "XTURFECErrors", "XTURHECErrors"}
  BY DEF SetOf
<1>6. IsSeq(Each(first))
  BY EachSeq
<1>7. IsSeq(crc) /\ IsSeq(rest)
  <2>1. /\ crc \in [1..3 -> {<<"QuarterHour", "XTUCCRCErrors">>,
                    <<"CurrentDay", "XTURCRCErrors">>, <<"QuarterHour", "XTURCRCErrors">>}]
        /\ rest \in [1..5 -> {"XTUCCRCErrors", "XTUCFECErrors", "XTUCHECErrors",
                     "XTURFECErrors", "XTURHECErrors"}]
    OBVIOUS
  <2> QED
    BY <2>1, OfLength
<1>8. EncodedLast = {<<"UpstreamAttenuation">>, <<"UpstreamMaxBitRate">>,
                 <<"UpstreamNoiseMargin">>, <<"UpstreamPower">>, <<"Upstream">>,
                 <<"TotalStart">>, <<"QuarterHourStart">>, <<"AllowedProfiles">>,
                 <<"CurrentProfile">>}
  BY DEF EncodedLast, Each, SetOf
<1> HIDE DEF first, crc, rest
<1>9. EncodedFirst = SetOf(Each(first)) \union SetOf(crc)
  BY <1>1, <1>6, <1>7, ConcatSeq
<1>10. \A c \in SetOf(Seconds) \union SetOf(rest) : <<"CurrentDay", c>> \in EncodedCurrentDay
  BY <1>2, <1>7, UnderBoth, CounterSets
<1>11. CASE n \in ReportSingles
  BY <1>3, <1>8, <1>9, <1>11 DEF ReportSingles, Encodings
<1>12. CASE n \in {<<"QuarterHour", "XTUCCRCErrors">>, <<"QuarterHour", "XTURCRCErrors">>}
  BY <1>4, <1>9, <1>12 DEF Encodings
<1>13. CASE \E c \in SetOf(Seconds) \union SetOf(Errors) : n = <<"CurrentDay", c>>
  <2>1. PICK c \in SetOf(Seconds) \union SetOf(Errors) : n = <<"CurrentDay", c>>
    BY <1>13
  <2>2. c \in SetOf(Seconds) \union SetOf(rest) \/ c = "XTURCRCErrors"
    BY <1>5, CounterSets
  <2>3. <<"CurrentDay", "XTURCRCErrors">> \in EncodedFirst
    BY <1>4, <1>9
  <2> QED
    BY <1>10, <2>1, <2>2, <2>3 DEF Encodings
<1> QED
  BY <1>11, <1>12, <1>13, ReportNames

\* Nothing that a report is made of is lost, or is written over.
LEMMA ReportPlaced ==
    ASSUME NEW k \in Objects, NEW part \in Parts, NEW n \in ReportData(k, part)
    PROVE  n \notin Lost /\ \A m : <<m, n>> \notin Misplaced
<1>1. CASE n \in ReportSingles
  BY <1>1 DEF ReportSingles, Lost, Misplaced, Words, Counted
<1>2. CASE n \in {<<"QuarterHour", "XTUCCRCErrors">>, <<"QuarterHour", "XTURCRCErrors">>}
  BY <1>2 DEF Lost, Misplaced, Words, Counted
<1>3. CASE \E c \in SetOf(Seconds) \union SetOf(Errors) : n = <<"CurrentDay", c>>
  <2>1. "X_RDK_SuccessfulRetrains" \notin SetOf(Seconds) \union SetOf(Errors)
    BY CounterSets
  <2>2. n # Counted
    BY <1>3, <2>1 DEF Counted
  <2>3. \A p \in Misplaced : p[1] # n /\ p[2] # n
    BY <1>3 DEF Misplaced
  <2> QED
    BY <1>3, <2>2, <2>3 DEF Lost, Words
<1> QED
  BY <1>1, <1>2, <1>3, ReportNames

----------------------------------------------------------------------------
(* XTSE and XTSUsed.                                                       *)

\* The octet of a bit and its shift give the bit back.
LEMMA BitAgain ==
    ASSUME NEW b \in 1..64
    PROVE  /\ 8 - (b - 1) \div 8 \in 1..8
           /\ 8 * ((b - 1) \div 8) + ((b - 1) % 8) + 1 = b
OBVIOUS

\* The bits of printed octets, one by one.
LEMMA DecodedIs ==
    ASSUME NEW printed, NEW b
    PROVE  b \in Decoded(printed) <=>
              \E k \in 1..8 : \E shift \in printed[k] : b = 8 * (8 - k) + shift + 1
BY DEF Decoded

\* The driver's octets, taken apart again.
LEMMA DecodedEncoded ==
    ASSUME NEW bits \in SUBSET (1..64)
    PROVE  Decoded(Encoded(bits)) = bits
<1>1. ASSUME NEW b \in Decoded(Encoded(bits)) PROVE b \in bits
  <2>1. PICK k \in 1..8 : \E shift \in Encoded(bits)[k] : b = 8 * (8 - k) + shift + 1
    BY <1>1, DecodedIs
  <2>2. PICK c \in bits : (c - 1) \div 8 = 8 - k /\ b = 8 * (8 - k) + ((c - 1) % 8) + 1
    BY <2>1 DEF Encoded
  <2> QED
    BY <2>2, BitAgain
<1>2. ASSUME NEW b \in bits PROVE b \in Decoded(Encoded(bits))
  <2>1. PICK k \in 1..8 : k = 8 - (b - 1) \div 8
    BY BitAgain
  <2>2. (b - 1) \div 8 = 8 - k
    BY <2>1, BitAgain
  <2>3. (b - 1) % 8 \in Encoded(bits)[k]
    BY <2>2 DEF Encoded
  <2>4. b = 8 * (8 - k) + ((b - 1) % 8) + 1
    BY <2>2, BitAgain
  <2> QED
    BY <2>3, <2>4, DecodedIs
<1> QED
  BY <1>1, <1>2

\* The bits that the client gives a standard.
Run(s) == {FirstBit[s] + i : i \in 0..(BitRange(s) - 1)}

\* The octets worked out for some standards, taken apart again.
LEMMA DecodedOctets ==
    ASSUME NEW standards,
           \A s \in standards \intersect KnownStandards : Run(s) \subseteq 1..64
    PROVE  Decoded(Octets(standards)) = UNION {Run(s) : s \in standards \intersect KnownStandards}
<1> DEFINE known == standards \intersect KnownStandards
           places == UNION {{Place(FirstBit[s] + i) : i \in 0..(BitRange(s) - 1)} : s \in known}
<1>1. Octets(standards) = [k \in 1..8 |-> {p[2] : p \in {q \in places : q[1] = 8 - k}}]
  BY DEF Octets
<1>2. \A p : p \in places <=> \E s \in known : \E b \in Run(s) : p = Place(b)
  BY DEF Run
<1> HIDE DEF known, places
<1>3. ASSUME NEW b \in Decoded(Octets(standards))
      PROVE  \E s \in known : b \in Run(s)
  <2>1. PICK k \in 1..8 : \E shift \in Octets(standards)[k] : b = 8 * (8 - k) + shift + 1
    BY <1>3, DecodedIs
  <2>2. PICK p \in places : p[1] = 8 - k /\ b = 8 * (8 - k) + p[2] + 1
    BY <1>1, <2>1
  <2>3. PICK s \in known : \E c \in Run(s) : p = Place(c)
    BY <1>2
  <2>6. PICK c \in Run(s) : p = Place(c)
    BY <2>3
  <2>4. c \in 1..64
    BY <2>6 DEF known
  <2>5. b = c
    BY <2>2, <2>6, <2>4, BitAgain DEF Place
  <2> QED
    BY <2>5, <2>6
<1>4. ASSUME NEW s \in known, NEW b \in Run(s)
      PROVE  b \in Decoded(Octets(standards))
  <2>1. b \in 1..64
    BY DEF known
  <2>2. Place(b) \in places
    BY <1>2
  <2>3. PICK k \in 1..8 : (b - 1) \div 8 = 8 - k
    BY <2>1, BitAgain
  <2>4. (b - 1) % 8 \in Octets(standards)[k]
    BY <1>1, <2>2, <2>3 DEF Place
  <2>5. b = 8 * (8 - k) + ((b - 1) % 8) + 1
    BY <2>1, <2>3, BitAgain
  <2> QED
    BY <2>4, <2>5, DecodedIs
<1> QED
  BY <1>3, <1>4 DEF known

\* The first bits.
LEMMA FirstBits ==
    /\ FirstBit["T1.413"] = 1
    /\ FirstBit["T1.413i2"] = 1
    /\ FirstBit["ETSI_101_388"] = 2
    /\ FirstBit["G.993.2_Annex_A"] = 57
    /\ FirstBit["G.993.2_Annex_B"] = 58
    /\ FirstBit["G.993.2_Annex_C"] = 59
    /\ FirstBit["G.992.2"] = 9
    /\ FirstBit["G.992.3_Annex_L"] = 35
    /\ FirstBit["G.992.1_Annex_A"] = 3
    /\ FirstBit["G.992.1_Annex_B"] = 5
    /\ FirstBit["G.992.1_Annex_C"] = 7
    /\ FirstBit["G.992.3_Annex_A"] = 19
    /\ FirstBit["G.992.3_Annex_B"] = 21
    /\ FirstBit["G.992.3_Annex_C"] = 23
    /\ FirstBit["G.992.4"] = 25
    /\ FirstBit["G.992.3_Annex_I"] = 29
    /\ FirstBit["G.992.3_Annex_J"] = 31
    /\ FirstBit["G.992.3_Annex_M"] = 39
    /\ FirstBit["G.992.5_Annex_A"] = 41
    /\ FirstBit["G.992.5_Annex_B"] = 43
    /\ FirstBit["G.992.5_Annex_C"] = 45
    /\ FirstBit["G.992.5_Annex_I"] = 47
    /\ FirstBit["G.992.5_Annex_J"] = 49
    /\ FirstBit["G.992.5_Annex_M"] = 51
BY DEF FirstBit, KnownStandards

\* The bits of the comments.
LEMMA BitSets ==
    /\ BitsOf["T1.413"] = {1}
    /\ BitsOf["T1.413i2"] = {1}
    /\ BitsOf["ETSI_101_388"] = {2}
    /\ BitsOf["G.993.2_Annex_A"] = {57}
    /\ BitsOf["G.993.2_Annex_B"] = {58}
    /\ BitsOf["G.993.2_Annex_C"] = {59}
    /\ BitsOf["G.992.2"] = 9..12
    /\ BitsOf["G.992.3_Annex_L"] = 35..38
    /\ BitsOf["G.992.1_Annex_A"] = {3, 4}
    /\ BitsOf["G.992.1_Annex_B"] = {5, 6}
    /\ BitsOf["G.992.1_Annex_C"] = {7, 8}
    /\ BitsOf["G.992.3_Annex_A"] = {19, 20}
    /\ BitsOf["G.992.3_Annex_B"] = {21, 22}
    /\ BitsOf["G.992.3_Annex_C"] = {23, 24}
    /\ BitsOf["G.992.4"] = {25, 26}
    /\ BitsOf["G.992.3_Annex_I"] = {29, 30}
    /\ BitsOf["G.992.3_Annex_J"] = {31, 32}
    /\ BitsOf["G.992.3_Annex_M"] = {39, 40}
    /\ BitsOf["G.992.5_Annex_A"] = {41, 42}
    /\ BitsOf["G.992.5_Annex_B"] = {43, 44}
    /\ BitsOf["G.992.5_Annex_C"] = {45, 46}
    /\ BitsOf["G.992.5_Annex_I"] = {47, 48}
    /\ BitsOf["G.992.5_Annex_J"] = {49, 50}
    /\ BitsOf["G.992.5_Annex_M"] = {51, 52}
BY DEF BitsOf, KnownStandards

\* The first bit and the range of every standard give the bits of the
\* comments of the enumeration.
LEMMA RunsAgree ==
    ASSUME NEW s \in KnownStandards
    PROVE  Run(s) = BitsOf[s] /\ Run(s) \subseteq 1..64
<1>1. CASE BitRange(s) = 1
  <2>1. s \in {"T1.413", "T1.413i2", "ETSI_101_388", "G.993.2_Annex_A",
              "G.993.2_Annex_B", "G.993.2_Annex_C"}
    BY <1>1 DEF BitRange
  <2>2. PICK f \in 1..64 : FirstBit[s] = f /\ BitsOf[s] = {f}
    BY <2>1, FirstBits, BitSets
  <2>3. Run(s) = {f}
    BY <1>1, <2>2 DEF Run
  <2> QED
    BY <2>2, <2>3
<1>2. CASE BitRange(s) = 4
  <2>1. s \in {"G.992.2", "G.992.3_Annex_L"}
    BY <1>2 DEF BitRange
  <2>2. PICK f \in 1..60 : FirstBit[s] = f /\ BitsOf[s] = f..(f + 3)
    <3>1. FirstBit["G.992.2"] = 9 /\ FirstBit["G.992.3_Annex_L"] = 35
      BY DEF FirstBit, KnownStandards
    <3>2. BitsOf["G.992.2"] = 9..12 /\ BitsOf["G.992.3_Annex_L"] = 35..38
      BY DEF BitsOf, KnownStandards
    <3> QED
      BY <2>1, <3>1, <3>2
  <2>3. Run(s) = {f + i : i \in 0..3}
    BY <1>2, <2>2 DEF Run
  <2>4. {f + i : i \in 0..3} = f..(f + 3)
    <3>1. ASSUME NEW b \in f..(f + 3) PROVE b \in {f + i : i \in 0..3}
      <4>1. b - f \in 0..3 /\ b = f + (b - f)
        OBVIOUS
      <4> QED
        BY <4>1
    <3> QED
      BY <3>1
  <2>5. Run(s) = f..(f + 3)
    BY <2>3, <2>4
  <2>6. f..(f + 3) \subseteq 1..64
    OBVIOUS
  <2> QED
    BY <2>2, <2>5, <2>6
<1>3. CASE BitRange(s) = 2
  <2>1. s \in {"G.992.1_Annex_A", "G.992.1_Annex_B", "G.992.1_Annex_C",
              "G.992.3_Annex_A", "G.992.3_Annex_B", "G.992.3_Annex_C", "G.992.4",
              "G.992.3_Annex_I", "G.992.3_Annex_J", "G.992.3_Annex_M",
              "G.992.5_Annex_A", "G.992.5_Annex_B", "G.992.5_Annex_C",
              "G.992.5_Annex_I", "G.992.5_Annex_J", "G.992.5_Annex_M"}
    BY <1>3 DEF BitRange, KnownStandards
  <2>2. PICK f \in 1..63 : FirstBit[s] = f /\ BitsOf[s] = {f, f + 1}
    BY <2>1, FirstBits, BitSets
  <2>4. Run(s) = {f, f + 1}
    BY <1>3, <2>2 DEF Run
  <2> QED
    BY <2>2, <2>4
<1> QED
  BY <1>1, <1>2, <1>3 DEF BitRange

\* The octets worked out for any standards name the bits of the comments.
THEOREM OctetsAgree ==
    ASSUME NEW standards \in SUBSET (KnownStandards \union StandardsSupported \union Modes)
    PROVE  Decoded(Octets(standards)) = UNION {BitsOf[s] : s \in standards}
<1>1. Decoded(Octets(standards)) = UNION {Run(s) : s \in standards \intersect KnownStandards}
  BY DecodedOctets, RunsAgree
<1>2. \A s \in standards \ KnownStandards : BitsOf[s] = {}
  BY DEF BitsOf, KnownStandards
<1>3. \A s \in standards \intersect KnownStandards : Run(s) = BitsOf[s]
  BY RunsAgree
<1> QED
  BY <1>1, <1>2, <1>3

\* The bits of a standard are within the eight octets.
LEMMA BitsTyped ==
    ASSUME NEW s \in KnownStandards \union StandardsSupported \union Modes
    PROVE  BitsOf[s] \in SUBSET (1..64)
<1>1. CASE s \in KnownStandards
  BY <1>1, RunsAgree
<1>2. CASE s \notin KnownStandards
  BY <1>2 DEF BitsOf, KnownStandards
<1> QED
  BY <1>1, <1>2

\* Octets that are all zero name no bit.
LEMMA DecodedBlank == Decoded(Blank) = {}
BY DEF Decoded, Blank

----------------------------------------------------------------------------
(* The record after a reply.                                               *)

\* An empty record has no field.
LEMMA EmptyValues == DOMAIN NoValues = {}
BY DEF NoValues

\* A reading is empty or bears the time of the reply.
LEMMA ReadingNow ==
    ASSUME NEW instance, NEW name
    PROVE  Reading(instance, name) = Zero \/ Reading(instance, name).at = clock
BY DEF Reading

\* Statistics written over cleared ones all bear the time of that reply.
LEMMA WrittenOnce ==
    ASSUME NEW items, NEW instance,
           NEW f \in DOMAIN Written(NoValues, "stats", instance, items)
    PROVE  \/ Written(NoValues, "stats", instance, items)[f] = Zero
           \/ Written(NoValues, "stats", instance, items)[f].at = clock
PROOF
<1> DEFINE Target(i) == FieldsOf[kind]["stats"][reports[i]]
           Last(g, i) == g \in Target(i)
                         /\ \A j \in items : j > i => g \notin Target(j)
           written == UNION {Target(i) : i \in items}
           value(g) == IF g \in written
                       THEN Reading(instance, reports[CHOOSE i \in items : Last(g, i)])
                       ELSE NoValues[g]
<1>1. Written(NoValues, "stats", instance, items)
        = [g \in DOMAIN NoValues \union written |-> value(g)]
  BY Zenon DEF Written
<1> HIDE DEF written, value
<1>2. f \in written
  BY <1>1, EmptyValues
<1>3. Written(NoValues, "stats", instance, items)[f] = value(f)
  BY <1>1, <1>2
<1>4. PICK name : value(f) = Reading(instance, name)
  BY <1>2 DEF value
<1> QED
  BY <1>3, <1>4, ReadingNow

\* What a behaviour follows does not change.
Static ==
    /\ kind \in Kinds /\ kind \in Objects
    /\ entry \in 0..1 /\ blank \in BOOLEAN
    /\ SetOf(reports) = {reports[1], reports[2]}
    /\ \E part \in Parts : SetOf(reports) \subseteq NamesOf[kind][part]

\* The clock, the handler and its result are in range.
Clocks ==
    /\ clock \in 0..MaxClock /\ began \in 0..clock
    /\ pc \in {"idle"} \union Parts
    /\ result \in {"none", "ok", "failed"}
    /\ enable \in BOOLEAN

\* The field of one of the two items.
StoredItem(part, i, f) == f \in Stored(Keys(kind, part), reports[i])

\* The items of a reply about a part are parameters of that part.
LEMMA ReplyItems ==
    ASSUME Static, NEW part \in Parts, NEW items, items \subseteq Reply(part)
    PROVE  /\ items \subseteq {1, 2}
           /\ \A i \in items : reports[i] \in NamesOf[kind][part]
           /\ \A i \in items :
                 FieldsOf[kind][part][reports[i]] = Stored(Keys(kind, part), reports[i])
<1>1. /\ items \subseteq {1, 2}
      /\ items # {} => SetOf(reports) \subseteq NamesOf[kind][part]
  BY DEF Reply
<1>2. \A i \in items : reports[i] \in NamesOf[kind][part]
  BY <1>1 DEF Static
<1>3. kind \in Objects
  BY DEF Static
<1> QED
  BY <1>1, <1>2, <1>3 DEF FieldsOf

\* A field of the record after a reply is one that was there, or has the
\* value of an item that is stored in it.
FromRecordOrReply(w, record, part, instance, items) ==
    \A f \in DOMAIN w :
        \/ f \in DOMAIN record /\ w[f] = record[f]
        \/ \E i \in items : /\ StoredItem(part, i, f)
                            /\ w[f] = Reading(instance, reports[i])

\* Every field that an item is stored in has the value of such an item.
HasReply(w, part, instance, items) ==
    \A i \in items : \A f \in Stored(Keys(kind, part), reports[i]) :
        /\ f \in DOMAIN w
        /\ \E j \in items : /\ StoredItem(part, j, f)
                            /\ w[f] = Reading(instance, reports[j])

\* What storing the items of a reply does to a record: both facts hold.
LEMMA WrittenFields ==
    ASSUME Static, NEW record, NEW part \in Parts, NEW instance,
           NEW items, items \subseteq Reply(part)
    PROVE  LET w == Written(record, part, instance, items)
           IN  /\ FromRecordOrReply(w, record, part, instance, items)
               /\ HasReply(w, part, instance, items)
<1> DEFINE Target(i) == FieldsOf[kind][part][reports[i]]
           Last(g, i) == g \in Target(i)
                         /\ \A j \in items : j > i => g \notin Target(j)
           written == UNION {Target(i) : i \in items}
           value(g) == IF g \in written
                       THEN Reading(instance, reports[CHOOSE i \in items : Last(g, i)])
                       ELSE record[g]
           w == Written(record, part, instance, items)
<1>1. w = [g \in DOMAIN record \union written |-> value(g)]
  BY Zenon DEF Written
<1>2. items \subseteq {1, 2}
  BY ReplyItems
<1>3. ASSUME NEW f \in written
      PROVE  \E i \in items : Last(f, i)
  <2>1. PICK i \in items : f \in Target(i)
    OBVIOUS
  <2>2. CASE 2 \in items /\ f \in Target(2)
    <3>1. Last(f, 2)
      BY <1>2, <2>2
    <3> QED
      BY <2>2, <3>1
  <2>3. CASE ~(2 \in items /\ f \in Target(2))
    <3>1. i = 1
      BY <1>2, <2>1, <2>3
    <3>2. Last(f, 1)
      BY <1>2, <2>1, <2>3, <3>1
    <3> QED
      BY <3>1, <3>2
  <2> QED
    BY <2>2, <2>3
<1>4. ASSUME NEW f \in written
      PROVE  \E i \in items : f \in Target(i) /\ value(f) = Reading(instance, reports[i])
  <2> DEFINE c == CHOOSE i \in items : Last(f, i)
  <2>2. c \in items /\ Last(f, c)
    BY <1>3
  <2> QED
    BY <2>2
<1>5. \A i \in items : \A f : f \in Target(i) <=> StoredItem(part, i, f)
  BY ReplyItems DEF StoredItem
<1>6. \A f : f \in written <=> \E i \in items : f \in Target(i)
  OBVIOUS
<1>7. ASSUME NEW f \in written
      PROVE  \E i \in items : StoredItem(part, i, f)
                              /\ value(f) = Reading(instance, reports[i])
  BY <1>4, <1>5
<1>8. \A f : f \notin written => value(f) = record[f]
  OBVIOUS
<1> HIDE DEF written, value, w, Target
<1>9. ASSUME NEW f \in DOMAIN w
      PROVE  \/ f \in DOMAIN record /\ w[f] = record[f]
             \/ \E i \in items : /\ StoredItem(part, i, f)
                                 /\ w[f] = Reading(instance, reports[i])
  <2>1. w[f] = value(f) /\ f \in DOMAIN record \union written
    BY <1>1
  <2>2. CASE f \in written
    BY <1>7, <2>1, <2>2
  <2>3. CASE f \notin written
    BY <1>8, <2>1, <2>3
  <2> QED
    BY <2>2, <2>3
<1>10. ASSUME NEW i \in items, NEW f \in Stored(Keys(kind, part), reports[i])
       PROVE  /\ f \in DOMAIN w
              /\ \E j \in items : /\ StoredItem(part, j, f)
                                  /\ w[f] = Reading(instance, reports[j])
  <2>1. f \in written
    BY <1>5, <1>6 DEF StoredItem
  <2>2. w[f] = value(f) /\ f \in DOMAIN w
    BY <1>1, <2>1
  <2> QED
    BY <1>7, <2>1, <2>2
<1> QED
  BY <1>9, <1>10 DEF w, FromRecordOrReply, HasReply

----------------------------------------------------------------------------
(* The inductive invariants.                                               *)

\* Every value of a record is one of a name that is stored in its field.
Holds(record, part, asked, now) ==
    \A f \in DOMAIN record :
        \E n \in NamesOf[kind][part] :
            /\ f \in Stored(Keys(kind, part), n)
            /\ \/ record[f] = Zero
               \/ \E t \in 0..now :
                     record[f] = [of |-> SourceOf(n), asked |-> asked, at |-> t]

\* The three records hold such values only.
Records ==
    /\ Holds(info, "info", Asked("info"), clock)
    /\ Holds(stats, "stats", Asked("stats"), clock)
    /\ \E part \in Parts : Holds(sent, part, 0, clock)

\* The reply about a part was read whole between two times.
Fresh(record, part, from, to) ==
    SetOf(reports) \subseteq NamesOf[kind][part] =>
        \A name \in SetOf(reports) :
            \/ name \in Lost
            \/ \E m \in SetOf(reports) : <<m, name>> \in Misplaced
            \/ /\ name \in DOMAIN record
               /\ \E t \in from..to :
                     record[name] = [of |-> name, asked |-> Asked(part), at |-> t]

\* The last read came to its end without an error.
Read == pc = "idle" /\ result = "ok"
FreshInv ==
    kind \in {"Line", "Channel"} =>
        /\ pc = "stats" \/ Read => Fresh(info, "info", began, clock)
        /\ Read => Fresh(stats, "stats", began, clock)

\* The octets agree with the standards from the reply about the line on.
OctetsInv ==
    (kind = "Line" /\ (pc = "stats" \/ Read)) =>
        /\ <<"XTSE">> \in SetOf(reports) =>
              Decoded(texts.XTSE) = UNION {BitsOf[s] : s \in StandardsSupported}
        /\ {<<"StandardUsed">>, <<"XTSUsed">>} \subseteq SetOf(reports) =>
              Decoded(texts.XTSUsed) = BitsOf[texts.used]

\* The elements of a pair.
LEMMA PairSet ==
    ASSUME NEW S, NEW r \in S \X S
    PROVE  SetOf(r) = {r[1], r[2]}
<1>1. PICK a \in S, b \in S : r = <<a, b>>
  OBVIOUS
<1>2. SetOf(<<a, b>>) = {a, b}
  BY DEF SetOf
<1> QED
  BY <1>1, <1>2

\* A behaviour starts on an object of its kind.
LEMMA StaticInit == Init => Static
<1> SUFFICES ASSUME Init PROVE Static
  OBVIOUS
<1>1. kind \in Kinds /\ kind \in Objects
  BY ReadoutConstants DEF Init, Objects
<1>2. entry \in 0..1
  <2>1. entry \in CASE kind = "Line" -> {0} [] kind = "Channel" -> {0, 1}
                    [] OTHER -> {1}
    BY DEF Init
  <2> QED
    BY <2>1
<1>3. PICK part \in Parts : reports \in NamesOf[kind][part] \X NamesOf[kind][part]
  BY DEF Init
<1>4. SetOf(reports) = {reports[1], reports[2]}
  BY <1>3, PairSet
<1> QED
  BY <1>1, <1>2, <1>3, <1>4 DEF Init, Static

\* No step changes what the behaviour follows.
LEMMA DriverStays == [Next]_vars => UNCHANGED driver
BY DEF Next, vars, driver, object, GetEntry, NoReply, GetInfo, GetStats, GetLinkStats, SetEnable,
       Harvest, Tick, Finish

\* The object is the same after every step.
LEMMA StaticStep == Static /\ [Next]_vars => Static'
BY DriverStays DEF Static, driver

\* The object is the same in every state.
LEMMA StaticHolds == Spec => []Static
BY StaticInit, StaticStep, PTL DEF Spec

\* No step leaves the range of the clock or the states of the handler.
LEMMA ClocksStep == Clocks /\ [Next]_vars => Clocks'
<1> SUFFICES ASSUME Clocks, [Next]_vars PROVE Clocks'
  OBVIOUS
<1> USE ReadoutConstants
<1>1. CASE GetEntry
  BY <1>1 DEF GetEntry, Clocks, Parts, driver, object
<1>2. CASE NoReply
  BY <1>2 DEF NoReply, Finish, Clocks, Parts, driver, object
<1>3. CASE GetInfo
  BY <1>3 DEF GetInfo, Finish, Clocks, Parts, driver
<1>4. CASE GetStats
  BY <1>4 DEF GetStats, Finish, ResultOf, Clocks, Parts, driver
<1>5. CASE GetLinkStats
  BY <1>5 DEF GetLinkStats, Clocks, Parts, driver
<1>6. CASE SetEnable
  BY <1>6 DEF SetEnable, Clocks, Parts, driver
<1>7. CASE Harvest
  BY <1>7 DEF Harvest, Clocks, Parts, driver
<1>8. CASE Tick
  BY <1>8 DEF Tick, Clocks, Parts, driver, object
<1>9. CASE UNCHANGED vars
  BY <1>9 DEF vars, Clocks, Parts, object
<1> QED
  BY <1>1, <1>2, <1>3, <1>4, <1>5, <1>6, <1>7, <1>8, <1>9 DEF Next

\* Clock, handler and result are in range in every state.
LEMMA ClocksHolds == Spec => []Clocks
<1>1. Init => Clocks
  <2> SUFFICES ASSUME Init PROVE Clocks
    OBVIOUS
  <2>1. clock = 0 /\ began = 0 /\ pc = "idle" /\ result = "none"
    BY DEF Init
  <2>2. enable = FALSE
    BY DEF Init
  <2>3. clock \in 0..MaxClock /\ began \in 0..clock
    BY <2>1, ReadoutConstants
  <2> QED
    BY <2>1, <2>2, <2>3 DEF Clocks
<1> QED
  BY <1>1, ClocksStep, PTL DEF Spec

\* An empty record holds no value that is wrong.
LEMMA NothingHolds ==
    ASSUME NEW part, NEW asked, NEW now
    PROVE  Holds(NoValues, part, asked, now)
BY EmptyValues DEF Holds

\* A record keeps its values while the clock moves on.
LEMMA HoldsLater ==
    ASSUME NEW record, NEW part, NEW asked, Holds(record, part, asked, clock),
           Clocks, clock' \in Nat, clock <= clock', UNCHANGED driver
    PROVE  Holds(record, part, asked, clock')
<1>1. 0..clock \subseteq 0..clock'
  BY DEF Clocks
<1> QED
  BY <1>1 DEF Holds

\* Storing a reply keeps every value with a name of its field.
LEMMA HoldsWritten ==
    ASSUME Static, Clocks, NEW record, NEW part \in Parts, NEW asked,
           Holds(record, part, asked, clock), NEW items, items \subseteq Reply(part)
    PROVE  Holds(Written(record, part, asked, items), part, asked, clock)
<1> DEFINE w == Written(record, part, asked, items)
<1>1. FromRecordOrReply(w, record, part, asked, items)
  BY WrittenFields
<1>2. \A i \in items : reports[i] \in NamesOf[kind][part]
  BY ReplyItems
<1>3. \A n : \/ Reading(asked, n) = Zero
             \/ Reading(asked, n)
                   = [of |-> SourceOf(n), asked |-> asked, at |-> clock]
  BY DEF Reading
<1>4. clock \in 0..clock
  BY DEF Clocks
<1> HIDE DEF w
<1>5. Holds(w, part, asked, clock)
  BY <1>1, <1>2, <1>3, <1>4 DEF Holds, StoredItem, FromRecordOrReply
<1> QED
  BY <1>5 DEF w

\* The clock only moves on, and nothing else moves with it.
LEMMA ClockStep ==
    ASSUME Clocks, [Next]_vars
    PROVE  /\ Clocks' /\ clock \in Nat /\ clock' \in Nat /\ clock <= clock'
           /\ clock' # clock => UNCHANGED <<pc, began, result, object>>
<1>1. Clocks' /\ clock \in Nat /\ clock' \in Nat
  BY ClocksStep DEF Clocks
<1>2. \/ clock' = clock
      \/ clock' = clock + 1 /\ UNCHANGED <<pc, began, result, object>>
  BY DEF Next, vars, GetEntry, NoReply, GetInfo, GetStats, GetLinkStats, SetEnable,
         Harvest, Tick
<1> QED
  BY <1>1, <1>2

\* What a step does to the record of the object.
LEMMA InfoStep ==
    ASSUME [Next]_vars
    PROVE  \/ info' = info
           \/ /\ clock' = clock
              /\ \E items : /\ items \subseteq Reply("info")
                            /\ info' = Written(info, "info", Asked("info"), items)
BY DEF Next, vars, object, GetEntry, NoReply, GetInfo, GetStats, GetLinkStats,
       SetEnable, Harvest, Tick

\* What a step does to its statistics.
LEMMA StatsStep ==
    ASSUME [Next]_vars
    PROVE  \/ stats' = stats
           \/ stats' = NoValues
           \/ /\ clock' = clock
              /\ \E items, old : /\ items \subseteq Reply("stats") /\ old \in {stats, NoValues}
                                 /\ stats' = Written(old, "stats", Asked("stats"), items)
<1>1. CASE GetInfo
  BY <1>1 DEF GetInfo, StatsCleared
<1>2. CASE GetStats
  BY <1>2 DEF GetStats
<1>3. CASE GetLinkStats
  BY <1>3 DEF GetLinkStats, StatsCleared
<1>4. CASE GetEntry \/ NoReply \/ SetEnable \/ Harvest \/ Tick \/ UNCHANGED vars
  BY <1>4 DEF vars, object, GetEntry, NoReply, SetEnable, Harvest, Tick
<1> QED
  BY <1>1, <1>2, <1>3, <1>4 DEF Next

\* What a step does to the report: it is left, or made from one reply.
LEMMA SentStep ==
    ASSUME [Next]_vars
    PROVE  \/ sent' = sent
           \/ /\ clock' = clock
              /\ \E part \in Parts : \E items :
                    /\ Reply(part) # {} /\ items \subseteq Reply(part)
                    /\ LET taken == Taken(part, items)
                       IN  sent' = [f \in DOMAIN taken \intersect Encodings |-> taken[f]]
<1>1. CASE Harvest
  BY <1>1 DEF Harvest, Encodings
<1>2. CASE ~Harvest
  BY <1>2 DEF Next, vars, object, GetEntry, NoReply, GetInfo, GetStats, GetLinkStats,
              SetEnable, Tick
<1> QED
  BY <1>1, <1>2

\* What a report takes of a reply is in the reply.
LEMMA TakenPart ==
    ASSUME NEW part, NEW items
    PROVE  LET taken == Taken(part, items)
               reply == Written(NoValues, part, 0, items)
           IN  /\ \A f \in DOMAIN taken : f \in DOMAIN reply /\ taken[f] = reply[f]
               /\ items # Reply(part) => DOMAIN taken = {}
               /\ items = Reply(part) =>
                     DOMAIN taken = DOMAIN reply \intersect ReportData(kind, part)
<1> DEFINE reply == Written(NoValues, part, 0, items)
<1>1. Taken(part, items) = IF items # Reply(part) THEN NoValues
                           ELSE [f \in DOMAIN reply \intersect ReportData(kind, part) |-> reply[f]]
  BY DEF Taken
<1> HIDE DEF reply
<1>2. CASE items # Reply(part)
  BY <1>1, <1>2, EmptyValues DEF reply
<1>3. CASE items = Reply(part)
  BY <1>1, <1>3 DEF reply
<1> QED
  BY <1>2, <1>3

\* No step puts a value in a field that its name is not stored in.
LEMMA RecordsStep ==
    ASSUME Static, Clocks, Records, [Next]_vars
    PROVE  Records'
<1>1. /\ UNCHANGED driver
      /\ clock' \in Nat /\ clock <= clock'
      /\ "info" \in Parts /\ "stats" \in Parts
  BY ClockStep, DriverStays DEF Parts
<1>2. Holds(info', "info", Asked("info"), clock')
  <2>1. Holds(info, "info", Asked("info"), clock)
    BY DEF Records
  <2>2. CASE info' = info
    BY <1>1, <2>1, <2>2, HoldsLater
  <2>3. CASE info' # info
    BY <1>1, <2>1, <2>3, InfoStep, HoldsWritten
  <2> QED
    BY <2>2, <2>3
<1>3. Holds(stats', "stats", Asked("stats"), clock')
  <2>1. Holds(stats, "stats", Asked("stats"), clock)
    BY DEF Records
  <2>2. CASE stats' = stats
    BY <1>1, <2>1, <2>2, HoldsLater
  <2>3. CASE stats' = NoValues
    BY <2>3, NothingHolds
  <2>4. CASE stats' # stats /\ stats' # NoValues
    BY <1>1, <2>1, <2>4, StatsStep, HoldsWritten, NothingHolds
  <2> QED
    BY <2>2, <2>3, <2>4
<1>4. \E part \in Parts : Holds(sent', part, 0, clock')
  <2>1. CASE sent' = sent
    BY <1>1, <2>1, HoldsLater DEF Records
  <2>2. CASE sent' # sent
    <3>1. PICK part \in Parts : \E items :
                /\ clock' = clock /\ items \subseteq Reply(part)
                /\ LET taken == Taken(part, items)
                   IN  sent' = [f \in DOMAIN taken \intersect Encodings |-> taken[f]]
      BY <2>2, SentStep
    <3>5. PICK items :
                /\ clock' = clock /\ items \subseteq Reply(part)
                /\ LET taken == Taken(part, items)
                   IN  sent' = [f \in DOMAIN taken \intersect Encodings |-> taken[f]]
      BY <3>1
    <3> DEFINE reply == Written(NoValues, part, 0, items)
    <3>2. Holds(reply, part, 0, clock)
      BY <3>5, HoldsWritten, NothingHolds
    <3>3. \A f \in DOMAIN sent' : f \in DOMAIN reply /\ sent'[f] = reply[f]
      BY <3>5, TakenPart
    <3> HIDE DEF reply
    <3>4. Holds(sent', part, 0, clock)
      BY <3>2, <3>3 DEF Holds
    <3> QED
      BY <3>5, <3>4
  <2> QED
    BY <2>1, <2>2
<1>5. Asked("info")' = Asked("info") /\ Asked("stats")' = Asked("stats")
  BY <1>1 DEF Asked, driver
<1> QED
  BY <1>1, <1>2, <1>3, <1>4, <1>5 DEF Records, Holds, driver

\* Every value is, in every state, of a name stored in its field.
LEMMA RecordsHolds == Spec => []Records
<1>1. Init => Records
  BY NothingHolds DEF Init, Records, Parts
<1>2. Static /\ Clocks /\ Records /\ [Next]_vars => Records'
  BY RecordsStep
<1> QED
  BY <1>1, <1>2, StaticHolds, ClocksHolds, PTL DEF Spec

\* A number that is no word, and no count of the client's, is read as it is.
LEMMA ReadingOwn ==
    ASSUME NEW instance, NEW n, n \notin Lost
    PROVE  Reading(instance, n) = [of |-> n, asked |-> instance, at |-> clock]
BY DEF Reading, Lost, SourceOf

\* A whole reply leaves every parameter's own value, unless another one is
\* stored over it.
LEMMA WholeReply ==
    ASSUME Static, Clocks, kind \in {"Line", "Channel"}, NEW part \in Parts,
           SetOf(reports) \subseteq NamesOf[kind][part], NEW record, NEW instance,
           NEW items, items = Reply(part),
           NEW name \in SetOf(reports), name \notin Lost,
           \A m \in SetOf(reports) : <<m, name>> \notin Misplaced
    PROVE  LET w == Written(record, part, instance, items)
           IN  /\ name \in DOMAIN w
               /\ w[name] = [of |-> name, asked |-> instance, at |-> clock]
<1> DEFINE w == Written(record, part, instance, items)
<1>1. items = {1, 2}
  BY DEF Reply
<1>2. PICK i \in items : reports[i] = name
  BY <1>1 DEF Static
<1>3. name \in Stored(Keys(kind, part), reports[i])
  <2>1. Stored(Keys(kind, part), name) = {name}
    BY StoresItself
  <2> QED
    BY <1>2, <2>1
<1>4. HasReply(w, part, instance, items)
  BY WrittenFields
<1> HIDE DEF w
<1>8. /\ name \in DOMAIN w
      /\ \E j \in items : /\ StoredItem(part, j, name)
                          /\ w[name] = Reading(instance, reports[j])
  BY <1>3, <1>4 DEF HasReply
<1>5. PICK j \in items : /\ name \in Stored(Keys(kind, part), reports[j])
                               /\ w[name] = Reading(instance, reports[j])
  BY <1>8 DEF StoredItem
<1>6. reports[j] \in SetOf(reports) /\ reports[j] \in NamesOf[kind][part]
  BY <1>1, <1>5 DEF Static
<1>7. reports[j] = name
  <2>1. name = reports[j] \/ <<reports[j], name>> \in Misplaced
    BY <1>5, <1>6, StoredPlace DEF Static
  <2> QED
    BY <1>6, <2>1
<1> QED
  BY <1>5, <1>7, <1>8, ReadingOwn DEF w

\* A whole reply makes a record fresh.
LEMMA FreshRead ==
    ASSUME Static, Clocks, kind \in {"Line", "Channel"}, NEW part \in Parts, NEW record
    PROVE  Fresh(Written(record, part, Asked(part), Reply(part)), part, began, clock)
<1> DEFINE w == Written(record, part, Asked(part), Reply(part))
<1> SUFFICES ASSUME SetOf(reports) \subseteq NamesOf[kind][part],
                    NEW name \in SetOf(reports), name \notin Lost,
                    \A m \in SetOf(reports) : <<m, name>> \notin Misplaced
             PROVE  /\ name \in DOMAIN w
                    /\ \E t \in began..clock :
                          w[name] = [of |-> name, asked |-> Asked(part), at |-> t]
  BY DEF Fresh
<1>1. clock \in began..clock
  BY DEF Clocks
<1>2. /\ name \in DOMAIN w
      /\ w[name] = [of |-> name, asked |-> Asked(part), at |-> clock]
  BY WholeReply
<1> QED
  BY <1>1, <1>2

\* What was read stays read while the clock moves on.
LEMMA FreshLater ==
    ASSUME NEW record, NEW part, Clocks, Fresh(record, part, began, clock),
           NEW later \in Nat, clock <= later
    PROVE  Fresh(record, part, began, later)
<1>1. began..clock \subseteq began..later
  BY DEF Clocks
<1> QED
  BY <1>1 DEF Fresh

\* No step takes a fresh value away while the result says success.
LEMMA FreshStep ==
    ASSUME Static, Clocks, FreshInv, [Next]_vars
    PROVE  FreshInv'
<1> SUFFICES ASSUME kind \in {"Line", "Channel"}
             PROVE  /\ pc' = "stats" \/ Read' => Fresh(info', "info", began', clock')
                    /\ Read' => Fresh(stats', "stats", began', clock')
  <2>1. UNCHANGED driver
    BY DriverStays
  <2> QED
    BY <2>1 DEF FreshInv, Fresh, Asked, driver
<1>1. /\ clock' \in Nat /\ clock <= clock'
      /\ "info" \in Parts /\ "stats" \in Parts
  BY ClockStep DEF Parts
<1>2. CASE GetEntry
  BY <1>2 DEF GetEntry, Read
<1>3. CASE NoReply
  BY <1>3 DEF NoReply, Finish, Read, Parts
<1>4. CASE GetInfo
  <2>1. /\ clock' = clock /\ pc' \in {"stats", "idle"}
        /\ pc' = "idle" => result' = "failed"
        /\ pc' = "stats" => /\ info' = Written(info, "info", Asked("info"), Reply("info"))
                            /\ began' = began
    BY <1>4 DEF GetInfo, Finish
  <2> QED
    BY <1>1, <2>1, FreshRead DEF Read
<1>5. CASE GetStats
  <2>1. /\ clock' = clock /\ pc = "stats" /\ pc' = "idle" /\ began' = began /\ info' = info
        /\ result' = "ok" => stats' = Written(stats, "stats", Asked("stats"), Reply("stats"))
    BY <1>5 DEF GetStats, Finish, ResultOf
  <2>2. Fresh(info', "info", began', clock')
    BY <2>1 DEF FreshInv
  <2> QED
    BY <1>1, <2>1, <2>2, FreshRead DEF Read
<1>6. CASE GetLinkStats \/ SetEnable
  BY <1>6 DEF GetLinkStats, SetEnable
<1>7. CASE Harvest
  BY <1>7 DEF Harvest, FreshInv, Read
<1>8. CASE Tick
  <2>1. UNCHANGED <<pc, result, began, info, stats>>
    BY <1>8 DEF Tick, object
  <2> QED
    BY <1>1, <2>1, FreshLater DEF FreshInv, Read
<1>9. CASE UNCHANGED vars
  BY <1>9 DEF vars, object, FreshInv, Read
<1> QED
  BY <1>2, <1>3, <1>4, <1>5, <1>6, <1>7, <1>8, <1>9 DEF Next

\* After a read without an error the values are fresh, in every state.
LEMMA FreshHolds == Spec => []FreshInv
<1>1. Init => FreshInv
  BY DEF Init, FreshInv, Read
<1>2. Static /\ Clocks /\ FreshInv /\ [Next]_vars => FreshInv'
  BY FreshStep
<1> QED
  BY <1>1, <1>2, StaticHolds, ClocksHolds, PTL DEF Spec

----------------------------------------------------------------------------
(* The properties.                                                         *)

(* The strengthening: a request for statistics is only sent after they     *)
(* were cleared, and a link (whose counters come in a single request) is   *)
(* never between two requests.                                             *)
ClearedFirst == pc = "stats" => stats = NoValues
LinkIdle == kind \in {"PTM", "ATM"} => pc = "idle"
StatsInv == ClearedFirst /\ LinkIdle /\ StatsOfOneReply

(* Counters of one reply, never of two.                                    *)
THEOREM StatsOfOneReplyHolds == Spec => []StatsOfOneReply
PROOF
<1>1. Init => StatsInv
  BY EmptyValues DEF Init, StatsInv, ClearedFirst, LinkIdle, StatsOfOneReply
<1>2. StatsInv /\ [Next]_vars => StatsInv'
  <2> SUFFICES ASSUME StatsInv, [Next]_vars PROVE StatsInv'
    OBVIOUS
  <2>1. CASE GetEntry
    BY <2>1 DEF GetEntry, StatsInv, ClearedFirst, LinkIdle,
                StatsOfOneReply, object, driver
  <2>2. CASE NoReply
    BY <2>2 DEF NoReply, Finish, StatsInv, ClearedFirst, LinkIdle, StatsOfOneReply,
                object, driver
  <2>3. CASE GetInfo
    <3>1. /\ \/ stats' = NoValues
             \/ stats' = stats /\ pc' = "idle"
          /\ LinkIdle'
      BY <2>3 DEF GetInfo, Finish, StatsCleared, StatsInv, LinkIdle, driver
    <3> QED
      BY <3>1, EmptyValues DEF StatsInv, ClearedFirst, StatsOfOneReply
  <2>4. CASE GetStats
    <3>1. stats = NoValues /\ pc' = "idle"
      BY <2>4 DEF GetStats, Finish, StatsInv, ClearedFirst
    <3>2. PICK items : stats' = Written(NoValues, "stats", Asked("stats"), items)
      BY <2>4, <3>1 DEF GetStats
    <3> QED
      BY <3>1, <3>2, WrittenOnce DEF StatsInv, ClearedFirst, LinkIdle, StatsOfOneReply
  <2>5. CASE GetLinkStats
    <3>1. /\ ClearedFirst' /\ LinkIdle'
      BY <2>5 DEF GetLinkStats, StatsInv, ClearedFirst, LinkIdle, driver
    <3>2. CASE enable
      <4>1. PICK items : stats' = Written(NoValues, "stats", Asked("stats"), items)
        BY <2>5, <3>2 DEF GetLinkStats, StatsCleared
      <4>2. StatsOfOneReply'
        BY <4>1, WrittenOnce DEF StatsOfOneReply
      <4> QED
        BY <3>1, <4>2 DEF StatsInv
    <3>3. CASE ~enable
      BY <2>5, <3>3 DEF GetLinkStats, StatsInv, ClearedFirst, LinkIdle, StatsOfOneReply
    <3> QED
      BY <3>2, <3>3
  <2>6. CASE SetEnable \/ Harvest \/ Tick
    BY <2>6 DEF SetEnable, Harvest, Tick, StatsInv, ClearedFirst, LinkIdle,
                StatsOfOneReply, object, driver
  <2>7. CASE UNCHANGED vars
    BY <2>7 DEF vars, StatsInv, ClearedFirst, LinkIdle, StatsOfOneReply, object,
               driver
  <2> QED
    BY <2>1, <2>2, <2>3, <2>4, <2>5, <2>6, <2>7 DEF Next
<1>3. StatsInv => StatsOfOneReply
  BY DEF StatsInv
<1> QED
  BY <1>1, <1>2, <1>3, PTL DEF Spec

\* A statistics name with one component is a traffic name.
LEMMA StatsSingles ==
    ASSUME NEW k \in {"Line", "Channel"}, NEW s, <<s>> \in NamesOf[k]["stats"]
    PROVE  <<s>> \in TrafficNames
<1>1. <<s>> \in SetOf(Keys(k, "stats")) \ {Retrain} \/ <<s>> = QuarterRetrain
  BY NamesIn DEF Objects, Parts
<1>2. StatsShape(Keys(k, "stats"), CountersOf(k), DaysOf(k))
  BY StatsShapes
<1>3. <<s>> # QuarterRetrain
  BY DEF QuarterRetrain
<1> QED
  BY <1>1, <1>2, <1>3, TrafficChain DEF StatsShape, DayRetrain

\* After a whole reply that told of them, the octets name the standards.
LEMMA OctetsRead ==
    ASSUME Static, kind = "Line", NEW items, items = Reply("info"), NEW m \in Modes
    PROVE  LET t == Derived(Texts(items, m))
           IN  /\ <<"XTSE">> \in SetOf(reports) =>
                     Decoded(t.XTSE) = UNION {BitsOf[s] : s \in StandardsSupported}
               /\ {<<"StandardUsed">>, <<"XTSUsed">>} \subseteq SetOf(reports) =>
                     Decoded(t.XTSUsed) = BitsOf[t.used]
<1> DEFINE u == Texts(items, m)
           t == Derived(u)
           supported == UNION {BitsOf[s] : s \in StandardsSupported}
<1>1. /\ Decoded(Octets(StandardsSupported)) = supported
      /\ Decoded(Octets({m})) = BitsOf[m]
  <2>1. Decoded(Octets({m})) = UNION {BitsOf[s] : s \in {m}}
    BY OctetsAgree
  <2> QED
    BY <2>1, OctetsAgree
<1>2. /\ Decoded(Encoded(supported)) = supported
      /\ Decoded(Encoded(BitsOf[m])) = BitsOf[m]
  <2>1. supported \in SUBSET (1..64) /\ BitsOf[m] \in SUBSET (1..64)
    BY BitsTyped
  <2> HIDE DEF supported
  <2> QED
    BY <2>1, DecodedEncoded
<1>3. m \notin KnownStandards => BitsOf[m] = {}
  BY DEF BitsOf, KnownStandards
<1>4. ASSUME NEW x \in {"XTSE", "XTSUsed"}, <<x>> \in SetOf(reports)
      PROVE  items = {1, 2}
  <2>1. PICK part \in Parts : SetOf(reports) \subseteq NamesOf[kind][part]
    BY DEF Static
  <2>2. <<x>> \notin TrafficNames
    BY DEF TrafficNames
  <2>3. part = "info"
    BY <1>4, <2>1, <2>2, StatsSingles DEF Parts
  <2> QED
    BY <2>1, <2>3 DEF Reply
<1>5. ASSUME NEW x, <<x>> \in SetOf(reports), items = {1, 2}
      PROVE  Took(items, x)
  BY <1>5 DEF Took, Static
<1>6. /\ t.used = u.used
      /\ t.XTSE = IF u.XTSE = Blank THEN Octets(StandardsSupported) ELSE u.XTSE
      /\ t.XTSUsed = IF u.XTSUsed = Blank /\ u.used \in KnownStandards
                     THEN Octets({u.used}) ELSE u.XTSUsed
  BY DEF Derived, Texts
<1>7. /\ Took(items, "XTSE") => u.XTSE = IF blank THEN Blank ELSE Encoded(supported)
      /\ Took(items, "XTSUsed") => u.XTSUsed = IF blank THEN Blank ELSE Encoded(BitsOf[m])
      /\ Took(items, "StandardUsed") => u.used = m
  BY DEF Texts
<1> HIDE DEF t, u, supported
<1>8. <<"XTSE">> \in SetOf(reports) => Decoded(t.XTSE) = supported
  BY <1>1, <1>2, <1>4, <1>5, <1>6, <1>7
<1>9. {<<"StandardUsed">>, <<"XTSUsed">>} \subseteq SetOf(reports) =>
         Decoded(t.XTSUsed) = BitsOf[t.used]
  BY <1>1, <1>2, <1>3, <1>4, <1>5, <1>6, <1>7, DecodedBlank
<1> QED
  BY <1>8, <1>9 DEF t, u, supported

\* No step makes the octets disagree with the standards.
LEMMA OctetsStep ==
    ASSUME Static, Clocks, OctetsInv, [Next]_vars
    PROVE  OctetsInv'
<1> SUFFICES ASSUME kind = "Line", pc' = "stats" \/ Read'
             PROVE  /\ <<"XTSE">> \in SetOf(reports) =>
                          Decoded(texts.XTSE') = UNION {BitsOf[s] : s \in StandardsSupported}
                    /\ {<<"StandardUsed">>, <<"XTSUsed">>} \subseteq SetOf(reports) =>
                          Decoded(texts.XTSUsed') = BitsOf[texts.used']
  <2>1. UNCHANGED driver
    BY DriverStays
  <2> QED
    BY <2>1 DEF OctetsInv, driver
<1>1. CASE GetInfo
  <2>1. pc' = "stats"
    BY <1>1 DEF GetInfo, Finish, Read
  <2>2. ModesTold \subseteq Modes
    BY ReadoutConstants DEF ModesTold
  <2>3. PICK m \in ModesTold : texts' = Derived(Texts(Reply("info"), m))
    BY <1>1, <2>1 DEF GetInfo, Finish
  <2> QED
    BY <2>2, <2>3, OctetsRead
<1>2. CASE GetEntry \/ NoReply
  BY <1>2 DEF GetEntry, NoReply, Finish, Read, Parts, OctetsInv, object
<1>3. CASE GetStats
  BY <1>3 DEF GetStats, OctetsInv
<1>4. CASE GetLinkStats \/ SetEnable
  BY <1>4 DEF GetLinkStats, SetEnable
<1>5. CASE Harvest \/ Tick \/ UNCHANGED vars
  BY <1>5 DEF Harvest, Tick, vars, object, OctetsInv, Read
<1> QED
  BY <1>1, <1>2, <1>3, <1>4, <1>5 DEF Next

\* From the reply on, the octets agree with the standards.
LEMMA OctetsHolds == Spec => []OctetsInv
<1>1. Init => OctetsInv
  BY DEF Init, OctetsInv, Read
<1>2. Static /\ Clocks /\ OctetsInv /\ [Next]_vars => OctetsInv'
  BY OctetsStep
<1> QED
  BY <1>1, <1>2, StaticHolds, ClocksHolds, PTL DEF Spec

\* XTSE and XTSUsed name the bits that the enumeration of xdsl_hal.h gives
\* the standards, after every read of a line without an error, for every
\* set of standards a driver may report.
THEOREM OctetsNameStandardsHolds == Spec => []OctetsNameStandards
<1>1. OctetsInv => OctetsNameStandards
  BY DEF OctetsInv, Read, OctetsNameStandards
<1> QED
  BY <1>1, OctetsHolds, PTL

\* A field that a parameter is stored in is one of a parameter.
LEMMA StoredIsName ==
    ASSUME NEW k \in Objects, NEW part \in Parts, NEW n \in NamesOf[k][part],
           NEW f \in Stored(Keys(k, part), n)
    PROVE  f \in NamesOf[k][part]
<1> DEFINE keys == Keys(k, part)
<1>1. ~(part = "info" /\ k \in {"PTM", "ATM"})
  BY DEF NamesOf
<1>2. NamesOf[k][part] = Names(k, part)
  BY <1>1 DEF NamesOf
<1>3. PICK i \in 1..Len(keys) :
         f = IF keys[i] = Retrain THEN QuarterRetrain ELSE keys[i]
  BY DEF Stored, FirstKey, Retrain, QuarterRetrain
<1>4. keys[i] \in SetOf(keys)
  BY <1>3 DEF SetOf
<1>5. f \in {IF key = Retrain THEN QuarterRetrain ELSE key : key \in SetOf(Keys(k, part))}
  BY <1>3, <1>4
<1> QED
  BY <1>2, <1>5 DEF Names, Retrain, QuarterRetrain

\* A value of a record is empty, or of a name of its object.
LEMMA ValueTyped ==
    ASSUME Static, NEW record, NEW part \in Parts, NEW asked \in 0..1, NEW now \in Nat,
           Holds(record, part, asked, now), NEW f \in DOMAIN record
    PROVE  /\ f \in AllNames[kind]
           /\ record[f].of \in AllNames[kind] \union {<<>>, UpEvents}
           /\ record[f].asked \in 0..1 /\ record[f].at \in 0..now
<1>1. PICK n \in NamesOf[kind][part] :
            /\ f \in Stored(Keys(kind, part), n)
            /\ \/ record[f] = Zero
               \/ \E t \in 0..now :
                     record[f] = [of |-> SourceOf(n), asked |-> asked, at |-> t]
  BY DEF Holds
<1>2. kind \in Objects
  BY DEF Static
<1>3. f \in AllNames[kind] /\ n \in AllNames[kind]
  BY <1>1, <1>2, StoredIsName DEF AllNames, Parts
<1> QED
  BY <1>1, <1>3 DEF Zero, SourceOf

\* Every value that is stored or reported is of a name of the object, of a
\* valid instance, and of a time that has been.
THEOREM TypeCorrect == Spec => []TypeOK
<1>1. Static /\ Clocks /\ Records => TypeOK
  <2> SUFFICES ASSUME Static, Clocks, Records PROVE TypeOK
    OBVIOUS
  <2>1. clock \in Nat /\ 0 \in 0..1 /\ "info" \in Parts /\ "stats" \in Parts
    BY ReadoutConstants DEF Clocks, Parts
  <2>2. Asked("info") \in 0..1 /\ Asked("stats") \in 0..1
    BY DEF Asked, Static
  <2>3. PICK part \in Parts : Holds(sent, part, 0, clock)
    BY DEF Records
  <2>4. Holds(info, "info", Asked("info"), clock) /\ Holds(stats, "stats", Asked("stats"), clock)
    BY DEF Records
  <2>5. \A f \in DOMAIN info :
             /\ f \in AllNames[kind]
             /\ info[f].of \in AllNames[kind] \union {<<>>, UpEvents}
             /\ info[f].asked \in 0..1 /\ info[f].at \in 0..clock
    BY <2>1, <2>2, <2>4, ValueTyped
  <2>6. \A f \in DOMAIN stats :
             /\ f \in AllNames[kind]
             /\ stats[f].of \in AllNames[kind] \union {<<>>, UpEvents}
             /\ stats[f].asked \in 0..1 /\ stats[f].at \in 0..clock
    BY <2>1, <2>2, <2>4, ValueTyped
  <2>7. \A f \in DOMAIN sent :
             /\ sent[f].of \in AllNames[kind] \union {<<>>, UpEvents}
             /\ sent[f].asked \in 0..1 /\ sent[f].at \in 0..clock
    BY <2>1, <2>3, ValueTyped
  <2>8. kind \in Kinds /\ entry \in 0..1 /\ blank \in BOOLEAN
    BY DEF Static
  <2>9. /\ clock \in 0..MaxClock /\ began \in 0..clock
        /\ pc \in {"idle"} \union Parts
        /\ result \in {"none", "ok", "failed"}
        /\ enable \in BOOLEAN
    BY DEF Clocks
  <2> QED
    BY <2>5, <2>6, <2>7, <2>8, <2>9 DEF TypeOK
<1> QED
  BY <1>1, StaticHolds, ClocksHolds, RecordsHolds, PTL

\* A getter shows a value that the driver gave under the getter's own name
\* and for its own object, except what Misplaced and Misread list, the count
\* of successful retrains, which is the client's, and the statistics of a
\* channel, which are those of instance 0.
THEOREM ShowsItsOwnHolds == Spec => []ShowsItsOwn
<1>1. Static /\ Records => ShowsItsOwn
  <2> SUFFICES ASSUME Static, Records, NEW name \in Shows, Shown(name) # Zero
               PROVE  /\ \/ Shown(name).of = SourceOf(name)
                         \/ <<Shown(name).of, name>> \in Misplaced \union Misread
                      /\ Shown(name).asked = entry
                         \/ (kind = "Channel" /\ PartOf(name) = "stats")
    BY DEF ShowsItsOwn
  <2> DEFINE part == PartOf(name)
             f == HandedOut(kind, name)
             record == IF part = "info" THEN info ELSE stats
  <2>1. part \in Parts
    BY DEF PartOf, Parts
  <2>2. f \in DOMAIN record /\ Shown(name) = record[f]
    BY DEF Shown
  <2>3. Holds(record, part, Asked(part), clock)
    BY <2>1 DEF Records, Parts
  <2>4. PICK n \in NamesOf[kind][part] :
            /\ f \in Stored(Keys(kind, part), n)
            /\ \E t \in 0..clock :
                  record[f] = [of |-> SourceOf(n), asked |-> Asked(part), at |-> t]
    BY <2>2, <2>3 DEF Holds
  <2>5. f = n \/ <<n, f>> \in Misplaced
    BY <2>1, <2>4, StoredPlace DEF Static
  <2>6. Shown(name).of = SourceOf(n) /\ Shown(name).asked = Asked(part)
    BY <2>2, <2>4
  <2>7. f = name \/ <<f, name>> \in Misread
    BY DEF HandedOut, Misread
  <2>8. f # name => \A m : <<m, f>> \notin Misplaced
    BY <2>7 DEF Misread, Misplaced
  <2>9. n = name \/ <<n, name>> \in Misplaced \union Misread
    BY <2>5, <2>7, <2>8
  <2>11. \/ SourceOf(n) = SourceOf(name)
         \/ <<SourceOf(n), name>> \in Misplaced \union Misread
    <3>1. CASE n = name
      BY <3>1
    <3>2. CASE <<n, name>> \in Misplaced \union Misread
      <4>1. n # Counted
        BY <3>2 DEF Misplaced, Misread, Counted
      <4> QED
        BY <3>2, <4>1 DEF SourceOf
    <3> QED
      BY <2>9, <3>1, <3>2
  <2>10. Asked(part) = entry \/ (kind = "Channel" /\ part = "stats")
    BY DEF Asked
  <2> QED
    BY <2>6, <2>10, <2>11
<1> QED
  BY <1>1, StaticHolds, RecordsHolds, PTL

\* After a read without an error, no parameter of the reply shows a value
\* of an earlier read, was dropped by the chain or written over, except
\* what Lost, Misplaced and Misread list.
THEOREM CurrentAfterReadHolds == Spec => []CurrentAfterRead
<1>1. Static /\ Clocks /\ FreshInv => CurrentAfterRead
  <2> SUFFICES ASSUME Static, Clocks, FreshInv, kind \in {"Line", "Channel"}, Read,
                      NEW name \in SetOf(reports), name \notin Lost,
                      name \notin {p[2] : p \in Misread},
                      ~\E p \in Misplaced : p[2] = name /\ p[1] \in SetOf(reports)
               PROVE  Shown(name).of = name /\ Shown(name).at >= began
    BY DEF CurrentAfterRead, Read
  <2>1. PICK part \in Parts : SetOf(reports) \subseteq NamesOf[kind][part]
    BY DEF Static
  <2>2. PartOf(name) = part
    BY <2>1, PartsApart DEF PartOf, Parts
  <2>3. HandedOut(kind, name) = name
    BY DEF HandedOut, Misread
  <2>4. name \in ParamsOf[kind][part]
    <3>1. name \in Params(kind, part)
      BY <2>1, EveryNameServed
    <3> QED
      BY <3>1 DEF ParamsOf, Static
  <2> DEFINE record == IF part = "info" THEN info ELSE stats
  <2>5. Fresh(record, part, began, clock)
    BY DEF FreshInv, Parts
  <2>6. \A m \in SetOf(reports) : <<m, name>> \notin Misplaced
    OBVIOUS
  <2>7. /\ name \in DOMAIN record
        /\ \E t \in began..clock :
              record[name] = [of |-> name, asked |-> Asked(part), at |-> t]
    BY <2>1, <2>5, <2>6 DEF Fresh
  <2>8. Shown(name) = record[name]
    BY <2>2, <2>3, <2>4, <2>7 DEF Shown
  <2> HIDE DEF record
  <2> QED
    BY <2>7, <2>8 DEF Clocks
<1> QED
  BY <1>1, StaticHolds, ClocksHolds, FreshHolds, PTL

\* No step puts part of a failed reply, or of an earlier one, in a report.
LEMMA ReportStep ==
    ASSUME Static, Clocks, ReportsWholeReplies, [Next]_vars
    PROVE  ReportsWholeReplies'
<1>1. UNCHANGED driver /\ clock' \in Nat /\ clock <= clock' /\ clock \in 0..clock
  BY DriverStays, ClockStep DEF Clocks
<1>2. CASE sent' = sent
  <2>1. 0..clock \subseteq 0..clock'
    BY <1>1 DEF Clocks
  <2> QED
    BY <1>1, <1>2, <2>1 DEF ReportsWholeReplies, driver, PartOf
<1>3. CASE sent' # sent
  <2>1. PICK part \in Parts : \E items :
                /\ clock' = clock /\ Reply(part) # {} /\ items \subseteq Reply(part)
                /\ LET taken == Taken(part, items)
                   IN  sent' = [f \in DOMAIN taken \intersect Encodings |-> taken[f]]
    BY <1>3, SentStep
  <2>2. PICK items :
                /\ clock' = clock /\ Reply(part) # {} /\ items \subseteq Reply(part)
                /\ LET taken == Taken(part, items)
                   IN  sent' = [f \in DOMAIN taken \intersect Encodings |-> taken[f]]
    BY <2>1
  <2>3. CASE items # Reply(part)
    <3>1. Taken(part, items) = NoValues
      BY <2>3 DEF Taken
    <3>2. sent' = NoValues
      BY <2>2, <3>1 DEF NoValues
    <3> QED
      BY <3>2 DEF ReportsWholeReplies, NoValues, Zero
  <2>4. CASE items = Reply(part)
    <3> DEFINE reply == Written(NoValues, part, 0, items)
               taken == Taken(part, items)
    <3>1. SetOf(reports) \subseteq NamesOf[kind][part]
      BY <2>2 DEF Reply
    <3>2. /\ \A f \in DOMAIN taken : taken[f] = reply[f]
          /\ DOMAIN taken = DOMAIN reply \intersect ReportData(kind, part)
      BY <2>4, TakenPart
    <3>3. sent' = [f \in DOMAIN taken \intersect Encodings |-> taken[f]]
      BY <2>2
    <3> HIDE DEF taken
    <3>4. ASSUME NEW name \in SetOf(reports), name \in ReportData(kind, PartOf(name))
          PROVE  /\ name \in DOMAIN sent'
                 /\ sent'[name] = [of |-> name, asked |-> 0, at |-> clock]
      <4>1. kind \in {"Line", "Channel"}
        BY <3>4 DEF Static, Objects, ReportData
      <4>2. PartOf(name) = part
        BY <3>1, <4>1, PartsApart DEF PartOf, Parts
      <4>3. name \in Encodings /\ name \notin Lost /\ \A m : <<m, name>> \notin Misplaced
        BY <3>4, <4>2, ReportEncoded, ReportPlaced DEF Static
      <4>4. name \in DOMAIN reply /\ reply[name] = [of |-> name, asked |-> 0, at |-> clock]
        BY <2>4, <3>1, <4>1, <4>3, WholeReply
      <4> QED
        BY <3>2, <3>3, <3>4, <4>2, <4>3, <4>4
    <3> QED
      BY <1>1, <2>2, <3>4 DEF ReportsWholeReplies, PartOf, driver
  <2> QED
    BY <2>3, <2>4
<1> QED
  BY <1>2, <1>3

\* A DSL report carries all that one reply said of what reports are made
\* of, or nothing of it.
THEOREM ReportsWholeRepliesHolds == Spec => []ReportsWholeReplies
<1>1. Init => ReportsWholeReplies
  BY DEF Init, ReportsWholeReplies
<1>2. Static /\ Clocks /\ ReportsWholeReplies /\ [Next]_vars => ReportsWholeReplies'
  BY ReportStep
<1> QED
  BY <1>1, <1>2, StaticHolds, ClocksHolds, PTL DEF Spec

=============================================================================
