----------------------------- MODULE HalReadout -----------------------------
(***************************************************************************)
(* Reading an object from the driver: the data-model thread finds an entry *)
(* (Line_GetEntry, Channel_GetEntry) or asks for a counter (PTM and ATM    *)
(* Stats), the handler asks the driver over JSON RPC, and the getters hand *)
(* out what the replies left in the object's fields, whatever the result.  *)
(* The thread of the DSL report reads the same requests into records of    *)
(* its own.  A behaviour follows one object, and a driver that reports two *)
(* parameters of it, in either order: what a parameter does to a field     *)
(* depends on no third one.                                                *)
(***************************************************************************)
EXTENDS HalTables

CONSTANTS
    Kinds,    \* the objects that behaviours follow
    Modes,    \* the standards that the driver may report as used
    MaxClock  \* bound: how often the driver's values move on

ASSUME ReadoutConstants ==
    /\ Kinds \subseteq {"Line", "Channel", "PTM", "ATM"}
    /\ Modes # {}
    /\ MaxClock \in Nat

VARIABLES
    kind,    \* the object,
    entry,   \* its index: the only line, one of two channels, link 1
    reports, \* the parameters its driver reports, in the order of the reply
    blank,   \* the driver leaves XTSE and XTSUsed all zero
    clock,   \* the state of the driver that its values are taken from
    pc,      \* the next request of the handler, or "idle"
    began,   \* the clock when the handler was called
    result,  \* of the last call
    info,    \* fields of the object that a reply wrote, with their values
    stats,   \* the same for its statistics
    texts,   \* StandardUsed, "" at first; XTSE, XTSUsed: <<>>, then octets
    enable,  \* Enable of a PTM or ATM link
    sent     \* what the last DSL report carried of the object

driver == <<kind, entry, reports, blank>>
object == <<info, stats, texts, enable, sent>>
vars == <<driver, clock, pc, began, result, object>>

Parts == {"info", "stats"}
Objects == {"Line", "Channel", "PTM", "ATM"}

NamesOf ==
    [k \in Objects |-> [part \in Parts |->
        IF part = "info" /\ k \in {"PTM", "ATM"} THEN {} ELSE Names(k, part)]]
AllNames == [k \in Objects |-> NamesOf[k]["info"] \union NamesOf[k]["stats"]]
ParamsOf == [k \in Objects |-> [part \in Parts |-> Params(k, part)]]

\* The instance that the request of a part names.  The statistics of every
\* channel are asked for with the index of the line.
Asked(part) == IF kind = "Channel" /\ part = "stats" THEN 0 ELSE entry

\* Numbers are read with atoi, which makes a 0 of these two words.
Words == {<<"LineEncoding">>, <<"PowerManagementState">>}
Zero == [of |-> <<>>, asked |-> 0, at |-> 0]

\* The client's own count of the times that the line came up; where a reply
\* tells of successful retrains, that count is stored and not the reply's.
UpEvents == <<"g_successful_retrains">>
Counted  == <<"CurrentDay", "X_RDK_SuccessfulRetrains">>

\* What is stored for an item of that name.
SourceOf(name) == IF name = Counted THEN UpEvents ELSE name
Reading(instance, name) ==
    IF name \in Words THEN Zero
    ELSE [of |-> SourceOf(name), asked |-> instance, at |-> clock]

NoValues == [f \in {} |-> Zero]

\* Mutant: the last key that occurs in the name.
LastKey(keys, name) ==
    {i \in 1..Len(keys) :
        /\ Matches(keys[i], name)
        /\ \A j \in (i + 1)..Len(keys) : ~Matches(keys[j], name)}

\* The place of the first key that occurs in the name, if one does.
FirstKey(keys, name) ==
    {i \in 1..Len(keys) :
        /\ Matches(keys[i], name)
        /\ \A j \in 1..(i - 1) : ~Matches(keys[j], name)}

\* Mutant: each key has a field of its own, with the interval left out.
StoredByKey(keys, name) == {keys[i] : i \in FirstKey(keys, name)}

\* The fields that a name is stored in: one, or none.
Stored(keys, name) ==
    {IF keys[i] = <<"X_RDK_LinkRetrain">> THEN <<"QuarterHour", keys[i][1]>>
     ELSE keys[i] : i \in FirstKey(keys, name)}

FieldsOf ==
    [k \in Objects |-> [part \in Parts |->
        [n \in NamesOf[k][part] |-> Stored(Keys(k, part), n)]]]

\* The record after the items of a reply were stored in it in turn.
Written(record, part, instance, items) ==
    LET Target(i) == FieldsOf[kind][part][reports[i]]
        Last(f, i) == f \in Target(i)
                      /\ \A j \in items : j > i => f \notin Target(j)
        written == UNION {Target(i) : i \in items}
    IN  [f \in DOMAIN record \union written |->
            IF f \in written
            THEN Reading(instance, reports[CHOOSE i \in items : Last(f, i)])
            ELSE record[f]]

----------------------------------------------------------------------------
(* XTSE and XTSUsed.                                                       *)

Blank == [k \in 1..8 |-> {}]
Decoded(printed) ==
    UNION {{8 * (8 - k) + shift + 1 : shift \in printed[k]} : k \in 1..8}
Encoded(bits) ==
    [k \in 1..8 |-> {(b - 1) % 8 : b \in {c \in bits : (c - 1) \div 8 = 8 - k}}]

\* The bits of the standards, by the comments of the enumeration; a standard
\* that it does not name has none.
BitsOf ==
    [s \in KnownStandards \union StandardsSupported \union Modes |->
        CASE s \in {"T1.413", "T1.413i2"} -> {1}
          [] s = "ETSI_101_388" -> {2}
          [] s = "G.992.1_Annex_A" -> {3, 4}
          [] s = "G.992.1_Annex_B" -> {5, 6}
          [] s = "G.992.1_Annex_C" -> {7, 8}
          [] s = "G.992.2" -> 9..12
          [] s = "G.992.3_Annex_A" -> {19, 20}
          [] s = "G.992.3_Annex_B" -> {21, 22}
          [] s = "G.992.3_Annex_C" -> {23, 24}
          [] s = "G.992.4" -> {25, 26}
          [] s = "G.992.3_Annex_I" -> {29, 30}
          [] s = "G.992.3_Annex_J" -> {31, 32}
          [] s = "G.992.3_Annex_L" -> 35..38
          [] s = "G.992.3_Annex_M" -> {39, 40}
          [] s = "G.992.5_Annex_A" -> {41, 42}
          [] s = "G.992.5_Annex_B" -> {43, 44}
          [] s = "G.992.5_Annex_C" -> {45, 46}
          [] s = "G.992.5_Annex_I" -> {47, 48}
          [] s = "G.992.5_Annex_J" -> {49, 50}
          [] s = "G.992.5_Annex_M" -> {51, 52}
          [] s = "G.993.2_Annex_A" -> {57}
          [] s = "G.993.2_Annex_B" -> {58}
          [] s = "G.993.2_Annex_C" -> {59}
          [] OTHER -> {}]

Took(items, name) == \E i \in items : reports[i] = <<name>>

\* What a reply in mode m leaves in the texts; the octets of a driver that
\* gives any are right.
Texts(items, m) ==
    LET Given(x, bits) == IF ~Took(items, x) THEN texts[x]
                          ELSE IF blank THEN Blank ELSE Encoded(bits)
    IN  [used |-> IF Took(items, "StandardUsed") THEN m ELSE texts.used,
         XTSE |-> Given("XTSE", UNION {BitsOf[s] : s \in StandardsSupported}),
         XTSUsed |-> Given("XTSUsed", BitsOf[m])]

\* Mutant: worked out from the standard of the reply before this one.
DerivedFromOld(t) ==
    [t EXCEPT !.XTSE = IF @ = Blank THEN Octets(StandardsSupported) ELSE @,
              !.XTSUsed = IF @ = Blank /\ texts.used \in KnownStandards
                          THEN Octets({texts.used}) ELSE @]

\* After a whole reply, octets that are all zero are worked out from the
\* standards; a standard that is not known leaves them.
Derived(t) ==
    [t EXCEPT !.XTSE = IF @ = Blank THEN Octets(StandardsSupported) ELSE @,
              !.XTSUsed = IF @ = Blank /\ t.used \in KnownStandards
                          THEN Octets({t.used}) ELSE @]

----------------------------------------------------------------------------
(* The requests.  One fails before its first item, or at an item, or not.  *)

Reply(part) ==
    IF SetOf(reports) \subseteq NamesOf[kind][part] THEN {1, 2} ELSE {}

Finish(r) == pc' = "idle" /\ result' = r /\ UNCHANGED began

\* The handler of a line first asks for Enable alone.
GetEntry ==
    /\ pc = "idle" /\ kind \in {"Line", "Channel"}
    /\ \/ kind = "Line" /\ result' = "failed" /\ UNCHANGED pc
       \/ pc' = "info" /\ UNCHANGED result
    /\ began' = clock
    /\ UNCHANGED <<driver, clock, object>>

\* Mutant: the statistics are not cleared.
StatsKept == stats

\* The statistics are cleared before they are asked for.
StatsCleared == NoValues

NoReply ==
    /\ pc \in Parts
    /\ Finish("failed")
    /\ UNCHANGED <<driver, clock, object>>

\* The standards in use that a reply may tell of; with one of StandardUsed
\* and XTSUsed unreported they are all alike.
ModesTold ==
    IF {<<"StandardUsed">>, <<"XTSUsed">>} \subseteq SetOf(reports) THEN Modes
    ELSE {CHOOSE m \in Modes : TRUE}

GetInfo ==
    /\ pc = "info"
    /\ \E items \in {1..n : n \in 0..2}, m \in ModesTold :
        /\ items \subseteq Reply("info")
        /\ info' = Written(info, "info", Asked("info"), items)
        /\ IF items = Reply("info")
           THEN /\ texts' = Derived(Texts(items, m))
                /\ stats' = StatsCleared
                /\ pc' = "stats" /\ UNCHANGED <<began, result>>
           ELSE /\ texts' = Texts(items, m)
                /\ Finish("failed") /\ UNCHANGED stats
    /\ UNCHANGED <<driver, clock, enable, sent>>

\* Mutant: an item that cannot be read ends the request with success.
ResultOfAny(items) == "ok"

ResultOf(items) == IF items = Reply("stats") THEN "ok" ELSE "failed"

GetStats ==
    /\ pc = "stats"
    /\ \E items \in {1..n : n \in 0..2} :
        /\ items \subseteq Reply("stats")
        /\ stats' = Written(stats, "stats", Asked("stats"), items)
        /\ Finish(ResultOf(items))
    /\ UNCHANGED <<driver, clock, info, texts, enable, sent>>

\* A counter of a PTM or ATM link: every item that can be read is stored.
\* The counters of a disabled link stay as they are.
GetLinkStats ==
    /\ kind \in {"PTM", "ATM"}
    /\ \/ /\ enable
          /\ \E items \in SUBSET Reply("stats"), r \in {"ok", "failed"} :
                /\ r = "failed" => items = {}
                /\ stats' = Written(StatsCleared, "stats", Asked("stats"), items)
                /\ result' = r
          /\ began' = clock
       \/ ~enable /\ result' = "ok" /\ UNCHANGED <<stats, began>>
    /\ UNCHANGED <<driver, clock, pc, info, texts, enable, sent>>

SetEnable ==
    /\ kind \in {"PTM", "ATM"}
    /\ enable' = ~enable
    /\ UNCHANGED <<driver, clock, pc, began, result, info, stats, texts, sent>>

\* Mutant: takes what there is, whatever the result of the request.
TakenAnyway(part, items) ==
    LET reply == Written(NoValues, part, 0, items)
    IN  [f \in DOMAIN reply \intersect ReportData(kind, part) |-> reply[f]]

\* A request of the report fills a record of its own, and the report takes
\* its share if the whole reply was read.
Taken(part, items) ==
    LET reply == Written(NoValues, part, 0, items)
    IN  IF items # Reply(part) THEN NoValues
        ELSE [f \in DOMAIN reply \intersect ReportData(kind, part) |-> reply[f]]

\* PrepareAndSendXdslReport in the reporter's thread, which shares nothing
\* with the data model: while the link is up, a report goes out whatever its
\* requests came to.
Harvest ==
    /\ kind \in {"Line", "Channel"}
    /\ \E part \in Parts, items \in {1..n : n \in 0..2} :
          /\ Reply(part) # {} /\ items \subseteq Reply(part)
          /\ LET taken == Taken(part, items)
                 encoded == EncodedFirst \union EncodedCurrentDay \union EncodedLast
             IN  sent' = [f \in DOMAIN taken \intersect encoded |-> taken[f]]
    /\ UNCHANGED <<driver, clock, pc, began, result, info, stats, texts, enable>>

\* The counters of the driver move on, the line retrains.
Tick ==
    /\ clock < MaxClock /\ clock' = clock + 1
    /\ UNCHANGED <<driver, pc, began, result, object>>

Init ==
    /\ kind \in Kinds
    /\ entry \in CASE kind = "Line" -> {0} [] kind = "Channel" -> {0, 1}
                   [] OTHER -> {1}
    /\ \E part \in Parts :
          reports \in {r \in NamesOf[kind][part] \X NamesOf[kind][part] :
                         r[1] # r[2]}
    /\ blank \in {b \in BOOLEAN :
                    b => {<<"XTSE">>, <<"XTSUsed">>} \intersect SetOf(reports) # {}}
    /\ clock = 0 /\ pc = "idle" /\ began = 0 /\ result = "none"
    /\ info = NoValues /\ stats = NoValues
    /\ texts = [used |-> "", XTSE |-> <<>>, XTSUsed |-> <<>>]
    /\ enable = FALSE /\ sent = NoValues

Next ==
    \/ GetEntry \/ NoReply \/ GetInfo \/ GetStats
    \/ GetLinkStats \/ SetEnable \/ Harvest \/ Tick

Spec == Init /\ [][Next]_vars

----------------------------------------------------------------------------
(* Properties.                                                             *)

PartOf(name) ==
    IF name \in NamesOf[kind]["stats"] THEN "stats" ELSE "info"

\* What the data model shows of a parameter.
Shown(name) ==
    LET f == HandedOut(kind, name)
        record == IF PartOf(name) = "info" THEN info ELSE stats
    IN  IF name \in ParamsOf[kind][PartOf(name)] /\ f \in DOMAIN record
        THEN record[f] ELSE Zero

\* The parameters that show a field some reply has written.
Shows ==
    {name \in DOMAIN info \union DOMAIN stats
               \union {<<"DownstreamAttenuation">>, <<"BytesReceived">>} :
        name \in AllNames[kind]}

\* Values, fields and results are of their types.
TypeOK ==
    LET IsValue(v) == v.of \in AllNames[kind] \union {<<>>, UpEvents}
                      /\ v.asked \in 0..1 /\ v.at \in 0..clock
    IN  /\ kind \in Kinds /\ entry \in 0..1 /\ blank \in BOOLEAN
        /\ clock \in 0..MaxClock /\ began \in 0..clock
        /\ pc \in {"idle"} \union Parts
        /\ result \in {"none", "ok", "failed"}
        /\ \A r \in {info, stats, sent} : \A f \in DOMAIN r : IsValue(r[f])
        /\ DOMAIN info \union DOMAIN stats \subseteq AllNames[kind]
        /\ enable \in BOOLEAN

\* Names whose value lands in the field of another: a key that occurs in
\* them is tested first.
Misplaced ==
    { << <<"UPBOKLEPb">>, <<"UPBOKLE">> >>,
      << <<"UPBOKLERPb">>, <<"UPBOKLER">> >>,
      << <<"LastShowtimeStart">>, <<"ShowtimeStart">> >>,
      << <<"ACTINPREIN">>, <<"ACTINP">> >> }
    \union
    { << <<"LastShowtime", c>>, <<"Showtime", c>> >> : c \in SetOf(Errors) }

\* Parameters that a getter takes from the field of another.
Misread ==
    { << <<"TRELLISus">>, <<"DownstreamAttenuation">> >>,
      << <<"BytesSent">>, <<"BytesReceived">> >> }

\* Names whose value in a reply is never stored as such.
Lost == {p[1] : p \in Misplaced} \union Words \union {<<"Name">>, Counted}

\* A parameter shows a value that the driver gave under its own name and
\* for its own object, whichever else is reported - except what is listed
\* as misplaced or misread, except the successful retrains, which the client
\* counts itself, and except that the statistics of a channel are those of
\* instance 0.  Chains of strstr tests in xdsl_hal.c, getters in
\* xdsl_dml.c and xtm_dml.c.
ShowsItsOwn ==
    \A name \in Shows :
        LET v == Shown(name)
        IN  \/ v = Zero
            \/ /\ v.of = SourceOf(name)
                 \/ <<v.of, name>> \in Misplaced \union Misread
               /\ v.asked = entry \/ (kind = "Channel" /\ PartOf(name) = "stats")

\* What the comments of the getters say: each retrieves the value of the
\* parameter, of its object.
RetrievesParameter ==
    \A name \in Shows :
        Shown(name) = Zero \/ (Shown(name).of = name /\ Shown(name).asked = entry)

\* When a line or channel was read without an error, every parameter of the
\* reply shows a value no older than the read: none is left from an earlier
\* one, dropped by the chain or overwritten by another.  The handlers ignore
\* the result, so this is what separates a current value from an old one.
CurrentAfterRead ==
    (kind \in {"Line", "Channel"} /\ pc = "idle" /\ result = "ok") =>
        \A name \in SetOf(reports) :
            \/ name \in Lost \union {p[2] : p \in Misread}
            \/ \E p \in Misplaced : p[2] = name /\ p[1] \in SetOf(reports)
            \/ Shown(name).of = name /\ Shown(name).at >= began

\* The statistics never mix counters of two replies: they are cleared before
\* a request that may fail half way (xdsl_apis.c, xtm_apis.c).
StatsOfOneReply ==
    \A f, g \in DOMAIN stats :
        stats[f] = Zero \/ stats[g] = Zero \/ stats[f].at = stats[g].at

\* XTSE and XTSUsed name the bits that the enumeration of xdsl_hal.h gives
\* the standards, if the driver names them or leaves them all zero, and
\* XTSUsed follows a line that retrains in another standard.
OctetsNameStandards ==
    (kind = "Line" /\ pc = "idle" /\ result = "ok") =>
        /\ <<"XTSE">> \in SetOf(reports) =>
              Decoded(texts.XTSE) = UNION {BitsOf[s] : s \in StandardsSupported}
        /\ {<<"StandardUsed">>, <<"XTSUsed">>} \subseteq SetOf(reports) =>
              Decoded(texts.XTSUsed) = BitsOf[texts.used]

\* A report carries all that one reply of the driver said of the first line
\* or channel and that reports are made of, or nothing of it: never a part
\* of a reply that failed, nor a value of an earlier report
\* (XdslPrepareReportData, harvester_report_Xdsl).
ReportsWholeReplies ==
    sent # NoValues =>
        \E t \in 0..clock :
            \A name \in SetOf(reports) :
                name \in ReportData(kind, PartOf(name)) =>
                    /\ name \in DOMAIN sent
                    /\ sent[name] = [of |-> name, asked |-> 0, at |-> t]

=============================================================================
