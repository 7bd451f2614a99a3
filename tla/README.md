# RdkXdslManager: a TLA+ verification project

RdkXdslManager brings up DSL lines on RDK gateways. It listens to the modem
driver through a HAL, runs a state machine per line, creates the PTM or ATM
link over the line, tells the WAN manager when the line can carry traffic, and
sends periodic DSL reports. This directory holds TLA+ models of its concurrent
core, TLC runs over small instances, and TLAPS proofs for all instances.

Paths below are relative to `src/source/TR-181/`; `shared/` is short for
`integration_src.shared/` and `dml/` for `middle_layer_src/`.

## 1. The system

| Part | Code | State it keeps | Operations | Talks to |
|---|---|---|---|---|
| Line state machine | `shared/xdsl_manager.c` | state, private name and lower layers of its thread | one pass per 500 ms, transitions | line record, XTM helpers, WAN manager |
| Line record and data-model calls | `shared/xdsl_apis.c`, `dml/xdsl_dml.c` | `gpstLineGInfo[]`: name, Upstream, WanStatus, LinkStatus, StandardUsed, id of the thread | set Upstream, set WanStatus, link callback, copies, id and standard updates, each under `gmXdslGInfo_mutex` | everything |
| XTM helpers | `shared/xdsl_apis.c` | a thread each; `mCreationCond`, `mDeletionCond` | find, add, configure, disable, delete a PTM or ATM row | XTM agent over the bus, the waiting state machine |
| PHY event queue | `shared/xdsl_apis.c` | a POSIX queue of 100 | send from the HAL callback, receive and set Phy.Status | WAN manager |
| XTM tables | `shared/xtm_apis.c`, `dml/xtm_internal.c`, `dml/xtm_dml.c` | sorted entry lists, next instance number | add, set, validate, commit, rollback, delete | HAL, PSM, XTM helpers |
| DSL report | `shared/xdsl_report.c`, `dml/xdsl_dml.c`, `DmlXdslReportInit` | status, period, default period, override TTL, override time used, staged values, three PSM records | get and set, validate, commit, rollback, reporter loop | PSM, HAL, Parodus |
| Parodus client | `shared/xdsl_report_webpa_intf.c` | the client instance | connect until answered, send with six attempts | Parodus |
| HAL client | `shared/xdsl_hal.c` | RPC connection | get, set, subscribe; XTSE bits | HAL server |
| Data-model getters | `dml/xdsl_dml.c`, `dml/xdsl_internal.c` | copies of HAL data | get | HAL client |
| Plug-in and service | `dml/plugin_main*.c`, `RdkXdslManager/*.c` | registration tables | start-up | CCSP |

Threads: the bus thread that delivers data-model calls; the HAL callback
thread; one state machine per line that is wanted; XTM helpers; the event
handler; reporters. What makes the code hard is that almost every wait is a
timed wait or a poll, that ids and settings are read under a lock (or under
none) and acted on later, and that failed calls are mostly only logged.

What makes each part correct:

* **Line.** One state machine per line; its published id names a live thread
  until it ends; an Up at the WAN manager always has somebody who will take it
  back; Upstream FALSE ends the machine; a usable line gets announced.
* **XTM helpers.** One link per line and table, there while the state machine
  relies on it and out of use when it has left; no helper outlives what it points
  to.
* **Report.** Enabled means served, disabled means ended; one writer at a time;
  only validated periods are used; data model, settings and store agree; an
  override ends and reporting goes on after it.
* **PHY events.** The WAN manager's last word about the link is that of the
  line record; old messages and lost ones never overtake it; a callback that
  waits for room in the queue gets on.
* **XTM tables.** An instance number names one link; a PTM link and its row of
  `Ethernet.Link` come and go together; only committed settings reach the
  driver; stored settings come back.
* **HAL client, getters, report data.** A parameter shows the value the driver
  gave under its name, for its object, in the last reply; counters are of one
  reply (where the code does so, and the exceptions are listed); XTSE bits are where the enumeration puts them; a report carries whole
  replies.

`PROJECT.json` lists the hazards, each at its line, with the properties that
cover it.

## 2. Modules

| Module | What it is |
|---|---|
| `XdslLine` | the line record, data-model calls, link callback, state machine threads and XTM helpers |
| `WanLinkSession` | abstract: what the WAN manager is promised about `Wan.LinkStatus` |
| `MCXdslLine` | `XdslLine` for TLC, with its symmetry |
| `XdslLineProofs` | theorems about `XdslLine` |
| `XdslLineOrderlyProofs` | one machine, one link per line, under `Prompt` and `Patient` |
| `XdslReport` | the report settings, data-model object, PSM records, bus thread and reporters, with restarts |
| `MCXdslReport` | `XdslReport` for TLC, with its symmetry |
| `XdslReportProofs` | theorems about `XdslReport` |
| `XdslReportCalmProofs` | one reporter, settings that agree, under `Calm` |
| `PhyEvents` | HAL event callback, line record's link state, event queue, event handler, their start-up and restarts |
| `LinkFeed` | abstract: in which order the WAN manager hears of a link's states |
| `MCPhyEvents` | `PhyEvents` for TLC, with the sets of event values |
| `PhyEventsProofs` | theorems about `PhyEvents` |
| `XtmLinks` | the PTM and ATM link tables, their handlers, the driver, `Ethernet.Link` and PSM behind them, crashes |
| `LinkTable` | abstract: what a link table promises its clients |
| `MCXtmLinks` | `XtmLinks` for TLC |
| `XtmLinksProofs` | theorems about `XtmLinks`: the order of the numbers, unique rows |
| `XtmLinksSafetyProofs` | `XtmLinks` implements `LinkTable`; Enable, settings and rows |
| `HalTables` | the chains of keys, the getters, the report's share and the XTSE bits, as tables |
| `HalReadout` | reading an object from the driver, and the DSL report's reading |
| `MCHalReadout` | `HalReadout` for TLC, and the check of every standard's octets |
| `HalReadoutProofs` | theorems about `HalReadout` |

### XdslLine

`line` is `gpstLineGInfo[0]`; `dmlUpstream` the data model's own copy, which
suppresses repeated values; `caller` the progress of `DmlXdslLineSetUpstream`;
`pc`, `smState` and `priv` are a state machine thread's place in the code,
`currentSmState` and private info; `helper` the XTM helpers; `rows` the XTM
agent's tables; `wanLink` the last `Wan.LinkStatus` set.

An action is one critical section of `gmXdslGInfo_mutex` or one call to another
agent, with the code up to the next one. Lookup by name and the write after it
are two sections in `DmlXdslLine_UpdateIfaceTidByGivenIfName`, hence
`LookupToPublish`/`PublishTid` and `LookupToClear`/`ClearTid`. A pass of
`StateXtmConfiguring` is two actions because `isAdslAllowed` lines set
`WanStatus` before the copy is taken. A pass that stays in its state changes
nothing and is a stutter. `TransitionTrained` and
`TransitionPhyInterfaceDown` are split at the start of the helper, the start of
the wait and its end, since a signal before the wait is lost.

The first link event names the line (`NameAtStart = ""` is the program's real
initial state; `"dsl0"` is the state after that first event). Freed private
info is the value `"freed"`; a helper that reads through it may see either
outcome of the comparison.

`rows` holds, per table and number, whether the link is there, its LowerLayers
and Enable, and `fresh`, the `bNew` of the XTM agent, which a commit takes away:
a PTM link or a link that was never committed can be deleted, a committed ATM
link never (`dml/xtm_dml.c:1415` calls `DmlDelAtm(NULL, ...)`, whose arguments
arrive swapped at the driver), so an ADSL line leaves a disabled link behind, and
one that then trains as VDSL has a link in each table. `AddTblRow` returns the
whole number of a new link, but the lookup reads the number from the last two
characters of "...Link.11." (`LastDigit`): `FindRow` hands the helper 1 for 11,
and what it then sets or deletes is link 1, if there is one (`Addressed`).

`Faults` names the calls that may fail. Two more constants describe timing:

* `Prompt`: the bus delivers no new Upstream between `pthread_create` and the
  first instruction of the new thread, and the fifteen one-second passes of
  `DmlXdslLineSetUpstream` are not all spent while the old thread is within its
  last 500 ms pass. `line_double_start` shows what happens otherwise.
* `Patient`: an XTM helper finishes within the 15 s timed wait. Nothing in the code
  bounds a helper's bus calls and its `sleep(2)` to that. What is stated under
  `Patient` is what the code does as long as the XTM agent answers in time; a
  helper that outlives the wait is in `line_races` only, where the rows are not
  spoken of, because then they are not right: the helper may add its link after
  the deletion found none.

Nothing is assumed of either in `line_races` and in the theorems of
`XdslLineProofs`.

### WanLinkSession

Two variables: whether a state machine runs, and the last status reported.
Reports come only while one runs, and the last one ends only when the last word
was not Up. `XdslLine` implements it with `running` as the existence of a live
thread and `link` as `wanLink`.

### XdslReport

`rep` holds the globals of `xdsl_report.c` (lines 45-49). They have no lock,
so a read or write is a step of its own wherever another thread could come in
between: `XdslReportSetStatus` is *compare*, *assign*, *branch* for the bus
thread and for a reporter, and the branch looks at the status as it is by then.
`dml` is the object with its staged values and changed flags, `nvram` the PSM
records, `bus` the place of the bus thread in a request, `reporter` each
reporter's place and what it has read.

`DmlXdslReportInit` reads three records into one variable; a get that fails
leaves what the one before left (`Got`). `BOOL` holds numbers other than 0 and
1, so a status that came from a period is the value 2.

`Calm` says one thing: reporting that is off is enabled only once its last
reporter is gone. Everything else may be requested at any time, in the middle of a
harvest, of a wait or of the end of a reporter: disabling, periods, TTLs, enabling
what is enabled, commits and rollbacks. What it leaves out, enabling while the
last reporter is still on its way out, does lead to two reporters, and the code
has nothing against it. `Room` bounds the slots: a request enables reporting only
while a slot is free for it and for each live reporter. Time is not modelled: a wait may end at any moment, and `spent`
counts override seconds exactly as the code does.

### PhyEvents

`start` is how far `DmlXdslInit` has come, `callback` the HAL thread in
`eventcb`, `queue` the POSIX queue, `handler` the event handler thread with the
message it holds and the word it has chosen, `phy` the `Phy.Status` last taken
by the WAN manager. `LinkStatusOf` is what `eventcb` makes of a published value,
`PhyWordsOf` what the handler makes of a link state.

The write of the line record, `mq_open` and `mq_send` are three steps of the
callback; `mq_receive`, the choice of the word, the lookup and the call to the
WAN manager four of the handler. `Restart` forgets everything but the queue,
which is created without `O_EXCL` and never unlinked, and `phy`. While the line
has no name the lookup finds no instance, so messages of an earlier process are
thrown away until the first event of the new one.

`missed` and `handler.told` are history: that the newest state never got into
the queue, and that the WAN manager took the last message. An event before the
callback is registered changes nothing and is a stutter. The LED of HUB4 is a
free choice between the two words it decides on. The model overlaps `XdslLine`
in the link state, which `XdslLine!LinkStatusCallback` writes in one step: the
state machines read the record, never the queue.

`Feed` maps it to `LinkFeed`. What waits there is, oldest first, the message the
handler works on, the queue and the state the callback carries. A refused call or a
line without a name loses the oldest, a missing queue or a failing `mq_send` the
newest, a restart at most one at either end.

### XtmLinks

`kind` picks the table a behaviour follows: the two share no state. `list` and
`next` are `Q_PtmList` (or `Q_AtmList`) and its next instance number, a counter
of `NumMax + 1` values that wraps to 0; `fresh` the entries with `bNew`; `enable`
and `field` what an entry holds; `hal` whether the driver holds an enabled link;
`psm` the stored ATM settings; `ethRows` and `lower` the rows of `Ethernet.Link`
at the VLAN manager.

One data-model thread serves all requests, so a handler that calls nobody, or
one process once, is one action. The commit of a new PTM link and the deletion
of a committed one call several agents and may crash in between: `op` is their
place (`CommitPtm`, `FindForCommit`, `AddEthRow`, `SetEthRow`; `DelPtm`,
`DropEthRow`, `DropEntry`). `Fails` is a call that fails, counted together with
crashes by `MaxFailures`. `FirstFree` says in one formula where the loop of
`PtmGenForTriggerEntry` ends, `IsSlot` and `InsertedAt` where
`SListPushEntryByInsNum` puts the entry.

What the code does and a reader may not expect is modelled as it is: the Enable
of PTM goes to the first link of the list whichever is meant (`Drive`,
`GetEnable` overwrites the field with the answer); `MaximumBurstSize` lives in
the field of `PeakCellRate` (`FieldOf`); the number of a row is read from two
characters of its name (`LastDigit`); the result of the second call hides that
of the first (`CommitPtm`, `DropEntry`); a committed ATM link can never be
deleted (no action for it).

`asked`, `granted`, `told`, `misled` and `hurt` are history for the properties.

`Table` in `XtmLinks` maps it to `LinkTable`: the entries with `bNew` are `new`,
the others in the list `committed`.

### HalTables and HalReadout

`HalTables` holds data: for every object the keys of `xdsl_hal.c` in the order of
its `strstr` tests, the parameters each getter of `xdsl_dml.c` and `xtm_dml.c`
serves and the field it hands out, what the report takes and encodes, and the
bits of the standards. A name is a path below the object; `OccursIn` lists the
pairs of a key and a longer name that contains it, which is all that `strstr`
adds to equality on these names.

`HalReadout` follows one object (`kind`, `entry`) and a driver that reports two of
its parameters in either order (`reports`). A value is the name it was given
under, the instance that was asked for and the driver's clock at that moment, so
that a wrong field, a wrong object and an old value can each be told. Where the
client stores something else than the reply's value, `Reading` says what: 0 for
the `Words` that `atoi` cannot read, and for `CurrentDay.X_RDK_SuccessfulRetrains`
its own count `g_successful_retrains` (`UpEvents`). `GetEntry`,
`GetInfo` and `GetStats` are `DmlXdslGetLineCfg` and `DmlXdslGetChannelCfg`;
`GetLinkStats` the counters of a PTM or ATM link; `Harvest` the requests of the
DSL report and its encoding; `Tick` moves the driver on. A request fails before
its first item (`NoReply`), at an item, or not at all.

Two parameters are enough because what a reply does to a field depends only on
the last item stored there; which two is free, so every pair of every object is
tried. XTSE and XTSUsed are sets of shifts per octet, the standards are named,
and `BitsOf` is taken from the comments of the enumeration in `xdsl_hal.h`, not
from the function that places the bits. `KnownStandards` are those the
enumeration names; any other name the driver reports has no bit.

## 3. Runs

| Run | Question | Instance |
|---|---|---|
| `line_orderly` | one machine, one link per table and one enabled, none left in use, an enabled one when it should be | 1 bus thread, 2 threads, 2 helpers, rows 1 and 11, all 6 link states, 3 standards, failing WAN calls, Prompt, Patient |
| `line_races` | types, no orphaned Up, the abstract session | unnamed line, 2 threads, 1 helper, no timing assumption, all faults but "wan" |
| `line_live` | Upstream FALSE ends it; loss is withdrawn; gain is announced | 2 threads, 1 helper, 1 row, Prompt, Patient, fairness |
| `line_double_start` | violation: two state machines for one line | as `line_orderly`, not Prompt |
| `report_calm` | one reporter; model, settings and store agree; overrides end; reporting goes on | 3 reporters, Calm, periods 0, 3 (invalid), 5, TTLs 4, 6, restarts, fairness |
| `report_races` | enabled is served, disabled ends | 3 reporters, not Calm, failing harvests, restarts, fairness |
| `report_faults` | types; only valid periods in force | 3 reporters, not Calm, every fault, restarts |
| `report_lost_signal` | violation: a reporter asleep after the request that stopped it | 3 reporters, not Calm |
| `phy_races` | types, the last word, what is settled, a lost link, a blocked callback, the abstract feed | queue of 2, the three driver words and one of the schema, HUB4, every fault, restarts, fairness |
| `xtm_links` | unique ordered numbers, one row per link, rows match links, only committed Enables driven, deletions hit their own row, settings survive, the abstract table | numbers 1 to 3 from 3 on, 2 links, rows 1 and 11, 2 settings, 2 values, 2 failures or crashes |
| `hal_readout` | own value, current value, counters of one reply, XTSE octets, whole replies in reports | line, both channels, PTM, ATM; every ordered pair of parameters; 7 standards; clock up to 2 |
| `hal_misread` | violation: a getter that hands out another parameter | line, clock at 0 |

Every property of a passing run has a mutant in `PROJECT.json`: a plausible bug
in one definition that the property then catches.

### The bounds

Two state machine threads are what two starts need to overlap: the second
overlap would need a third Upstream and shows nothing new, and the theorems
under `Prompt` cover any number. Two helpers let a late creation meet a deletion. Rows 1 and 11 let
a second link appear (`OneRow`) and be full, and are the smallest two that the
last digit confuses. Three reporters let a reporter that
ends start another while a request starts a third. Period 3 is one that
validation refuses; period 5 exceeds a TTL of 4 and is counted twice for one of
6. When
a slot is missing the step that needs it waits, which hides executions with
more threads than slots but creates no new ones. A queue of two is enough to be full, to hold an
old message before a new one, and to become empty one message at a time; the
theorems hold for any length.

Instance numbers 1 to 3 that start at 3 wrap after one addition and meet a link
still in the list; two links at once make an insertion before and after another.
Rows 1 and 11 are the smallest that the last digit confuses. Two failures cover a
failing call whose effect meets a crash, or a crash twice. `SortedUniqueHolds`
and `NoDuplicateEthHolds` hold for any numbers, rows and failures.

The driver's clock moves twice, so that a value can be old, older and current.
Seven standards cover every width of a run of bits, a run in the first and in the
last octet, one that has no bits and one that the client does not know; `EveryStandardPlaced`, an assumption of
`MCHalReadout` that TLC evaluates, compares all of them with the enumeration.
Nothing else is bounded.

### Fairness

Weak fairness for every thread that can take a step: threads are scheduled, and
loops with a retry limit end. None for requests, link events and restarts. The timed wait of a
reporter ends like any other step of it. What the XTM helper
waits for answers within `Patient`.

In `PhyEvents` the start-up, the callback and the handler are fair, events and
restarts are not, nor are the failures of `mq_send` and `mq_receive`, which would
otherwise have to free a blocked callback or end an idle handler. The handler may end on an error and the WAN manager may
refuse values: `LossReported` and `CallbackReturns` say what they except.

## 4. What the violations show

* **Two state machines** (`shared/xdsl_apis.c:487`). The id is published by the
  new thread, so Upstream TRUE, FALSE, TRUE in a row finds no id and starts a
  second thread, against the comment one line above.
* **A lost signal** (`shared/xdsl_report.c:1137`). The loop test and the wait are
  not under one lock, so the stop signal may come between them.
* **A parameter of another name** (`dml/xdsl_dml.c:1242`). The getter of
  `DownstreamAttenuation` returns `TRELLISus`.

`hal_readout` shows what else is stored or read wrongly and, by `ShowsItsOwn`,
that it is all for the names the model has: `BytesReceived` is served from `BytesSent` (`dml/xdsl_dml.c:1416`
and `:2671`); `UPBOKLEPb`, `UPBOKLERPb`, `LastShowtimeStart`, `ACTINPREIN` and a
channel's `LastShowtime` counters are stored under the name that a key tested
earlier has; the statistics of every channel are those of instance 0
(`shared/xdsl_hal.c:1472`). `CurrentDay.X_RDK_SuccessfulRetrains` is not the
driver's value but the client's own count of "up" events, whatever the reply says
(`shared/xdsl_hal.c:1277`). `LineEncoding` and `PowerManagementState` are words
that `atoi` makes 0 of. The line's own information is asked for with the index
that starts at 0.

Three things were met while modelling and have no run of their own:

* Without StandardUsed the state machine reaches `EXIT` with no thread-specific
  data; its id stays published and later requests are refused as "already
  running" (`shared/xdsl_manager.c:268`, fault "standard" of `XdslLine`).
* `eventcb` compares with `up`, `training` and `down`; the HAL schema
  (`src/hal_schema/xdsl_hal_schema.json:633`) prescribes `Up`, `Initializing` and
  so on. Another value leaves `link_status` uninitialised
  (`shared/xdsl_hal.c:1106`), and `phy_races` has such an event.
* A report always encodes `XTSUsed` and `Upstream`, but nothing copies the one
  into it and no key of the HAL client stores the other.

`line_races` shows that even with two machines no Up is orphaned; `report_races`
that a lost signal delays a reporter's end but does not prevent it.

## 5. Proofs

All theorems hold for every value of the constants that satisfies
`LineConstants`, `ReportConstants`, `PhyConstants`, `XtmConstants` or
`ReadoutConstants`.

* `XdslLineProofs!TypeCorrect`, `XdslReportProofs!TypeCorrect`: the type
  invariants, one lemma per group of actions.
* `NoOrphanUpHolds` (assuming "wan" is not among `Faults`): an Up has a thread
  that watches. Inductive together with the typing: only `TransitionWanLinkUp`
  sets Up and its thread then watches; a watching thread leaves only through
  `NotifyWanDown`, which sets Down if the line still knows the thread's name,
  and the name of a line never changes once it is set.
* `LineRefinesSession` (same assumption): from that invariant, the last live
  thread cannot end while Up is the last word, since a thread that ends does
  not watch.
* `OneStateMachineHolds`, `TidNamesLiveThreadHolds` of `XdslLineOrderlyProofs`
  assume `Orderly`: `Prompt`, one bus thread and a line that has its name; the
  second also that neither "setspecific" nor "standard" fails. The invariant
  `SoleInv` says that a live thread is either starting or the published one, and
  that a caller which looks at the id saw no thread starting, so that an id it
  finds empty means no live thread. `TidInv` adds the converse.
* `ConfiguringHasLinkHolds`, `OneRowHolds`, `NoOrphanRowHolds` (`Tame`: `Orderly`,
  `Patient`, at least one row, and no failing helper start or XTM call): from
  `HelpInv`, a helper works only while its owner stands in the wait for it and
  alone, and `RowInv`, which says what the links are at every place of a helper
  and, while none works, at every place of the thread, up to the report of Up. At
  rest (`AllRest`) a table is empty or holds one link, which is an ATM link left
  over or one whose number is misread; it has the line's LowerLayers, so the next
  creation finds it, and a misread number points at nothing else, because the
  table has no second link. The table of the other standard rests meanwhile
  (`OthersRest`).
* `OneReporterHolds` of `XdslReportCalmProofs` (`Calm`, no failing PSM call, no
  failing harvest): from `SoleReporter`. No reporter writes the status, since a
  reporter ends by itself only after a failed harvest; the bus thread starts one
  only when it changes the status from 0 to 1, and then, from its comparison on,
  none is left (`Off`). The status must be 0 or 1: a failing PSM get can leave a
  period in it, which counts as a change and starts a second reporter.
* `CommittedInForceHolds` (same conditions): from `SoleReporter` and `Agree`, which
  says for each step of a request what of model, settings and store agrees already.
* `StatusHasReporterHolds` (assuming no reporter fails to start): inductive
  with the typing; the thread that writes the status is itself a witness until
  its second test, which starts a reporter if the status is set.
* `ValidInForceHolds` (no assumption): needs the strengthening `PeriodInv`,
  because `CommitRest` uses a staged period several steps after it was
  validated. It adds that while a request runs, a staged period is valid.
* `OverrideSpentHolds` (no assumption): the count of an override stays below a TTL
  and one period. It is global and outlives the override that made it, and a
  reporter tests it against a TTL it has read, so `SpentInv` adds that what a
  reporter decides by is a TTL and a period that were once in force; the period
  comes from `PeriodInv`. TLC finds the bound without the period too small.
* `PhyEventsProofs!TypeCorrect`, `LastWordHolds`, `PhySettledHolds` (no
  assumption): from `PhyInv`, which adds to the typing and `LastWord` that the
  callback carries the state it has just written (`Carries`: what it appends is
  then the record's state even after an earlier state was dropped), that no
  handler runs before it is started (`Unstarted`), and that the handler's word
  and the one the WAN manager took are words for its message (`Speaks`). Taking
  the head of the queue keeps the newest state, which is the lemma `QueueTail`.
* `FeedRefined` (no assumption): `PhyEvents` implements `LinkFeed`. Most steps pass
  a state on between callback, queue and handler, and the joined sequence is the
  same before and after (`JoinHead`, `JoinLast`); the others take its first or last
  element or add one. Besides `PhyInv` it needs `Ready`: the handler works on a
  state, and a line has no name before start-up is done.

* `XtmLinksProofs!TypeCorrect` and `SortedUniqueHolds` (no assumption): the order
  is inductive with the typing. An entry goes in before the first larger number
  and its own number is not in the list, so the order stays strict; taking an
  entry out keeps it.
* `XtmLinksProofs!NoDuplicateEthHolds` (no assumption): two rows can only have the
  same LowerLayers if a commit added one although one was there. The
  strengthening says that a commit that is about to add a row for a link, or has
  added it, left no row of that link behind unless its lookup was misled.
* `XtmLinksSafetyProofs!TableRefined` (no assumption): every step of the tables,
  failing calls and crashes included, is a step of `LinkTable` or a stutter. Most
  actions leave the links as they are; the rest add, commit or drop one number, a
  step of `LinkTable` of the same name, and a crash is its `Restart`.
* `DrivenWasCommittedHolds` (no assumption): from `GrantInv`. A set Enable was
  granted already or belongs to a new link that asked for it, and a commit that
  has begun has moved its link from the second case to the first.
* `SettingsSurviveHolds` (no assumption): from `StoreInv`, which ties what the
  PSM holds to what was last stored, per record.
* `DeletesOwnEthHolds` (no assumption): from `DropInv`, the row that a deletion
  has looked up is a row of its link unless the lookup was misled.
* `RowsMatchLinksHolds` (no assumption): from `RowsInv`, `DropInv` and `EthInv`
  together. Rows and links match at every step but between the two steps of a
  deletion, where the row is gone and the link is not; without `EthInv` a link
  could have a second row that the deletion leaves behind.
* `HalReadoutProofs`, all without an assumption but that `Modes`, the standards
  a line may report, is not empty. The facts about the tables come first.
  `StoredPlace`: the field in which a chain stores a name, of which there is one
  at most, is the name's own, or one that `Misplaced` lists for it;
  `StoresItself`: every name of a line or channel that is not in `Lost` does reach
  its own field. The argument is `Settled`: a chain tests a key that occurs
  in a longer name only after a key that is right for that name. It needs the
  pairs of such keys one by one, and never the whole chain. `OctetsAgree`: the octets worked out for
  any standards name the bits that the enumeration gives them.
* `StatsOfOneReplyHolds`: while a request for statistics is due they are
  empty, so one reply is all that they are made of.
* `TypeCorrect` and `ShowsItsOwnHolds`: from `Records`. Each value held was given
  under a name whose field is the one it is in, or is the client's count of retrains
  in the field of that name, for the instance that was asked
  for, at no later time than now. What a getter shows is then decided by the tables.
* `CurrentAfterReadHolds`: from `FreshInv`. After a read without an error every
  name in the reply that is neither lost nor shares its field with another name in
  the reply has a value of a time since the read began. The statistics come after
  the information and must leave it alone, which they do because no name belongs to
  both parts (`PartsApart`).
* `OctetsNameStandardsHolds`: from `OctetsInv`, the octets held after a read
  decode to the bits of the standards supported and used: `DecodedEncoded` for
  octets the driver sent, `OctetsAgree` for those the client works out.
* `ReportsWholeRepliesHolds`: inductive with the typing of the clocks. What a
  report is made of has a field of its own in the chains (`ReportPlaced`) and one
  in the schema (`ReportEncoded`), so a whole reply is encoded whole.

The type record updates are lemmas of their own because the solver handles a
single record update per leaf.

## 6. Model-checked only

Liveness under fairness (`UpstreamOffStops`, `LinkLossWithdrawn`,
`LinkGainAnnounced`, `ReporterStops`, `OverrideEnds`, `KeepsReporting`,
`LossReported`, `CallbackReturns`) is out of
the prover's reach; their safety cores (`NoOrphanUp`, `StatusHasReporter`,
`OverrideSpent`, `LastWord`, `PhySettled`) are proved. `HelperNameAlive` is checked
only: under `Patient` it says no more than that the machine waits at all, and
without `Patient` it is false. Every other property of a passing run is the subject
of a theorem.

## 7. Not modelled

* More than one line: the HAL code and the reports only know `dsl0`.
* The header of a report and the avro calls, JSON texts, formatting and logging.
* Alias, VLAN and ATM link parameters of a row of `XdslLine`, links of other
  clients and a restart of the process in `XdslLine`; Alias and its
  uniqueness, Name and Status in `XtmLinks`; LED and sysevent calls.
* Diagnostics: the ADSL line test (SELT) and the ATM loopback send one command
  and read its results back; no state of theirs meets another part.
* The Enable and data gathering setters of line and channel, which pass a value on.
* What becomes of the links when a helper outlives its 15 s (see `Patient`), of the
  line when `StandardUsed` cannot be had, and of the reporters when reporting is
  enabled while one is ending (see `Calm`): the models have these steps, and the
  properties concerned are stated without them because they do not hold with them.
* A WAN manager that refuses the Down: the code never repeats it, so an Up may
  then stay. `NoOrphanUp` is stated without that failure.
* Parodus sending: six attempts with growing waits, no shared state.
* Service start-up, apart from the states it leaves.

## 8. Plan

1. Done: the line with its helpers, its abstract session and proofs; the report
   with its races, restarts and proofs.
2. Done: `PhyEvents`, the abstract `LinkFeed` and the refinement, with their proofs.
3. Done: `XtmLinks` with the abstract `LinkTable`, the refinement and every
   invariant of it proved.
4. Done: `HalTables` and `HalReadout`: the getters, the HAL client's replies, the
   XTSE octets and the report's data.
5. Done: the invariants of the line under `Prompt` and `Patient`, and those of the
   report under `Calm`, proved.
6. Done: the tables of `HalTables` and every invariant of `HalReadout` proved.
7. Left: the rows of `XdslLine` as an abstraction of `XtmLinks`, and the diagnostics.
